----------------------------- MODULE BigIntProofs ------------------------------
(***************************************************************************)
(* The arithmetic of BigInt is exact for every base, every length of the   *)
(* operands and every value of them, and the program of BigIntMachine      *)
(* keeps its invariants: what the loops over limbs compute, what long      *)
(* division returns, why the Euclidean loops end with the greatest common  *)
(* divisor and with the inverse, and that what the observers report, text  *)
(* and bytes included, is the number.                                      *)
(***************************************************************************)
EXTENDS BigIntMachine, NumberLemmas

-----------------------------------------------------------------------------
(* Sums of terms.                                                          *)

(* A recursive definition by a step function.                              *)
Follows(D, f0, step, g) ==
  /\ g \in [Nat -> D] /\ g[0] = f0
  /\ \A k \in Nat : g[k+1] = step[k][g[k]]
  /\ g = [k \in Nat |-> IF k = 0 THEN f0 ELSE step[k-1][g[k-1]]]

LEMMA RecursionForm ==
  ASSUME NEW D, NEW f0 \in D, NEW step \in [Nat -> [D -> D]]
  PROVE  \E g : Follows(D, f0, step, g)
<1>1. PICK g : Recursion(D, f0, step, g)
  BY PrimRec
<1>2. g \in [Nat -> D] /\ g[0] = f0 /\ \A k \in Nat : g[k+1] = step[k][g[k]]
  BY <1>1 DEF Recursion
<1>3. ASSUME NEW k \in Nat
      PROVE  g[k] = IF k = 0 THEN f0 ELSE step[k-1][g[k-1]]
  <2>1. CASE k = 0
    BY <1>2, <2>1
  <2>2. CASE k # 0
    <3>1. k-1 \in Nat /\ k = (k-1)+1
      BY <2>2
    <3>2. g[(k-1)+1] = step[k-1][g[k-1]]
      BY <1>2, <3>1
    <3>3. QED
      BY <3>1, <3>2, <2>2
  <2>3. QED
    BY <2>1, <2>2
<1>4. g = [k \in Nat |-> IF k = 0 THEN f0 ELSE step[k-1][g[k-1]]]
  BY <1>2, <1>3
<1>5. QED
  BY <1>2, <1>4 DEF Follows

(* The sum of the terms of a function, and its recursion.                  *)
LEMMA TermSum ==
  ASSUME NEW f \in [Nat -> Int]
  PROVE  /\ LimbSum(f, 0) = 0
         /\ \A k \in Nat : LimbSum(f, k) \in Int
         /\ \A k \in Nat : LimbSum(f, k+1) = LimbSum(f, k) + f[k] * BPow[k]
<1>1. \A k \in Nat : Limb(f, k) = f[k] /\ Limb(f, k) \in Int
  BY DEF Limb
<1>2. QED
  BY <1>1, LimbSumRec

LEMMA TermTypes ==
  ASSUME NEW f \in [Nat -> Int], NEW k \in Nat
  PROVE  LimbSum(f, k) \in Int /\ f[k] \in Int /\ BPow[k] \in Int
<1>1. LimbSum(f, k) \in Int
  BY TermSum
<1>2. QED
  BY <1>1, BPowDef

LEMMA TermSumSame ==
  ASSUME NEW f \in [Nat -> Int], NEW g \in [Nat -> Int], NEW n \in Nat,
         \A k \in 0..(n-1) : f[k] = g[k]
  PROVE  LimbSum(f, n) = LimbSum(g, n)
<1>1. \A k \in Nat : Limb(f, k) = f[k] /\ Limb(f, k) \in Int /\ Limb(g, k) = g[k] /\ Limb(g, k) \in Int
  BY DEF Limb
<1>2. \A k \in 0..(n-1) : Limb(f, k) = Limb(g, k)
  BY <1>1
<1>3. QED
  BY <1>1, <1>2, LimbSumSame

(* Words add up to less than the next power.                               *)
LEMMA WordSum ==
  ASSUME NEW f \in [Nat -> Word]
  PROVE  /\ f \in [Nat -> Int]
         /\ \A k \in Nat : LimbSum(f, k) \in Nat /\ LimbSum(f, k) < BPow[k]
<1>1. \A k \in Nat : Limb(f, k) \in Word
  BY DEF Limb
<1>2. f \in [Nat -> Int]
  BY BaseAssumption DEF Word
<1>3. QED
  BY <1>1, <1>2, LimbSumBound

(* Terms and carries of one loop, limbs and carries of another: if each    *)
(* term takes a carry in and gives B times a carry out, the sums differ by *)
(* the first and the last carry only.                                      *)
LEMMA CarryChain ==
  ASSUME NEW f \in [Nat -> Int], NEW g \in [Nat -> Int], NEW c \in [Nat -> Int], NEW n \in Nat,
         \A k \in 0..(n-1) : f[k] + c[k] = g[k] + c[k+1] * B
  PROVE  LimbSum(f, n) + c[0] = LimbSum(g, n) + c[n] * BPow[n]
<1> DEFINE P == {k \in Nat : k <= n => LimbSum(f, k) + c[0] = LimbSum(g, k) + c[k] * BPow[k]}
<1>1. 0 \in P
  <2>1. LimbSum(f, 0) = 0 /\ LimbSum(g, 0) = 0 /\ BPow[0] = 1 /\ c[0] \in Int
    <3>1. c[0] \in Int
      OBVIOUS
    <3>2. QED
      BY <3>1, TermSum, BPowDef
  <2>2. LimbSum(f, 0) + c[0] = LimbSum(g, 0) + c[0] * BPow[0]
    BY <2>1
  <2>3. QED
    BY <2>2
<1>2. \A k \in P : k+1 \in P
  <2> SUFFICES ASSUME NEW k \in Nat, k+1 <= n,
                      LimbSum(f, k) + c[0] = LimbSum(g, k) + c[k] * BPow[k]
               PROVE  LimbSum(f, k+1) + c[0] = LimbSum(g, k+1) + c[k+1] * BPow[k+1]
    OBVIOUS
  <2>1. /\ LimbSum(f, k+1) = LimbSum(f, k) + f[k] * BPow[k]
        /\ LimbSum(g, k+1) = LimbSum(g, k) + g[k] * BPow[k]
        /\ BPow[k+1] = B * BPow[k]
    BY TermSum, BPowDef
  <2>2. f[k] + c[k] = g[k] + c[k+1] * B
    OBVIOUS
  <2>3. PICK u \in Int, v \in Int, p \in Int, x \in Int, y \in Int, a \in Int, b \in Int, z \in Int :
           /\ u = LimbSum(f, k) /\ v = LimbSum(g, k) /\ p = BPow[k] /\ x = f[k] /\ y = g[k]
           /\ a = c[k] /\ b = c[k+1] /\ z = c[0]
    <3>1. LimbSum(f, k) \in Int /\ LimbSum(g, k) \in Int /\ BPow[k] \in Int
      BY TermSum, BPowDef
    <3>2. f[k] \in Int /\ g[k] \in Int /\ c[k] \in Int /\ c[k+1] \in Int /\ c[0] \in Int
      OBVIOUS
    <3>3. QED
      BY <3>1, <3>2
  <2>4. x + a = y + b * B /\ u + z = v + a * p
    BY <2>2, <2>3
  <2>5. (u + x * p) + z = (v + y * p) + b * (B * p)
    <3>1. (x + a) * p = (y + b * B) * p
      BY <2>4
    <3>2. (x + a) * p = x * p + a * p
      OBVIOUS
    <3>3. (y + b * B) * p = y * p + b * (B * p)
      BY BaseAssumption
    <3>4. x * p \in Int /\ a * p \in Int /\ y * p \in Int /\ b * (B * p) \in Int
      BY BaseAssumption
    <3>5. QED
      BY <3>1, <3>2, <3>3, <3>4, <2>4
  <2>6. QED
    BY <2>1, <2>3, <2>5
<1>3. P = Nat
  BY <1>1, <1>2, SetInduction
<1>4. n \in P
  BY <1>3
<1>5. QED
  BY <1>4

LEMMA SumPlus ==
  ASSUME NEW f \in [Nat -> Int], NEW g \in [Nat -> Int], NEW h \in [Nat -> Int], NEW n \in Nat,
         \A k \in 0..(n-1) : h[k] = f[k] + g[k]
  PROVE  LimbSum(h, n) = LimbSum(f, n) + LimbSum(g, n)
<1> DEFINE P == {k \in Nat : k <= n => LimbSum(h, k) = LimbSum(f, k) + LimbSum(g, k)}
<1>1. 0 \in P
  BY TermSum
<1>2. \A k \in P : k+1 \in P
  <2> SUFFICES ASSUME NEW k \in Nat, k+1 <= n, LimbSum(h, k) = LimbSum(f, k) + LimbSum(g, k)
               PROVE  LimbSum(h, k+1) = LimbSum(f, k+1) + LimbSum(g, k+1)
    OBVIOUS
  <2>1. /\ LimbSum(f, k+1) = LimbSum(f, k) + f[k] * BPow[k]
        /\ LimbSum(g, k+1) = LimbSum(g, k) + g[k] * BPow[k]
        /\ LimbSum(h, k+1) = LimbSum(h, k) + h[k] * BPow[k]
    BY TermSum
  <2>2. LimbSum(f, k) \in Int /\ LimbSum(g, k) \in Int /\ BPow[k] \in Int /\ f[k] \in Int /\ g[k] \in Int
    BY TermTypes
  <2>3. h[k] = f[k] + g[k]
    OBVIOUS
  <2>4. \A x, y, p \in Int : (x + y) * p = x * p + y * p /\ x * p \in Int /\ y * p \in Int
    OBVIOUS
  <2>5. QED
    BY <2>1, <2>2, <2>3, <2>4
<1>3. P = Nat
  BY <1>1, <1>2, SetInduction
<1>4. QED
  BY <1>3

LEMMA SumTimes ==
  ASSUME NEW f \in [Nat -> Int], NEW h \in [Nat -> Int], NEW a \in Int, NEW n \in Nat,
         \A k \in 0..(n-1) : h[k] = a * f[k]
  PROVE  LimbSum(h, n) = a * LimbSum(f, n)
<1> DEFINE P == {k \in Nat : k <= n => LimbSum(h, k) = a * LimbSum(f, k)}
<1>1. 0 \in P
  BY TermSum
<1>2. \A k \in P : k+1 \in P
  <2> SUFFICES ASSUME NEW k \in Nat, k+1 <= n, LimbSum(h, k) = a * LimbSum(f, k)
               PROVE  LimbSum(h, k+1) = a * LimbSum(f, k+1)
    OBVIOUS
  <2>1. /\ LimbSum(f, k+1) = LimbSum(f, k) + f[k] * BPow[k]
        /\ LimbSum(h, k+1) = LimbSum(h, k) + h[k] * BPow[k]
    BY TermSum
  <2>2. LimbSum(f, k) \in Int /\ BPow[k] \in Int /\ f[k] \in Int
    BY TermSum, BPowDef
  <2>3. h[k] = a * f[k]
    OBVIOUS
  <2>4. \A x, y, p \in Int : a * y + (a * x) * p = a * (y + x * p)
    OBVIOUS
  <2>5. QED
    BY <2>1, <2>2, <2>3, <2>4
<1>3. P = Nat
  BY <1>1, <1>2, SetInduction
<1>4. QED
  BY <1>3

LEMMA BPowSum ==
  ASSUME NEW i \in Nat, NEW n \in Nat
  PROVE  BPow[i + n] = BPow[i] * BPow[n]
<1> DEFINE P == {k \in Nat : BPow[i + k] = BPow[i] * BPow[k]}
<1>1. 0 \in P
  <2>1. BPow[0] = 1 /\ BPow[i] \in Nat /\ i + 0 = i
    BY BPowDef
  <2>2. BPow[i + 0] = BPow[i] * BPow[0]
    BY <2>1
  <2>3. QED
    BY <2>2
<1>2. \A k \in P : k+1 \in P
  <2> SUFFICES ASSUME NEW k \in Nat, BPow[i + k] = BPow[i] * BPow[k]
               PROVE  BPow[i + (k+1)] = BPow[i] * BPow[k+1]
    OBVIOUS
  <2>1. i + (k+1) = (i + k) + 1 /\ i + k \in Nat
    OBVIOUS
  <2>2. BPow[(i + k) + 1] = B * BPow[i + k] /\ BPow[k+1] = B * BPow[k]
    BY <2>1, BPowDef
  <2>3. BPow[i] \in Int /\ BPow[k] \in Int /\ B \in Int
    BY BPowDef, BaseAssumption
  <2>4. \A x, y \in Int : B * (x * y) = x * (B * y)
    BY BaseAssumption
  <2>5. QED
    BY <2>1, <2>2, <2>3, <2>4
<1>3. P = Nat
  BY <1>1, <1>2, SetInduction
<1>4. QED
  BY <1>3

(* A sum is the sum of its i lowest terms and of the others, i limbs up.   *)
LEMMA SumSplit ==
  ASSUME NEW f \in [Nat -> Int], NEW h \in [Nat -> Int], NEW i \in Nat, NEW n \in Nat,
         \A k \in 0..(n-1) : h[k] = f[i + k]
  PROVE  LimbSum(f, i + n) = LimbSum(f, i) + BPow[i] * LimbSum(h, n)
<1> DEFINE P == {k \in Nat : k <= n => LimbSum(f, i + k) = LimbSum(f, i) + BPow[i] * LimbSum(h, k)}
<1>1. 0 \in P
  <2>1. LimbSum(h, 0) = 0 /\ BPow[i] \in Int /\ i + 0 = i /\ LimbSum(f, i) \in Int
    BY TermSum, TermTypes
  <2>2. LimbSum(f, i + 0) = LimbSum(f, i) + BPow[i] * LimbSum(h, 0)
    BY <2>1
  <2>3. QED
    BY <2>2
<1>2. \A k \in P : k+1 \in P
  <2> SUFFICES ASSUME NEW k \in Nat, k+1 <= n,
                      LimbSum(f, i + k) = LimbSum(f, i) + BPow[i] * LimbSum(h, k)
               PROVE  LimbSum(f, i + (k+1)) = LimbSum(f, i) + BPow[i] * LimbSum(h, k+1)
    OBVIOUS
  <2>1. i + (k+1) = (i + k) + 1 /\ i + k \in Nat
    OBVIOUS
  <2>2. /\ LimbSum(f, (i + k) + 1) = LimbSum(f, i + k) + f[i + k] * BPow[i + k]
        /\ LimbSum(h, k+1) = LimbSum(h, k) + h[k] * BPow[k]
    BY <2>1, TermSum
  <2>3. BPow[i + k] = BPow[i] * BPow[k] /\ h[k] = f[i + k]
    <3>1. BPow[i + k] = BPow[i] * BPow[k]
      BY BPowSum
    <3>2. h[k] = f[i + k]
      OBVIOUS
    <3>3. QED
      BY <3>1, <3>2
  <2>4. PICK u \in Int, v \in Int, p \in Int, q \in Int, x \in Int :
           u = LimbSum(f, i) /\ v = LimbSum(h, k) /\ p = BPow[i] /\ q = BPow[k] /\ x = h[k]
    <3>1. /\ LimbSum(f, i) \in Int /\ LimbSum(h, k) \in Int
          /\ BPow[i] \in Int /\ BPow[k] \in Int /\ h[k] \in Int
      BY TermTypes
    <3>2. QED
      BY <3>1
  <2>5. (u + p * v) + x * (p * q) = u + p * (v + x * q)
    <3>1. x * (p * q) = p * (x * q)
      OBVIOUS
    <3>2. p * (v + x * q) = p * v + p * (x * q)
      OBVIOUS
    <3>3. QED
      BY <3>1, <3>2
  <2>6. QED
    BY <2>1, <2>2, <2>3, <2>4, <2>5
<1>3. P = Nat
  BY <1>1, <1>2, SetInduction
<1>4. QED
  BY <1>3

(* Terms that are 0 add nothing.                                           *)
LEMMA ZeroAbove ==
  ASSUME NEW f \in [Nat -> Int], NEW j \in Nat, NEW n \in Nat, j <= n,
         \A k \in j..(n-1) : f[k] = 0
  PROVE  LimbSum(f, n) = LimbSum(f, j)
<1> DEFINE P == {k \in Nat : j <= k /\ k <= n => LimbSum(f, k) = LimbSum(f, j)}
<1>1. 0 \in P
  OBVIOUS
<1>2. \A k \in P : k+1 \in P
  <2> SUFFICES ASSUME NEW k \in P, j <= k+1, k+1 <= n
               PROVE  LimbSum(f, k+1) = LimbSum(f, j)
    OBVIOUS
  <2>1. CASE j = k+1
    BY <2>1
  <2>2. CASE j # k+1
    <3>1. j <= k /\ k <= n /\ k \in Nat /\ f[k] = 0
      BY <2>2
    <3>2. LimbSum(f, k+1) = LimbSum(f, k) + 0 * BPow[k] /\ LimbSum(f, k) \in Int /\ BPow[k] \in Int
      BY <3>1, TermSum, BPowDef
    <3>3. LimbSum(f, k) = LimbSum(f, j)
      BY <3>1
    <3>4. QED
      BY <3>2, <3>3
  <2>3. QED
    BY <2>1, <2>2
<1>3. P = Nat
  BY <1>1, <1>2, SetInduction
<1>4. QED
  BY <1>3

-----------------------------------------------------------------------------
(* Limb vectors.                                                           *)

(* The greatest element of a bounded set of numbers.                       *)
LEMMA MaxBounded ==
  ASSUME NEW P, P \subseteq Nat, P # {}, NEW n \in Nat, \A k \in P : k <= n
  PROVE  Max(P) \in P /\ \A k \in P : k <= Max(P)
<1> DEFINE Q == {n - k : k \in P}
<1>1. Q \subseteq Nat /\ Q # {}
  <2>1. \A k \in P : n - k \in Nat
    OBVIOUS
  <2>2. PICK k \in P : TRUE
    OBVIOUS
  <2>3. n - k \in Q
    OBVIOUS
  <2>4. QED
    BY <2>1, <2>3
<1>2. PICK y \in Q : \A z \in Q : y <= z
  <2> HIDE DEF Q
  <2>1. QED
    BY <1>1, LeastExists
<1>3. PICK m \in P : y = n - m
  OBVIOUS
<1>4. \A k \in P : m >= k
  <2> SUFFICES ASSUME NEW k \in P PROVE m >= k
    OBVIOUS
  <2>1. n - k \in Q
    OBVIOUS
  <2>2. n - m <= n - k
    BY <1>2, <1>3, <2>1
  <2>3. QED
    BY <2>2
<1>5. Max(P) \in P /\ \A k \in P : Max(P) >= k
  BY <1>4 DEF Max
<1>6. \A k \in P : k \in Nat
  OBVIOUS
<1>7. QED
  BY <1>5, <1>6

LEMMA MaxPair ==
  ASSUME NEW i \in Nat, NEW j \in Nat
  PROVE  /\ Max({i, j}) = IF i >= j THEN i ELSE j
         /\ Max({i, j}) \in Nat /\ Max({i, j}) >= i /\ Max({i, j}) >= j
<1>1. \A m \in {i, j} : (\A k \in {i, j} : m >= k) => m = IF i >= j THEN i ELSE j
  OBVIOUS
<1>2. \E m \in {i, j} : \A k \in {i, j} : m >= k
  <2>1. CASE i >= j
    <3>1. \A k \in {i, j} : i >= k
      BY <2>1
    <3>2. QED
      BY <3>1
  <2>2. CASE ~(i >= j)
    <3>1. \A k \in {i, j} : j >= k
      BY <2>2
    <3>2. QED
      BY <3>1
  <2>3. QED
    BY <2>1, <2>2
<1>3. Max({i, j}) \in {i, j} /\ \A k \in {i, j} : Max({i, j}) >= k
  BY <1>2, Zenon DEF Max
<1>4. QED
  BY <1>1, <1>3

(* A vector reads as its limbs and as 0 beyond them, and its number is     *)
(* that of any count of limbs that takes in all of them.                   *)
LEMMA VectorLimbs ==
  ASSUME NEW x \in Seq(Word)
  PROVE  /\ Len(x) \in Nat /\ Array(x) \in [Nat -> Word]
         /\ \A k \in Nat : Array(x)[k] = LimbAt(x, k) /\ LimbAt(x, k) \in Word
         /\ \A k \in 0..(Len(x)-1) : LimbAt(x, k) = x[k+1] /\ x[k+1] \in Word
         /\ \A k \in Nat : k >= Len(x) => LimbAt(x, k) = 0
<1>1. Len(x) \in Nat /\ \A k \in 1..Len(x) : x[k] \in Word
  OBVIOUS
<1>2. \A k \in 0..(Len(x)-1) : LimbAt(x, k) = x[k+1] /\ x[k+1] \in Word
  <2> SUFFICES ASSUME NEW k \in 0..(Len(x)-1) PROVE LimbAt(x, k) = x[k+1] /\ x[k+1] \in Word
    OBVIOUS
  <2>1. k < Len(x) /\ k+1 \in 1..Len(x)
    BY <1>1
  <2>2. QED
    BY <1>1, <2>1 DEF LimbAt
<1>3. \A k \in Nat : k >= Len(x) => LimbAt(x, k) = 0
  BY <1>1 DEF LimbAt
<1>4. ASSUME NEW k \in Nat PROVE LimbAt(x, k) \in Word
  <2>1. CASE k < Len(x)
    BY <1>1, <1>2, <2>1
  <2>2. CASE ~(k < Len(x))
    BY <1>1, <1>3, <2>2, BaseAssumption DEF Word
  <2>3. QED
    BY <2>1, <2>2
<1>5. Array(x) \in [Nat -> Word] /\ \A k \in Nat : Array(x)[k] = LimbAt(x, k)
  BY <1>4 DEF Array
<1>6. QED
  BY <1>1, <1>2, <1>3, <1>4, <1>5

LEMMA VectorNumber ==
  ASSUME NEW x \in Seq(Word)
  PROVE  /\ Array(x) \in [Nat -> Int]
         /\ Number(x) = LimbSum(Array(x), Len(x))
         /\ Number(x) \in Nat /\ Number(x) < BPow[Len(x)]
         /\ \A n \in Nat : n >= Len(x) => LimbSum(Array(x), n) = Number(x)
<1>1. Array(x) \in [Nat -> Word] /\ Len(x) \in Nat
  BY VectorLimbs
<1>2. Array(x) \in [Nat -> Int]
  BY <1>1, WordSum
<1>3. LimbSum(Array(x), Len(x)) \in Nat /\ LimbSum(Array(x), Len(x)) < BPow[Len(x)]
  BY <1>1, WordSum
<1>4. ASSUME NEW n \in Nat, n >= Len(x)
      PROVE  LimbSum(Array(x), n) = LimbSum(Array(x), Len(x))
  <2>1. \A k \in Len(x)..(n-1) : Array(x)[k] = 0
    <3> SUFFICES ASSUME NEW k \in Len(x)..(n-1) PROVE Array(x)[k] = 0
      OBVIOUS
    <3>1. k \in Nat /\ k >= Len(x)
      BY <1>1
    <3>2. QED
      BY <3>1, VectorLimbs
  <2>2. QED
    BY <1>1, <1>2, <1>4, <2>1, ZeroAbove
<1>5. QED
  BY <1>2, <1>3, <1>4 DEF Number

(* A vector made of words.                                                 *)
LEMMA MadeVector ==
  ASSUME NEW n \in Nat, NEW g \in [Nat -> Word], NEW x, x = [k \in 1..n |-> g[k-1]]
  PROVE  /\ x \in Seq(Word) /\ Len(x) = n /\ DOMAIN x = 1..n
         /\ \A k \in 0..(n-1) : LimbAt(x, k) = g[k]
         /\ Number(x) = LimbSum(g, n)
<1>1. \A k \in 1..n : k-1 \in Nat /\ g[k-1] \in Word
  OBVIOUS
<1>2. x \in [1..n -> Word]
  BY <1>1
<1>3. x \in Seq(Word) /\ Len(x) = n /\ DOMAIN x = 1..n
  BY <1>2
<1>4. ASSUME NEW k \in 0..(n-1) PROVE LimbAt(x, k) = g[k]
  <2>1. k < Len(x) /\ k+1 \in 1..n /\ (k+1)-1 = k
    BY <1>3
  <2>2. QED
    BY <2>1 DEF LimbAt
<1>5. Array(x) \in [Nat -> Int] /\ Number(x) = LimbSum(Array(x), n) /\ g \in [Nat -> Int]
  BY <1>3, VectorNumber, WordSum
<1>6. \A k \in 0..(n-1) : Array(x)[k] = g[k]
  <2> SUFFICES ASSUME NEW k \in 0..(n-1) PROVE Array(x)[k] = g[k]
    OBVIOUS
  <2>1. Array(x)[k] = LimbAt(x, k)
    BY <1>3, VectorLimbs
  <2>2. QED
    BY <2>1, <1>4
<1>7. LimbSum(Array(x), n) = LimbSum(g, n)
  BY <1>5, <1>6, TermSumSame
<1>8. QED
  BY <1>3, <1>4, <1>5, <1>7

(* Normalised vectors, of any length.                                      *)
Canonical(x) == x \in Seq(Word) /\ Len(x) >= 1 /\ (Len(x) > 1 => x[Len(x)] # 0)

LEMMA Prefix ==
  ASSUME NEW x \in Seq(Word), NEW m \in 1..Len(x)
  PROVE  /\ SubSeq(x, 1, m) \in Seq(Word) /\ Len(SubSeq(x, 1, m)) = m
         /\ \A k \in 1..m : SubSeq(x, 1, m)[k] = x[k]
OBVIOUS

LEMMA NormalVector ==
  ASSUME NEW x \in Seq(Word)
  PROVE  /\ Canonical(Normal(x))
         /\ Number(Normal(x)) = Number(x)
<1>1. CASE x = <<>>
  <2>1. Normal(x) = <<0>>
    BY <1>1 DEF Normal
  <2>2. 0 \in Word
    BY BaseAssumption DEF Word
  <2>3. <<0>> \in Seq(Word) /\ Len(<<0>>) = 1 /\ <<0>>[1] = 0 /\ Len(x) = 0
    BY <2>2, <1>1
  <2>4. Number(x) = 0
    BY <2>3, VectorNumber, TermSum
  <2>5. Number(<<0>>) = 0
    <3>1. Number(<<0>>) = LimbSum(Array(<<0>>), 1) /\ Array(<<0>>) \in [Nat -> Int]
      BY <2>3, VectorNumber
    <3>2. LimbSum(Array(<<0>>), 0 + 1) = LimbSum(Array(<<0>>), 0) + Array(<<0>>)[0] * BPow[0]
      BY <3>1, TermSum
    <3>3. Array(<<0>>)[0] = 0
      BY <2>3 DEF Array, LimbAt
    <3>4. LimbSum(Array(<<0>>), 0) = 0 /\ BPow[0] = 1
      BY <3>1, TermSum, BPowDef
    <3>5. QED
      BY <3>1, <3>2, <3>3, <3>4
  <2>6. QED
    BY <2>1, <2>3, <2>4, <2>5 DEF Canonical
<1>2. CASE x # <<>>
  <2> DEFINE P == {1} \cup {k \in DOMAIN x : x[k] # 0}
             m == Max(P)
             y == SubSeq(x, 1, m)
  <2>1. Len(x) \in Nat /\ Len(x) >= 1 /\ DOMAIN x = 1..Len(x)
    BY <1>2
  <2>2. P \subseteq Nat /\ P # {} /\ \A k \in P : k <= Len(x)
    BY <2>1
  <2>3. m \in P /\ \A k \in P : k <= m
    <3> HIDE DEF P
    <3>1. QED
      BY <2>1, <2>2, MaxBounded
  <2>4. Normal(x) = y
    BY <1>2 DEF Normal
  <2>5. m \in 1..Len(x) /\ m \in Nat /\ m <= Len(x) /\ (m > 1 => x[m] # 0)
    BY <2>1, <2>3
  <2>6. \A k \in 1..Len(x) : k > m => x[k] = 0
    <3> SUFFICES ASSUME NEW k \in 1..Len(x), k > m, x[k] # 0 PROVE FALSE
      OBVIOUS
    <3>1. k \in P
      BY <2>1
    <3>2. k <= m
      BY <2>3, <3>1
    <3>3. QED
      BY <3>2, <2>5
  <2> HIDE DEF m, P
  <2>7. y \in Seq(Word) /\ Len(y) = m /\ \A k \in 1..m : y[k] = x[k]
    BY <2>5, Prefix
  <2> HIDE DEF y
  <2>8. Canonical(y)
    BY <2>5, <2>7 DEF Canonical
  <2>9. Number(y) = Number(x)
    <3>1. /\ Array(x) \in [Nat -> Int] /\ Array(y) \in [Nat -> Int]
          /\ Number(x) = LimbSum(Array(x), Len(x)) /\ Number(y) = LimbSum(Array(y), m)
      BY <2>7, VectorNumber
    <3>2. \A k \in 0..(m-1) : Array(x)[k] = Array(y)[k]
      <4> SUFFICES ASSUME NEW k \in 0..(m-1) PROVE Array(x)[k] = Array(y)[k]
        OBVIOUS
      <4>1. k \in Nat /\ k < Len(x) /\ k < Len(y) /\ k+1 \in 1..m
        BY <2>1, <2>5, <2>7
      <4>2. Array(x)[k] = x[k+1] /\ Array(y)[k] = y[k+1]
        BY <4>1 DEF Array, LimbAt
      <4>3. QED
        BY <4>1, <4>2, <2>7
    <3>3. LimbSum(Array(x), m) = LimbSum(Array(y), m)
      BY <2>5, <3>1, <3>2, TermSumSame
    <3>4. \A k \in m..(Len(x)-1) : Array(x)[k] = 0
      <4> SUFFICES ASSUME NEW k \in m..(Len(x)-1) PROVE Array(x)[k] = 0
        OBVIOUS
      <4>1. k \in Nat /\ k < Len(x) /\ k+1 \in 1..Len(x) /\ k+1 > m
        BY <2>1, <2>5
      <4>2. QED
        BY <4>1, <2>6 DEF Array, LimbAt
    <3>5. LimbSum(Array(x), Len(x)) = LimbSum(Array(x), m)
      BY <2>1, <2>5, <3>1, <3>4, ZeroAbove
    <3>6. QED
      BY <3>1, <3>3, <3>5
  <2>10. QED
    BY <2>4, <2>8, <2>9
<1>3. QED
  BY <1>1, <1>2

(* A normalised vector is its own normal form.                             *)
LEMMA NormalSame ==
  ASSUME NEW x, Canonical(x)
  PROVE  Normal(x) = x
<1> DEFINE P == {1} \cup {k \in DOMAIN x : x[k] # 0}
           m == Max(P)
<1>1. x \in Seq(Word) /\ Len(x) \in Nat /\ Len(x) >= 1 /\ DOMAIN x = 1..Len(x) /\ x # <<>>
  BY DEF Canonical
<1>2. P \subseteq Nat /\ P # {} /\ \A k \in P : k <= Len(x)
  BY <1>1
<1>3. m \in P /\ \A k \in P : k <= m
  <2> HIDE DEF P
  <2>1. QED
    BY <1>1, <1>2, MaxBounded
<1>4. Len(x) \in P
  BY <1>1 DEF Canonical
<1>5. m = Len(x)
  BY <1>1, <1>2, <1>3, <1>4
<1>6. SubSeq(x, 1, Len(x)) = x
  BY <1>1
<1>7. Normal(x) = SubSeq(x, 1, m)
  BY <1>1 DEF Normal
<1>8. QED
  BY <1>5, <1>6, <1>7

(* The highest limb of a normalised vector counts: more limbs make a       *)
(* larger number, and only one vector is zero.                             *)
LEMMA CanonicalBound ==
  ASSUME NEW x, Canonical(x)
  PROVE  /\ Len(x) > 1 => Number(x) >= BPow[Len(x) - 1]
         /\ IsZero(x) <=> Number(x) = 0
         /\ Number(x) \in Nat
<1>1. x \in Seq(Word) /\ Len(x) \in Nat /\ Len(x) >= 1 /\ Len(x) - 1 \in Nat
  BY DEF Canonical
<1>2. /\ Array(x) \in [Nat -> Int] /\ Number(x) = LimbSum(Array(x), Len(x))
      /\ Number(x) \in Nat
  BY <1>1, VectorNumber
<1> DEFINE n == Len(x) - 1
<1>3. LimbSum(Array(x), n + 1) = LimbSum(Array(x), n) + Array(x)[n] * BPow[n]
  BY <1>1, <1>2, TermSum
<1>4. LimbSum(Array(x), n) \in Nat
  BY <1>1, VectorLimbs, WordSum
<1>5. Array(x)[n] = x[Len(x)] /\ x[Len(x)] \in Word
  <2>1. n \in 0..(Len(x)-1) /\ n + 1 = Len(x)
    BY <1>1
  <2>2. LimbAt(x, n) = x[n+1] /\ x[n+1] \in Word /\ Array(x)[n] = LimbAt(x, n)
    BY <1>1, <2>1, VectorLimbs
  <2>3. QED
    BY <2>1, <2>2
<1>6. PICK low \in Nat, top \in Nat, p \in Nat \ {0} :
        low = LimbSum(Array(x), n) /\ top = x[Len(x)] /\ p = BPow[n]
  <2>1. x[Len(x)] \in Nat
    BY <1>5, BaseAssumption DEF Word
  <2>2. BPow[n] \in Nat \ {0}
    BY <1>1, BPowDef
  <2>3. QED
    BY <1>4, <2>1, <2>2
<1>7. Number(x) = low + top * p
  <2>1. n + 1 = Len(x)
    BY <1>1
  <2>2. QED
    BY <1>2, <1>3, <1>5, <1>6, <2>1
<1>8. top # 0 => top * p >= p
  <2> SUFFICES ASSUME top # 0 PROVE top * p >= p
    OBVIOUS
  <2>1. PICK t \in Nat : top = t + 1
    <3>1. top - 1 \in Nat /\ top = (top - 1) + 1
      OBVIOUS
    <3>2. QED
      BY <3>1
  <2>2. (t + 1) * p = t * p + p /\ t * p \in Nat
    OBVIOUS
  <2>3. QED
    BY <2>1, <2>2
<1>9. Len(x) > 1 => Number(x) >= BPow[n]
  BY <1>6, <1>7, <1>8 DEF Canonical
<1>10. IsZero(x) => Number(x) = 0
  <2> SUFFICES ASSUME IsZero(x) PROVE Number(x) = 0
    OBVIOUS
  <2>1. Len(x) = 1 /\ x[1] = 0
    BY DEF IsZero, Zero
  <2>2. LimbSum(Array(x), 0) = 0
    BY <1>2, TermSum
  <2>3. low = 0 /\ top = 0
    BY <2>1, <2>2, <1>6
  <2>4. QED
    BY <2>3, <1>7
<1>11. Number(x) = 0 => IsZero(x)
  <2> SUFFICES ASSUME Number(x) = 0 PROVE x = <<0>>
    BY DEF IsZero, Zero
  <2>1. top = 0
    <3>1. top * p \in Nat
      OBVIOUS
    <3>2. QED
      BY <3>1, <1>7, <1>8
  <2>2. Len(x) = 1
    <3>1. ~(Len(x) > 1)
      BY <1>6, <2>1, Zenon DEF Canonical
    <3>2. \A l \in Nat : l >= 1 /\ ~(l > 1) => l = 1
      OBVIOUS
    <3>3. QED
      BY <3>1, <3>2, <1>1, Zenon
  <2>3. x[1] = 0
    BY <1>6, <2>1, <2>2
  <2>4. QED
    BY <1>1, <2>2, <2>3
<1>12. QED
  BY <1>2, <1>9, <1>10, <1>11

-----------------------------------------------------------------------------
(* Vectors of one limb.                                                    *)
LEMMA OneLimb ==
  ASSUME NEW v \in Word
  PROVE  Canonical(<<v>>) /\ Number(<<v>>) = v
<1>1. <<v>> \in Seq(Word) /\ Len(<<v>>) = 1 /\ v \in Int
  BY BaseAssumption DEF Word
<1>2. LimbSum(Array(<<v>>), 0 + 1) = LimbSum(Array(<<v>>), 0) + Array(<<v>>)[0] * BPow[0]
  BY <1>1, VectorNumber, TermSum
<1>3. LimbSum(Array(<<v>>), 0) = 0 /\ BPow[0] = 1
  BY <1>1, VectorNumber, TermSum, BPowDef
<1>4. Array(<<v>>)[0] = v
  BY <1>1 DEF Array, LimbAt
<1>5. LimbSum(Array(<<v>>), 1) = v
  BY <1>1, <1>2, <1>3, <1>4
<1>6. QED
  BY <1>1, <1>5 DEF Canonical, Number

LEMMA ZeroNumber == Canonical(Zero) /\ Number(Zero) = 0 /\ Canonical(One) /\ Number(One) = 1
<1>1. 0 \in Word /\ 1 \in Word
  BY BaseAssumption DEF Word
<1>2. QED
  BY <1>1, OneLimb DEF Zero, One

(* Comparison.                                                             *)

LEMMA BPowGrows ==
  ASSUME NEW i \in Nat, NEW j \in Nat, i <= j
  PROVE  BPow[i] <= BPow[j] /\ BPow[i] \in Nat \ {0} /\ BPow[j] \in Nat \ {0}
<1>1. PICK n \in Nat : j = i + n
  <2>1. j - i \in Nat /\ j = i + (j - i)
    OBVIOUS
  <2>2. QED
    BY <2>1
<1>2. BPow[j] = BPow[i] * BPow[n]
  BY <1>1, BPowSum
<1>3. PICK p \in Nat \ {0}, q \in Nat \ {0} : p = BPow[i] /\ q = BPow[n]
  BY BPowDef
<1>4. p <= p * q
  <2>1. q - 1 \in Nat /\ p * q = p * (q - 1) + p /\ p * (q - 1) \in Nat
    OBVIOUS
  <2>2. QED
    BY <2>1
<1>5. BPow[i] \in Nat \ {0} /\ BPow[j] \in Nat \ {0}
  BY BPowDef
<1>6. QED
  BY <1>2, <1>3, <1>4, <1>5

(* The highest limb in which two numbers differ says which is larger.      *)
LEMMA HigherWins ==
  ASSUME NEW f \in [Nat -> Word], NEW g \in [Nat -> Word], NEW n \in Nat,
         NEW j \in 0..(n-1), f[j] < g[j], \A k \in (j+1)..(n-1) : f[k] = g[k]
  PROVE  LimbSum(f, n) < LimbSum(g, n)
<1> DEFINE P == {k \in Nat : j+1 <= k /\ k <= n => LimbSum(f, k) < LimbSum(g, k)}
<1>1. f \in [Nat -> Int] /\ g \in [Nat -> Int] /\ j \in Nat
  BY WordSum
<1>2. LimbSum(f, j+1) < LimbSum(g, j+1)
  <2>1. /\ LimbSum(f, j+1) = LimbSum(f, j) + f[j] * BPow[j]
        /\ LimbSum(g, j+1) = LimbSum(g, j) + g[j] * BPow[j]
    BY <1>1, TermSum
  <2>2. LimbSum(f, j) \in Nat /\ LimbSum(f, j) < BPow[j] /\ LimbSum(g, j) \in Nat
    BY <1>1, WordSum
  <2>3. PICK u \in Nat, v \in Nat, p \in Nat, x \in Nat, y \in Nat :
          /\ u = LimbSum(f, j) /\ v = LimbSum(g, j) /\ p = BPow[j] /\ x = f[j] /\ y = g[j]
    <3>1. f[j] \in Nat /\ g[j] \in Nat
      BY <1>1, BaseAssumption DEF Word
    <3>2. BPow[j] \in Nat
      BY <1>1, BPowDef
    <3>3. QED
      BY <2>2, <3>1, <3>2
  <2>4. u + x * p < v + y * p
    <3>1. u < p /\ x < y
      BY <2>2, <2>3
    <3>2. PICK t \in Nat : y = x + 1 + t
      <4>1. y - x - 1 \in Nat /\ y = x + 1 + (y - x - 1)
        BY <3>1
      <4>2. QED
        BY <4>1
    <3>3. (x + 1 + t) * p = x * p + p + t * p /\ x * p \in Nat /\ t * p \in Nat
      OBVIOUS
    <3>4. QED
      BY <3>1, <3>2, <3>3
  <2>5. QED
    BY <2>1, <2>3, <2>4
<1>3. 0 \in P
  BY <1>1
<1>4. \A k \in P : k+1 \in P
  <2> SUFFICES ASSUME NEW k \in P, j+1 <= k+1, k+1 <= n
               PROVE  LimbSum(f, k+1) < LimbSum(g, k+1)
    OBVIOUS
  <2>1. CASE k = j
    BY <1>2, <2>1
  <2>2. CASE k # j
    <3>1. k \in Nat /\ j+1 <= k /\ k <= n /\ k \in (j+1)..(n-1)
      BY <1>1, <2>2
    <3>2. LimbSum(f, k) < LimbSum(g, k) /\ f[k] = g[k]
      BY <3>1
    <3>3. /\ LimbSum(f, k+1) = LimbSum(f, k) + f[k] * BPow[k]
          /\ LimbSum(g, k+1) = LimbSum(g, k) + g[k] * BPow[k]
      BY <1>1, <3>1, TermSum
    <3>4. LimbSum(f, k) \in Int /\ LimbSum(g, k) \in Int /\ f[k] * BPow[k] \in Int
      <4>1. LimbSum(f, k) \in Int /\ f[k] \in Int /\ BPow[k] \in Int
        BY <1>1, <3>1, TermTypes
      <4>2. LimbSum(g, k) \in Int
        BY <1>1, <3>1, TermTypes
      <4>3. QED
        BY <4>1, <4>2
    <3>5. QED
      BY <3>2, <3>3, <3>4
  <2>3. QED
    BY <2>1, <2>2
<1>5. P = Nat
  BY <1>3, <1>4, SetInduction
<1>6. n \in P /\ j+1 <= n
  BY <1>5
<1>7. QED
  BY <1>6

LEMMA ShorterLess ==
  ASSUME NEW x, NEW y, Canonical(x), Canonical(y), Len(x) < Len(y)
  PROVE  Number(x) < Number(y)
<1>1. x \in Seq(Word) /\ y \in Seq(Word) /\ Len(x) >= 1
  BY DEF Canonical
<1>2. Len(x) \in Nat /\ Len(y) \in Nat
  BY <1>1
<1>3. Len(y) > 1 /\ Len(y) - 1 \in Nat /\ Len(x) <= Len(y) - 1
  BY <1>1, <1>2
<1>4. Number(y) >= BPow[Len(y) - 1] /\ Number(y) \in Nat
  BY <1>3, CanonicalBound
<1>5. Number(x) < BPow[Len(x)] /\ Number(x) \in Nat
  BY <1>1, VectorNumber
<1>6. BPow[Len(x)] <= BPow[Len(y) - 1] /\ BPow[Len(x)] \in Nat /\ BPow[Len(y) - 1] \in Nat
  BY <1>2, <1>3, BPowGrows
<1>7. QED
  BY <1>4, <1>5, <1>6

LEMMA DifferingLimb ==
  ASSUME NEW x \in Seq(Word), NEW y \in Seq(Word), Len(x) = Len(y),
         NEW m \in DOMAIN x, x[m] < y[m], \A k \in DOMAIN x : k > m => x[k] = y[k]
  PROVE  Number(x) < Number(y)
<1> DEFINE n == Len(x)
           f == Array(x)
           g == Array(y)
<1>1. n \in Nat /\ DOMAIN x = 1..n /\ m-1 \in 0..(n-1)
  OBVIOUS
<1>2. f \in [Nat -> Word] /\ g \in [Nat -> Word]
  BY VectorLimbs
<1>3. \A k \in 0..(n-1) : f[k] = x[k+1] /\ g[k] = y[k+1]
  <2> SUFFICES ASSUME NEW k \in 0..(n-1) PROVE f[k] = x[k+1] /\ g[k] = y[k+1]
    OBVIOUS
  <2>1. k \in Nat /\ k < Len(x) /\ k < Len(y)
    BY <1>1
  <2>2. QED
    BY <2>1 DEF Array, LimbAt
<1>4. f[m-1] < g[m-1]
  <2>1. (m-1)+1 = m
    BY <1>1
  <2>2. QED
    BY <1>1, <1>3, <2>1
<1>5. \A k \in ((m-1)+1)..(n-1) : f[k] = g[k]
  <2> SUFFICES ASSUME NEW k \in ((m-1)+1)..(n-1) PROVE f[k] = g[k]
    OBVIOUS
  <2>1. k \in 0..(n-1) /\ k+1 \in DOMAIN x /\ k+1 > m
    BY <1>1
  <2>2. QED
    BY <2>1, <1>3
<1>6. Number(x) = LimbSum(f, n) /\ Number(y) = LimbSum(g, n)
  BY VectorNumber
<1> HIDE DEF f, g, n
<1>7. LimbSum(f, n) < LimbSum(g, n)
  BY <1>1, <1>2, <1>4, <1>5, HigherWins
<1>8. QED
  BY <1>6, <1>7

(* compare is the order of the numbers, and equal numbers have one vector. *)
LEMMA CompareNumbers ==
  ASSUME NEW x, NEW y, Canonical(x), Canonical(y)
  PROVE  /\ Compare(x, y) = (IF Number(x) < Number(y) THEN -1
                             ELSE IF Number(x) = Number(y) THEN 0 ELSE 1)
         /\ Number(x) = Number(y) <=> x = y
<1> DEFINE differ == {k \in DOMAIN x : x[k] # y[k]}
<1>1. /\ x \in Seq(Word) /\ y \in Seq(Word) /\ Len(x) \in Nat /\ Len(y) \in Nat
      /\ DOMAIN x = 1..Len(x) /\ DOMAIN y = 1..Len(y)
  BY DEF Canonical
<1>2. Number(x) \in Nat /\ Number(y) \in Nat
  BY <1>1, VectorNumber
<1>2a. \A i, j \in Nat : (i < j => i # j) /\ (j < i => i # j /\ ~(i < j)) /\ (i = j \/ i < j \/ j < i)
  OBVIOUS
<1>2b. (Len(x) = Len(y) \/ Len(x) < Len(y) \/ Len(y) < Len(x))
  BY <1>2a, <1>1, Zenon
<1>3. CASE Len(x) < Len(y)
  <2>1. Number(x) < Number(y)
    BY <1>3, ShorterLess
  <2>2. Compare(x, y) = -1
    <3>1. Len(x) # Len(y)
      BY <1>2a, <1>1, <1>3, Zenon
    <3>2. QED
      BY <1>3, <3>1, Zenon DEF Compare
  <2>3. QED
    BY <2>1, <2>2, <1>2
<1>4. CASE Len(y) < Len(x)
  <2>1. Number(y) < Number(x)
    BY <1>4, ShorterLess
  <2>2. Compare(x, y) = 1
    <3>1. Len(x) # Len(y) /\ ~(Len(x) < Len(y))
      BY <1>2a, <1>1, <1>4, Zenon
    <3>2. QED
      BY <3>1, Zenon DEF Compare
  <2>3. QED
    BY <2>1, <2>2, <1>2
<1>5. CASE Len(x) = Len(y) /\ differ = {}
  <2>1. x = y
    BY <1>1, <1>5
  <2>2. Compare(x, y) = 0
    BY <1>5 DEF Compare
  <2>3. QED
    BY <2>1, <2>2, <1>2
<1>6. CASE Len(x) = Len(y) /\ differ # {}
  <2> DEFINE m == Max(differ)
  <2>1. m \in differ /\ \A k \in differ : k <= m
    <3>1. differ \subseteq Nat /\ \A k \in differ : k <= Len(x)
      BY <1>1
    <3> HIDE DEF differ
    <3>2. QED
      BY <3>1, <1>1, <1>6, MaxBounded
  <2>2. m \in DOMAIN x /\ x[m] # y[m] /\ x[m] \in Nat /\ y[m] \in Nat
    <3>1. m \in DOMAIN x /\ x[m] # y[m]
      BY <2>1
    <3>2. x[m] \in Word /\ y[m] \in Word
      BY <1>1, <1>6, <3>1
    <3>3. QED
      BY <3>1, <3>2, BaseAssumption DEF Word
  <2>3. \A k \in DOMAIN x : k > m => x[k] = y[k]
    <3> SUFFICES ASSUME NEW k \in DOMAIN x, k > m, x[k] # y[k] PROVE FALSE
      OBVIOUS
    <3>1. k \in differ
      OBVIOUS
    <3>2. k <= m
      BY <2>1, <3>1
    <3>3. k \in Nat /\ m \in Nat
      BY <1>1, <2>2
    <3>4. QED
      BY <3>2, <3>3
  <2>4. Compare(x, y) = IF x[m] < y[m] THEN -1 ELSE 1
    BY <1>6, Zenon DEF Compare
  <2> HIDE DEF m
  <2>5. x # y
    BY <2>2
  <2>6. CASE x[m] < y[m]
    <3>1. Number(x) < Number(y)
      BY <1>1, <1>6, <2>2, <2>3, <2>6, DifferingLimb
    <3>2. QED
      BY <3>1, <2>4, <2>5, <2>6, <1>2
  <2>7. CASE ~(x[m] < y[m])
    <3>1. y[m] < x[m] /\ m \in DOMAIN y /\ DOMAIN y = DOMAIN x
      BY <1>1, <1>6, <2>2, <2>7
    <3>2. \A k \in DOMAIN y : k > m => y[k] = x[k]
      BY <3>1, <2>3
    <3>3. Number(y) < Number(x)
      BY <1>1, <1>6, <3>1, <3>2, DifferingLimb
    <3>4. QED
      BY <3>3, <2>4, <2>5, <2>7, <1>2
  <2>8. QED
    BY <2>6, <2>7
<1>7. QED
  BY <1>2b, <1>3, <1>4, <1>5, <1>6, Zenon

-----------------------------------------------------------------------------
(* Loops with a carry or a borrow.                                         *)

LEMMA WrappedWord ==
  ASSUME NEW x \in Int
  PROVE  /\ U64(x) \in Nat /\ Hi(U64(x)) \in Word /\ U32(U64(x)) \in Word
         /\ U64(x) = Hi(U64(x)) * B + U32(U64(x))
<1>1. PICK c \in Nat \ {0} : c = B * B
  <2>1. B * B \in Nat \ {0}
    BY BaseAssumption
  <2>2. QED
    BY <2>1
<1>2. x % c \in Nat /\ x % c < c
  OBVIOUS
<1>3. U64(x) \in Nat /\ U64(x) < B * B
  BY <1>1, <1>2 DEF U64
<1>4. PICK u \in Nat : u = U64(x) /\ u < B * B
  BY <1>3
<1>5. Hi(u) \in Word /\ U32(u) \in Word /\ u = Hi(u) * B + U32(u)
  BY <1>4, NoWrap64, SplitWord
<1>6. QED
  BY <1>4, <1>5

(* The recursion of the carries.                                           *)
LEMMA CarriesRec ==
  ASSUME NEW f \in [Nat -> Int]
  PROVE  /\ Carries(f) \in [Nat -> Word] /\ Carries(f)[0] = 0
         /\ \A k \in Nat : Carries(f)[k+1] = Hi(U64(f[k] + Carries(f)[k]))
<1> DEFINE step == [k \in Nat |-> [v \in Word |-> Hi(U64(f[k] + v))]]
           carry == CHOOSE c : c = [k \in Nat |-> IF k = 0 THEN 0 ELSE Hi(U64(f[k-1] + c[k-1]))]
<1>1. 0 \in Word /\ \A v \in Word : v \in Int
  BY BaseAssumption DEF Word
<1>2. step \in [Nat -> [Word -> Word]]
  <2> SUFFICES ASSUME NEW k \in Nat, NEW v \in Word PROVE Hi(U64(f[k] + v)) \in Word
    OBVIOUS
  <2>1. f[k] + v \in Int
    BY <1>1
  <2>2. QED
    BY <2>1, WrappedWord
<1>3. PICK g : Follows(Word, 0, step, g)
  <2> HIDE DEF step
  <2>1. QED
    BY <1>1, <1>2, RecursionForm
<1>4. g = [k \in Nat |-> IF k = 0 THEN 0 ELSE Hi(U64(f[k-1] + g[k-1]))]
  <2>1. ASSUME NEW k \in Nat PROVE k # 0 => step[k-1][g[k-1]] = Hi(U64(f[k-1] + g[k-1]))
    <3> SUFFICES ASSUME k # 0 PROVE step[k-1][g[k-1]] = Hi(U64(f[k-1] + g[k-1]))
      OBVIOUS
    <3>1. k-1 \in Nat
      OBVIOUS
    <3>2. g[k-1] \in Word
      BY <1>3, <3>1 DEF Follows
    <3>3. QED
      BY <3>1, <3>2
  <2> HIDE DEF step
  <2>2. QED
    BY <1>3, <2>1 DEF Follows
<1>5. carry = [k \in Nat |-> IF k = 0 THEN 0 ELSE Hi(U64(f[k-1] + carry[k-1]))]
  BY <1>4, Zenon
<1>6. Carries(f) = carry
  BY DEF Carries
<1> HIDE DEF carry
<1>7. \A k \in Nat : carry[k] = IF k = 0 THEN 0 ELSE Hi(U64(f[k-1] + carry[k-1]))
  BY <1>5, Zenon
<1>8. carry[0] = 0 /\ \A k \in Nat : carry[k+1] = Hi(U64(f[k] + carry[k]))
  <2>1. carry[0] = 0
    BY <1>7
  <2>2. ASSUME NEW k \in Nat PROVE carry[k+1] = Hi(U64(f[k] + carry[k]))
    <3>1. k+1 \in Nat /\ k+1 # 0 /\ (k+1)-1 = k
      OBVIOUS
    <3>2. QED
      BY <3>1, <1>7
  <2>3. QED
    BY <2>1, <2>2
<1>9. carry \in [Nat -> Word]
  <2> DEFINE P == {k \in Nat : carry[k] \in Word}
  <2>1. 0 \in P
    BY <1>1, <1>8
  <2>2. \A k \in P : k+1 \in P
    <3> SUFFICES ASSUME NEW k \in Nat, carry[k] \in Word PROVE carry[k+1] \in Word
      OBVIOUS
    <3>1. f[k] + carry[k] \in Int
      BY <1>1
    <3>2. QED
      BY <3>1, <1>8, WrappedWord
  <2>3. P = Nat
    BY <2>1, <2>2, SetInduction
  <2>4. \A k \in Nat : carry[k] \in Word
    BY <2>3
  <2>5. carry = [k \in Nat |-> carry[k]]
    BY <1>5
  <2>6. QED
    BY <2>4, <2>5
<1>10. QED
  BY <1>6, <1>8, <1>9

(* Terms that leave room for a carry in 64 bits.                           *)
Roomy == {f \in [Nat -> Nat] : \A k \in Nat : f[k] <= B * B - B}

(* Then no addition wraps, and the limbs written and the last carry are    *)
(* the sum of the terms.                                                   *)
LEMMA SummedTerms ==
  ASSUME NEW f \in Roomy, NEW n \in Nat
  PROVE  /\ Summed(f, n) \in Seq(Word) /\ Len(Summed(f, n)) = n
         /\ Carries(f)[n] \in Word
         /\ LimbSum(f, n) = Number(Summed(f, n)) + Carries(f)[n] * BPow[n]
<1> DEFINE c == Carries(f)
           g == [k \in Nat |-> U32(U64(f[k] + c[k]))]
<1>1. f \in [Nat -> Nat] /\ f \in [Nat -> Int]
  BY DEF Roomy
<1>2. c \in [Nat -> Word] /\ c[0] = 0 /\ \A k \in Nat : c[k+1] = Hi(U64(f[k] + c[k]))
  BY <1>1, CarriesRec
<1> HIDE DEF c
<1>3. ASSUME NEW k \in Nat
      PROVE  /\ f[k] + c[k] \in Int /\ U64(f[k] + c[k]) = f[k] + c[k]
  <2>1. c[k] \in Nat /\ c[k] <= B - 1 /\ f[k] \in Nat /\ f[k] <= B * B - B
    BY <1>1, <1>2, BaseAssumption DEF Word, Roomy
  <2>2. B * B \in Int /\ B \in Int
    BY BaseAssumption
  <2>3. f[k] + c[k] \in Nat /\ f[k] + c[k] < B * B
    BY <2>1, <2>2
  <2>4. QED
    BY <2>3, NoWrap64
<1>4. g \in [Nat -> Word] /\ \A k \in Nat : f[k] + c[k] = g[k] + c[k+1] * B
  <2>1. ASSUME NEW k \in Nat
        PROVE  g[k] \in Word /\ f[k] + c[k] = g[k] + c[k+1] * B
    <3>1. /\ U32(U64(f[k] + c[k])) \in Word /\ Hi(U64(f[k] + c[k])) \in Word
          /\ U64(f[k] + c[k]) = Hi(U64(f[k] + c[k])) * B + U32(U64(f[k] + c[k]))
      BY <1>3, WrappedWord
    <3>2. PICK h \in Int, l \in Int : h = Hi(U64(f[k] + c[k])) /\ l = U32(U64(f[k] + c[k]))
      BY <3>1, BaseAssumption DEF Word
    <3>3. f[k] + c[k] = h * B + l /\ g[k] = l /\ c[k+1] = h
      BY <1>2, <1>3, <3>1, <3>2
    <3>4. h * B \in Int
      BY BaseAssumption
    <3>5. QED
      BY <3>1, <3>2, <3>3, <3>4
  <2>2. QED
    BY <2>1
<1>5. Summed(f, n) = [k \in 1..n |-> g[k-1]]
  <2>1. \A k \in 1..n : g[k-1] = U32(U64(f[k-1] + c[k-1]))
    OBVIOUS
  <2>2. QED
    BY <2>1 DEF Summed, c
<1> HIDE DEF g
<1>6. /\ Summed(f, n) \in Seq(Word) /\ Len(Summed(f, n)) = n
      /\ Number(Summed(f, n)) = LimbSum(g, n)
  BY <1>4, <1>5, MadeVector
<1>7. g \in [Nat -> Int] /\ c \in [Nat -> Int]
  BY <1>2, <1>4, WordSum
<1>8. LimbSum(f, n) + c[0] = LimbSum(g, n) + c[n] * BPow[n]
  <2>1. \A k \in 0..(n-1) : f[k] + c[k] = g[k] + c[k+1] * B
    BY <1>4
  <2>2. QED
    BY <1>1, <1>7, <2>1, CarryChain
<1>9. LimbSum(f, n) \in Int
  BY <1>1, TermSum
<1>10. LimbSum(f, n) + c[0] = LimbSum(f, n)
  BY <1>2, <1>9
<1>11. c[n] \in Word
  BY <1>2
<1>12. QED
  BY <1>6, <1>8, <1>10, <1>11 DEF c

(* If the sum fits in the limbs, the carry is lost in none.                *)
LEMMA SummedFits ==
  ASSUME NEW f \in Roomy, NEW n \in Nat, LimbSum(f, n) < BPow[n]
  PROVE  /\ Summed(f, n) \in Seq(Word) /\ Len(Summed(f, n)) = n
         /\ Number(Summed(f, n)) = LimbSum(f, n)
<1>1. /\ Summed(f, n) \in Seq(Word) /\ Len(Summed(f, n)) = n
      /\ LimbSum(f, n) = Number(Summed(f, n)) + Carries(f)[n] * BPow[n]
      /\ Carries(f)[n] \in Word
  BY SummedTerms
<1>2. PICK c \in Nat, p \in Nat \ {0}, v \in Nat :
        c = Carries(f)[n] /\ p = BPow[n] /\ v = Number(Summed(f, n))
  <2>1. Carries(f)[n] \in Nat
    BY <1>1, BaseAssumption DEF Word
  <2>2. BPow[n] \in Nat \ {0} /\ Number(Summed(f, n)) \in Nat
    BY <1>1, BPowDef, VectorNumber
  <2>3. QED
    BY <2>1, <2>2
<1>3. v + c * p < p
  BY <1>1, <1>2
<1>4. c = 0
  <2> SUFFICES ASSUME c # 0 PROVE FALSE
    OBVIOUS
  <2>1. c - 1 \in Nat /\ c * p = (c - 1) * p + p /\ (c - 1) * p \in Nat
    OBVIOUS
  <2>2. QED
    BY <2>1, <1>3
<1>5. LimbSum(f, n) = v + 0 * p
  BY <1>1, <1>2, <1>4
<1>6. QED
  BY <1>1, <1>2, <1>5

-----------------------------------------------------------------------------
(* Sums and differences.                                                   *)

LEMMA TwoWordsFit ==
  ASSUME NEW u \in Word, NEW v \in Word
  PROVE  u + v \in Nat /\ u + v <= B * B - B
<1>1. u \in Nat /\ v \in Nat /\ u <= B - 1 /\ v <= B - 1 /\ B \in Nat /\ B >= 2
  BY BaseAssumption DEF Word
<1>2. (B - 2) * (B - 1) \in Nat /\ (B - 2) * (B - 1) = B * B - B - 2 * (B - 1) /\ B * B \in Int
  BY <1>1
<1>3. QED
  BY <1>1, <1>2

(* The limbs both operands may have, and one for the last carry, hold the  *)
(* sum.                                                                    *)
LEMMA AddNumbers ==
  ASSUME NEW x \in Seq(Word), NEW y \in Seq(Word)
  PROVE  /\ Canonical(Add(x, y)) /\ Number(Add(x, y)) = Number(x) + Number(y)
<1> DEFINE f == [k \in Nat |-> LimbAt(x, k) + LimbAt(y, k)]
           m == Max({Len(x), Len(y)})
           n == m + 1
<1>1. Len(x) \in Nat /\ Len(y) \in Nat
  OBVIOUS
<1>2. m \in Nat /\ m >= Len(x) /\ m >= Len(y)
  BY <1>1, MaxPair
<1>3. f \in Roomy
  <2>1. \A k \in Nat : LimbAt(x, k) + LimbAt(y, k) \in Nat /\ LimbAt(x, k) + LimbAt(y, k) <= B * B - B
    <3> SUFFICES ASSUME NEW k \in Nat
                 PROVE  /\ LimbAt(x, k) + LimbAt(y, k) \in Nat
                        /\ LimbAt(x, k) + LimbAt(y, k) <= B * B - B
      OBVIOUS
    <3>1. LimbAt(x, k) \in Word /\ LimbAt(y, k) \in Word
      BY VectorLimbs
    <3>2. QED
      BY <3>1, TwoWordsFit
  <2>2. QED
    BY <2>1 DEF Roomy
<1> HIDE DEF m
<1>4. n \in Nat /\ n >= Len(x) /\ n >= Len(y)
  BY <1>1, <1>2
<1>5. LimbSum(f, n) = Number(x) + Number(y)
  <2>1. Array(x) \in [Nat -> Int] /\ LimbSum(Array(x), n) = Number(x)
    BY <1>4, VectorNumber
  <2>2. Array(y) \in [Nat -> Int] /\ LimbSum(Array(y), n) = Number(y)
    BY <1>4, VectorNumber
  <2>3. f \in [Nat -> Int]
    BY <1>3 DEF Roomy
  <2>4. \A k \in 0..(n-1) : f[k] = Array(x)[k] + Array(y)[k]
    BY DEF Array
  <2> HIDE DEF f, n
  <2>5. LimbSum(f, n) = LimbSum(Array(x), n) + LimbSum(Array(y), n)
    BY <1>4, <2>1, <2>2, <2>3, <2>4, SumPlus
  <2>6. QED
    BY <2>1, <2>2, <2>5
<1>6. LimbSum(f, n) < BPow[n]
  <2>1. /\ Number(x) \in Nat /\ Number(x) < BPow[Len(x)]
        /\ Number(y) \in Nat /\ Number(y) < BPow[Len(y)]
    BY VectorNumber
  <2>2. /\ BPow[Len(x)] <= BPow[m] /\ BPow[Len(x)] \in Nat
        /\ BPow[Len(y)] <= BPow[m] /\ BPow[Len(y)] \in Nat
    BY <1>1, <1>2, BPowGrows
  <2>3. BPow[n] = B * BPow[m] /\ BPow[m] \in Nat
    BY <1>2, BPowDef
  <2>4. \A p \in Nat : 2 * p <= B * p
    <3> SUFFICES ASSUME NEW p \in Nat PROVE 2 * p <= B * p
      OBVIOUS
    <3>1. B \in Nat /\ B - 2 \in Nat
      BY BaseAssumption
    <3>2. B * p = 2 * p + (B - 2) * p /\ (B - 2) * p \in Nat
      BY <3>1
    <3>3. QED
      BY <3>2
  <2>5. 2 * BPow[m] <= BPow[n] /\ BPow[n] \in Int
    BY <2>3, <2>4, BaseAssumption
  <2>6. Number(x) + Number(y) < 2 * BPow[m]
    BY <2>1, <2>2, <2>3
  <2>7. QED
    BY <1>5, <2>1, <2>3, <2>5, <2>6
<1>7. Summed(f, n) \in Seq(Word) /\ Number(Summed(f, n)) = LimbSum(f, n)
  <2> HIDE DEF f, n
  <2>1. QED
    BY <1>3, <1>4, <1>6, SummedFits
<1>8. Add(x, y) = Normal(Summed(f, n))
  BY DEF Add, m
<1> HIDE DEF f, n
<1>9. QED
  BY <1>5, <1>7, <1>8, NormalVector

(* The recursion of the borrows.                                           *)
LEMMA BorrowsRec ==
  ASSUME NEW f \in [Nat -> Int]
  PROVE  /\ Borrows(f) \in [Nat -> {0, 1}] /\ Borrows(f)[0] = 0
         /\ \A k \in Nat : Borrows(f)[k+1] = Hi(U64(f[k] - Borrows(f)[k])) % 2
<1> DEFINE step == [k \in Nat |-> [v \in {0, 1} |-> Hi(U64(f[k] - v)) % 2]]
           borrow == CHOOSE c : c = [k \in Nat |-> IF k = 0 THEN 0 ELSE Hi(U64(f[k-1] - c[k-1])) % 2]
<1>1. ASSUME NEW k \in Nat, NEW v \in {0, 1} PROVE Hi(U64(f[k] - v)) % 2 \in {0, 1}
  <2>1. f[k] - v \in Int
    OBVIOUS
  <2>2. Hi(U64(f[k] - v)) \in Int
    BY <2>1, WrappedWord, BaseAssumption DEF Word
  <2>3. QED
    BY <2>2
<1>2. step \in [Nat -> [{0, 1} -> {0, 1}]]
  BY <1>1
<1>3. PICK g : Follows({0, 1}, 0, step, g)
  <2> HIDE DEF step
  <2>1. 0 \in {0, 1}
    OBVIOUS
  <2>2. QED
    BY <1>2, <2>1, RecursionForm
<1>4. g = [k \in Nat |-> IF k = 0 THEN 0 ELSE Hi(U64(f[k-1] - g[k-1])) % 2]
  <2>1. ASSUME NEW k \in Nat PROVE k # 0 => step[k-1][g[k-1]] = Hi(U64(f[k-1] - g[k-1])) % 2
    <3> SUFFICES ASSUME k # 0 PROVE step[k-1][g[k-1]] = Hi(U64(f[k-1] - g[k-1])) % 2
      OBVIOUS
    <3>1. k-1 \in Nat
      OBVIOUS
    <3>2. g[k-1] \in {0, 1}
      BY <1>3, <3>1 DEF Follows
    <3>3. QED
      BY <3>1, <3>2
  <2> HIDE DEF step
  <2>2. QED
    BY <1>3, <2>1 DEF Follows
<1>5. borrow = [k \in Nat |-> IF k = 0 THEN 0 ELSE Hi(U64(f[k-1] - borrow[k-1])) % 2]
  BY <1>4, Zenon
<1>6. Borrows(f) = borrow
  BY DEF Borrows
<1> HIDE DEF borrow
<1>7. \A k \in Nat : borrow[k] = IF k = 0 THEN 0 ELSE Hi(U64(f[k-1] - borrow[k-1])) % 2
  BY <1>5, Zenon
<1>8. borrow[0] = 0 /\ \A k \in Nat : borrow[k+1] = Hi(U64(f[k] - borrow[k])) % 2
  <2>1. borrow[0] = 0
    BY <1>7
  <2>2. ASSUME NEW k \in Nat PROVE borrow[k+1] = Hi(U64(f[k] - borrow[k])) % 2
    <3>1. k+1 \in Nat /\ k+1 # 0 /\ (k+1)-1 = k
      OBVIOUS
    <3>2. QED
      BY <3>1, <1>7
  <2>3. QED
    BY <2>1, <2>2
<1>9. borrow \in [Nat -> {0, 1}]
  <2> DEFINE P == {k \in Nat : borrow[k] \in {0, 1}}
  <2>1. 0 \in P
    BY <1>8
  <2>2. \A k \in P : k+1 \in P
    <3> SUFFICES ASSUME NEW k \in Nat, borrow[k] \in {0, 1} PROVE borrow[k+1] \in {0, 1}
      OBVIOUS
    <3>1. Hi(U64(f[k] - borrow[k])) % 2 \in {0, 1}
      BY <1>1
    <3>2. QED
      BY <3>1, <1>8, Zenon
  <2>3. P = Nat
    BY <2>1, <2>2, SetInduction
  <2>4. \A k \in Nat : borrow[k] \in {0, 1}
    BY <2>3
  <2>5. borrow = [k \in Nat |-> borrow[k]]
    BY <1>5
  <2>6. QED
    BY <2>4, <2>5
<1>10. QED
  BY <1>6, <1>8, <1>9

(* Limbs less limbs and borrows.                                           *)
LEMMA SubLimbs ==
  ASSUME NEW x \in Seq(Word), NEW y \in Seq(Word)
  PROVE  LET f == [k \in Nat |-> LimbAt(x, k) - LimbAt(y, k)]
             b == Borrows(f)
             z == [k \in DOMAIN x |-> U32(U64(f[k-1] - b[k-1]))]
         IN  /\ f \in [Nat -> Int] /\ b[Len(x)] \in {0, 1}
             /\ z \in Seq(Word) /\ Len(z) = Len(x)
             /\ LimbSum(f, Len(x)) = Number(z) - b[Len(x)] * BPow[Len(x)]
             /\ Sub(x, y) = Normal(z)
<1> DEFINE f == [k \in Nat |-> LimbAt(x, k) - LimbAt(y, k)]
           b == Borrows(f)
           z == [k \in DOMAIN x |-> U32(U64(f[k-1] - b[k-1]))]
           g == [k \in Nat |-> U32(U64(f[k] - b[k]))]
           c == [k \in Nat |-> 0 - b[k]]
           n == Len(x)
<1>1. n \in Nat /\ DOMAIN x = 1..n
  OBVIOUS
<1>2. \A k \in Nat : LimbAt(x, k) \in Word /\ LimbAt(y, k) \in Word
  <2> SUFFICES ASSUME NEW k \in Nat PROVE LimbAt(x, k) \in Word /\ LimbAt(y, k) \in Word
    OBVIOUS
  <2>1. LimbAt(x, k) \in Word
    BY VectorLimbs
  <2>2. LimbAt(y, k) \in Word
    BY VectorLimbs
  <2>3. QED
    BY <2>1, <2>2
<1>3. \A v \in Word : v \in Int
  BY BaseAssumption DEF Word
<1>4. f \in [Nat -> Int] /\ \A k \in Nat : f[k] = LimbAt(x, k) - LimbAt(y, k)
  BY <1>2, <1>3
<1> HIDE DEF f
<1>5. b \in [Nat -> {0, 1}] /\ b[0] = 0 /\ \A k \in Nat : b[k+1] = Hi(U64(f[k] - b[k])) % 2
  BY <1>4, BorrowsRec
<1> HIDE DEF b
<1>6. ASSUME NEW k \in Nat
      PROVE  U32(U64(f[k] - b[k])) \in Word /\ f[k] - b[k] = U32(U64(f[k] - b[k])) - b[k+1] * B
  <2>1. PICK t \in Word, u \in Word, d \in {0, 1} : t = LimbAt(x, k) /\ u = LimbAt(y, k) /\ d = b[k]
    BY <1>2, <1>5
  <2>2. f[k] - b[k] = t - u - d
    BY <1>4, <2>1
  <2>3. /\ U32(U64(t - u - d)) \in Word
        /\ U32(U64(t - u - d)) - (Hi(U64(t - u - d)) % 2) * B = t - u - d
    BY SubtractWord
  <2>4. b[k+1] = Hi(U64(f[k] - b[k])) % 2
    BY <1>5
  <2>5. QED
    BY <2>2, <2>3, <2>4
<1>7. g \in [Nat -> Word] /\ \A k \in Nat : g[k] = U32(U64(f[k] - b[k]))
  BY <1>6
<1>8. z = [k \in 1..n |-> g[k-1]]
  <2>1. \A k \in 1..n : g[k-1] = U32(U64(f[k-1] - b[k-1]))
    OBVIOUS
  <2>2. QED
    BY <1>1, <2>1
<1> HIDE DEF g
<1>9. z \in Seq(Word) /\ Len(z) = n /\ Number(z) = LimbSum(g, n) /\ g \in [Nat -> Int]
  <2> HIDE DEF z, n
  <2>1. QED
    BY <1>1, <1>7, <1>8, MadeVector, WordSum
<1>10. c \in [Nat -> Int] /\ c[0] = 0 /\ \A k \in Nat : c[k] = 0 - b[k]
  <2>1. b \in [Nat -> {0, 1}] /\ b[0] = 0
    BY <1>5
  <2>2. \A e \in {0, 1} : 0 - e \in Int
    OBVIOUS
  <2>3. \A k \in Nat : b[k] \in {0, 1}
    BY <2>1
  <2>4. \A k \in Nat : 0 - b[k] \in Int
    BY <2>2, <2>3
  <2>5. 0 - b[0] = 0
    BY <2>1
  <2>6. QED
    BY <2>4, <2>5
<1> HIDE DEF c
<1>11. \A k \in 0..(n-1) : f[k] + c[k] = g[k] + c[k+1] * B
  <2> SUFFICES ASSUME NEW k \in 0..(n-1) PROVE f[k] + c[k] = g[k] + c[k+1] * B
    OBVIOUS
  <2>1. k \in Nat /\ k+1 \in Nat
    BY <1>1
  <2>2. f[k] - b[k] = g[k] - b[k+1] * B /\ g[k] \in Word
    BY <1>6, <1>7, <2>1
  <2>3. f[k] \in Int /\ b[k] \in Int /\ b[k+1] \in {0, 1} /\ g[k] \in Int /\ B \in Int
    <3>1. f[k] \in Int
      BY <1>4, <2>1
    <3>2. b[k] \in {0, 1} /\ b[k+1] \in {0, 1}
      BY <1>5, <2>1
    <3>3. g[k] \in Int /\ B \in Int
      BY <1>3, <2>2, BaseAssumption
    <3>4. QED
      BY <3>1, <3>2, <3>3
  <2>4. c[k] = 0 - b[k] /\ c[k+1] = 0 - b[k+1]
    BY <1>10, <2>1
  <2>5. \A e \in {0, 1} : (0 - e) * B = 0 - (e * B) /\ e * B \in Int
    BY BaseAssumption
  <2>6. (0 - b[k+1]) * B = 0 - (b[k+1] * B) /\ b[k+1] * B \in Int
    BY <2>3, <2>5
  <2>7. f[k] + (0 - b[k]) = g[k] + (0 - (b[k+1] * B))
    <3>1. \A t, u, v, w \in Int : t - u = v - w => t + (0 - u) = v + (0 - w)
      OBVIOUS
    <3>2. PICK t \in Int, u \in Int, v \in Int, w \in Int :
             t = f[k] /\ u = b[k] /\ v = g[k] /\ w = b[k+1] * B
      BY <2>3, <2>6
    <3>3. t - u = v - w
      BY <2>2, <3>2, Zenon
    <3>4. t + (0 - u) = v + (0 - w)
      BY <3>1, <3>3
    <3>5. QED
      BY <3>2, <3>4, Zenon
  <2>8. QED
    BY <2>4, <2>6, <2>7, Zenon
<1>12. LimbSum(f, n) + c[0] = LimbSum(g, n) + c[n] * BPow[n]
  <2> HIDE DEF n
  <2>1. QED
    BY <1>1, <1>4, <1>9, <1>10, <1>11, CarryChain
<1>13. LimbSum(f, n) = Number(z) - b[n] * BPow[n]
  <2> HIDE DEF n, z
  <2>1. LimbSum(f, n) \in Int /\ BPow[n] \in Int
    BY <1>1, <1>4, TermTypes
  <2>2. LimbSum(g, n) \in Int
    BY <1>1, <1>9, TermTypes
  <2>3. b[n] \in {0, 1} /\ c[n] = 0 - b[n]
    BY <1>1, <1>5, <1>10
  <2>4. \A e \in {0, 1}, p \in Int : (0 - e) * p = 0 - (e * p) /\ e * p \in Int
    OBVIOUS
  <2>5. c[n] * BPow[n] = 0 - (b[n] * BPow[n]) /\ b[n] * BPow[n] \in Int
    BY <2>1, <2>3, <2>4
  <2>6. LimbSum(f, n) + 0 = Number(z) + (0 - (b[n] * BPow[n]))
    BY <1>9, <1>10, <1>12, <2>5, Zenon
  <2>7. \A t, u, v \in Int : t + 0 = u + (0 - v) => t = u - v
    OBVIOUS
  <2>8. Number(z) \in Int
    BY <1>9, <2>2
  <2>9. QED
    BY <2>1, <2>5, <2>6, <2>7, <2>8
<1>14. Sub(x, y) = Normal(z)
  BY DEF Sub, f, b
<1>15. b[n] \in {0, 1}
  BY <1>1, <1>5
<1>16. QED
  BY <1>4, <1>9, <1>13, <1>14, <1>15 DEF f, b

LEMMA SubVector ==
  ASSUME NEW x \in Seq(Word), NEW y \in Seq(Word)
  PROVE  Canonical(Sub(x, y))
<1> DEFINE f == [k \in Nat |-> LimbAt(x, k) - LimbAt(y, k)]
           z == [k \in DOMAIN x |-> U32(U64(f[k-1] - Borrows(f)[k-1]))]
<1>1. z \in Seq(Word) /\ Sub(x, y) = Normal(z)
  BY SubLimbs
<1> HIDE DEF z
<1>2. QED
  BY <1>1, NormalVector

LEMMA SubNumbers ==
  ASSUME NEW x, NEW y, Canonical(x), Canonical(y), Number(x) >= Number(y)
  PROVE  Canonical(Sub(x, y)) /\ Number(Sub(x, y)) = Number(x) - Number(y)
<1> DEFINE f == [k \in Nat |-> LimbAt(x, k) - LimbAt(y, k)]
           b == Borrows(f)[Len(x)]
           z == [k \in DOMAIN x |-> U32(U64(f[k-1] - Borrows(f)[k-1]))]
           n == Len(x)
<1>1. x \in Seq(Word) /\ y \in Seq(Word) /\ n \in Nat /\ Len(y) \in Nat
  BY DEF Canonical
<1>2. Number(x) \in Nat /\ Number(y) \in Nat /\ Number(x) < BPow[n]
  BY <1>1, VectorNumber
<1>3. Len(y) <= n
  <2> SUFFICES ASSUME ~(Len(y) <= n) PROVE FALSE
    OBVIOUS
  <2>1. \A i, j \in Nat : ~(j <= i) => i < j
    OBVIOUS
  <2>2. Len(x) < Len(y)
    BY <1>1, <2>1, Zenon
  <2>3. Number(x) < Number(y)
    BY <2>2, ShorterLess
  <2>4. QED
    BY <1>2, <2>3
<1>4. /\ f \in [Nat -> Int] /\ b \in {0, 1} /\ z \in Seq(Word) /\ Len(z) = n
      /\ LimbSum(f, n) = Number(z) - b * BPow[n] /\ Sub(x, y) = Normal(z)
  BY <1>1, SubLimbs
<1> HIDE DEF b, z
<1>5. LimbSum(Array(x), n) = LimbSum(f, n) + LimbSum(Array(y), n)
  <2>1. Array(x) \in [Nat -> Int] /\ Array(y) \in [Nat -> Int]
    BY <1>1, VectorNumber
  <2>2. \A k \in 0..(n-1) : Array(x)[k] = f[k] + Array(y)[k]
    <3> SUFFICES ASSUME NEW k \in 0..(n-1) PROVE Array(x)[k] = f[k] + Array(y)[k]
      OBVIOUS
    <3>1. k \in Nat /\ Array(x)[k] \in Int /\ Array(y)[k] \in Int
      BY <1>1, <2>1
    <3>2. f[k] = Array(x)[k] - Array(y)[k]
      BY <3>1 DEF Array
    <3>3. QED
      BY <3>1, <3>2
  <2> HIDE DEF f, n
  <2>3. QED
    BY <1>1, <1>4, <2>1, <2>2, SumPlus
<1>6. LimbSum(Array(x), n) = Number(x) /\ LimbSum(Array(y), n) = Number(y)
  BY <1>1, <1>3, VectorNumber
<1>7. PICK s1 \in Int, zn \in Nat, p \in Nat \ {0} : s1 = LimbSum(f, n) /\ zn = Number(z) /\ p = BPow[n]
  <2> HIDE DEF f, n
  <2>1. LimbSum(f, n) \in Int /\ BPow[n] \in Nat \ {0}
    BY <1>1, <1>4, TermSum, BPowDef
  <2>2. Number(z) \in Nat
    BY <1>4, VectorNumber
  <2>3. QED
    BY <2>1, <2>2
<1>8. zn < p
  <2>1. Number(z) < BPow[n]
    BY <1>4, VectorNumber
  <2>2. QED
    BY <1>7, <2>1
<1>9. s1 = Number(x) - Number(y) /\ s1 >= 0 /\ s1 = zn - b * p
  <2> HIDE DEF f, n
  <2>1. Number(x) = s1 + Number(y)
    BY <1>5, <1>6, <1>7
  <2>2. s1 = zn - b * p
    BY <1>4, <1>7
  <2>3. QED
    BY <2>1, <2>2, <1>2, <1>7
<1>10. b = 0
  <2> SUFFICES ASSUME b = 1 PROVE FALSE
    BY <1>4
  <2>1. s1 = zn - 1 * p
    BY <1>9
  <2>2. QED
    BY <2>1, <1>8, <1>9
<1>11. Number(z) = Number(x) - Number(y)
  <2>1. s1 = zn - 0 * p
    BY <1>9, <1>10
  <2>2. QED
    BY <2>1, <1>7, <1>9
<1>12. QED
  BY <1>4, <1>11, NormalVector

-----------------------------------------------------------------------------
(* Products and shifts.                                                    *)

(* Limbs of a vector r, then the limbs of a vector s, and a word above.    *)
LEMMA PlacedSum ==
  ASSUME NEW r0 \in Seq(Word), NEW s0 \in Seq(Word), NEW i \in Nat, NEW t \in Word,
         NEW g \in [Nat -> Word],
         \A j \in 0..(i-1) : g[j] = LimbAt(r0, j),
         \A j \in 0..(Len(s0)-1) : g[i+j] = LimbAt(s0, j),
         g[i+Len(s0)] = t
  PROVE  LimbSum(g, i + Len(s0) + 1)
           = LimbSum(Array(r0), i) + BPow[i] * (Number(s0) + t * BPow[Len(s0)])
<1> DEFINE n == Len(s0)
<1>1. n \in Nat /\ i + n \in Nat
  OBVIOUS
<1>2. g \in [Nat -> Int]
  BY WordSum
<1>3. Array(r0) \in [Nat -> Int] /\ \A j \in Nat : Array(r0)[j] = LimbAt(r0, j)
  BY VectorNumber, VectorLimbs
<1>4. Array(s0) \in [Nat -> Int] /\ (\A j \in Nat : Array(s0)[j] = LimbAt(s0, j)) /\ Number(s0) = LimbSum(Array(s0), n)
  BY VectorNumber, VectorLimbs
<1>5. LimbSum(g, i) = LimbSum(Array(r0), i)
  <2>1. \A j \in 0..(i-1) : g[j] = Array(r0)[j]
    BY <1>3
  <2>2. QED
    BY <1>2, <1>3, <2>1, TermSumSame
<1>6. LimbSum(g, i + n) = LimbSum(g, i) + BPow[i] * LimbSum(Array(s0), n)
  <2>1. \A j \in 0..(n-1) : Array(s0)[j] = g[i+j]
    BY <1>4
  <2> HIDE DEF n
  <2>2. QED
    BY <1>1, <1>2, <1>4, <2>1, SumSplit
<1>7. LimbSum(g, (i + n) + 1) = LimbSum(g, i + n) + t * (BPow[i] * BPow[n])
  <2>1. LimbSum(g, (i + n) + 1) = LimbSum(g, i + n) + g[i + n] * BPow[i + n]
    BY <1>1, <1>2, TermSum
  <2>2. BPow[i + n] = BPow[i] * BPow[n]
    BY <1>1, BPowSum
  <2>3. QED
    BY <2>1, <2>2
<1>8. PICK a \in Int, p \in Int, q \in Int, v \in Int, w \in Int :
        a = LimbSum(Array(r0), i) /\ p = BPow[i] /\ q = BPow[n] /\ v = Number(s0) /\ w = t
  <2>1. LimbSum(Array(r0), i) \in Int /\ BPow[i] \in Int
    BY <1>3, TermTypes
  <2>2. BPow[n] \in Int /\ LimbSum(Array(s0), n) \in Int
    BY <1>1, <1>4, TermTypes
  <2>3. t \in Int
    BY BaseAssumption DEF Word
  <2>4. QED
    BY <1>4, <2>1, <2>2, <2>3
<1>9. (a + p * v) + w * (p * q) = a + p * (v + w * q)
  <2>1. w * (p * q) = p * (w * q)
    OBVIOUS
  <2>2. p * (v + w * q) = p * v + p * (w * q)
    OBVIOUS
  <2>3. QED
    BY <2>1, <2>2
<1>10. LimbSum(g, (i + n) + 1) = (a + p * v) + w * (p * q)
  BY <1>4, <1>5, <1>6, <1>7, <1>8, Zenon
<1>11. QED
  BY <1>8, <1>9, <1>10, Zenon

(* The terms of a row: x[i]*y and the limbs of r from i up.                *)
LEMMA RowTerms ==
  ASSUME NEW r0 \in Seq(Word), NEW y \in Seq(Word), NEW xi \in Word, NEW i \in Nat
  PROVE  LET f == [k \in Nat |-> xi * LimbAt(y, k) + LimbAt(r0, i+k)]
         IN  /\ f \in Roomy
             /\ LimbSum(Array(r0), i) + BPow[i] * LimbSum(f, Len(y))
                  = LimbSum(Array(r0), i + Len(y)) + BPow[i] * (xi * Number(y))
<1> DEFINE f == [k \in Nat |-> xi * LimbAt(y, k) + LimbAt(r0, i+k)]
           g == [k \in Nat |-> xi * LimbAt(y, k)]
           h == [k \in Nat |-> LimbAt(r0, i+k)]
           n == Len(y)
<1>1. n \in Nat
  OBVIOUS
<1>2. ASSUME NEW k \in Nat
      PROVE  /\ xi * LimbAt(y, k) \in Nat /\ LimbAt(r0, i+k) \in Nat
             /\ xi * LimbAt(y, k) + LimbAt(r0, i+k) \in Nat
             /\ xi * LimbAt(y, k) + LimbAt(r0, i+k) <= B * B - B
  <2>1. LimbAt(y, k) \in Word
    BY VectorLimbs
  <2>2. LimbAt(r0, i+k) \in Word
    <3>1. i+k \in Nat
      OBVIOUS
    <3>2. QED
      BY <3>1, VectorLimbs
  <2>3. PICK u \in Word, v \in Word : u = LimbAt(y, k) /\ v = LimbAt(r0, i+k)
    BY <2>1, <2>2
  <2>4. B - 1 \in Word /\ B \in Nat /\ B * B \in Int
    BY BaseAssumption DEF Word
  <2>5. xi * u + v + (B - 1) < B * B
    BY <2>4, ProductFits
  <2>6. u \in Nat /\ v \in Nat /\ xi \in Nat /\ xi * u \in Nat
    <3>1. u \in Nat /\ v \in Nat /\ xi \in Nat
      BY BaseAssumption DEF Word
    <3>2. QED
      BY <3>1
  <2>7. xi * u + v \in Nat /\ xi * u + v <= B * B - B
    BY <2>4, <2>5, <2>6
  <2>8. QED
    BY <2>3, <2>6, <2>7
<1>3. f \in Roomy
  BY <1>2 DEF Roomy
<1>4. f \in [Nat -> Int] /\ g \in [Nat -> Int] /\ h \in [Nat -> Int]
  <2>1. f \in [Nat -> Nat]
    BY <1>3 DEF Roomy
  <2>2. g \in [Nat -> Nat] /\ h \in [Nat -> Nat]
    BY <1>2
  <2>3. \A e \in [Nat -> Nat] : e \in [Nat -> Int]
    OBVIOUS
  <2> HIDE DEF f, g, h
  <2>4. QED
    BY <2>1, <2>2, <2>3
<1>5. Array(y) \in [Nat -> Int] /\ (\A k \in Nat : Array(y)[k] = LimbAt(y, k)) /\ Number(y) = LimbSum(Array(y), n)
  BY VectorNumber, VectorLimbs
<1>6. Array(r0) \in [Nat -> Int] /\ (\A k \in Nat : Array(r0)[k] = LimbAt(r0, k))
  BY VectorNumber, VectorLimbs
<1>7. /\ \A k \in 0..(n-1) : f[k] = g[k] + h[k]
      /\ \A k \in 0..(n-1) : g[k] = xi * Array(y)[k]
      /\ \A k \in 0..(n-1) : h[k] = Array(r0)[i + k]
  <2> SUFFICES ASSUME NEW k \in 0..(n-1)
               PROVE  f[k] = g[k] + h[k] /\ g[k] = xi * Array(y)[k] /\ h[k] = Array(r0)[i + k]
    OBVIOUS
  <2>1. k \in Nat /\ i + k \in Nat
    OBVIOUS
  <2>2. f[k] = g[k] + h[k]
    BY <2>1
  <2>3. g[k] = xi * Array(y)[k]
    BY <2>1, <1>5
  <2>4. h[k] = Array(r0)[i + k]
    BY <2>1, <1>6
  <2>5. QED
    BY <2>2, <2>3, <2>4
<1> HIDE DEF f, g, h, n
<1>8. xi \in Int
  BY BaseAssumption DEF Word
<1>9. LimbSum(f, n) = LimbSum(g, n) + LimbSum(h, n)
  BY <1>1, <1>4, <1>7, SumPlus
<1>10. LimbSum(g, n) = xi * LimbSum(Array(y), n)
  BY <1>1, <1>4, <1>5, <1>7, <1>8, SumTimes
<1>11. LimbSum(Array(r0), i + n) = LimbSum(Array(r0), i) + BPow[i] * LimbSum(h, n)
  BY <1>1, <1>4, <1>6, <1>7, SumSplit
<1>12. PICK a \in Int, p \in Int, v \in Int, w \in Int :
         a = LimbSum(Array(r0), i) /\ p = BPow[i] /\ v = LimbSum(h, n) /\ w = xi * Number(y)
  <2>1. LimbSum(Array(r0), i) \in Int /\ BPow[i] \in Int
    BY <1>6, TermTypes
  <2>2. LimbSum(h, n) \in Int /\ LimbSum(Array(y), n) \in Int
    BY <1>1, <1>4, <1>5, TermTypes
  <2>3. xi * Number(y) \in Int
    BY <1>5, <1>8, <2>2
  <2>4. QED
    BY <2>1, <2>2, <2>3
<1>13. a + p * (w + v) = (a + p * v) + p * w
  OBVIOUS
<1>14. LimbSum(f, n) = w + v
  BY <1>5, <1>9, <1>10, <1>12, Zenon
<1>15. LimbSum(Array(r0), i) + BPow[i] * LimbSum(f, n) = LimbSum(Array(r0), i + n) + BPow[i] * (xi * Number(y))
  BY <1>11, <1>12, <1>13, <1>14, Zenon
<1>16. QED
  BY <1>3, <1>15 DEF f, n

(* A row adds x[i]*y, i limbs up; its carry takes a limb that was 0.       *)
LEMMA MulRowNumber ==
  ASSUME NEW r0 \in Seq(Word), NEW y \in Seq(Word), NEW xi \in Word, NEW i \in Nat,
         i + Len(y) < Len(r0), \A k \in Nat : k >= i + Len(y) => LimbAt(r0, k) = 0
  PROVE  /\ MulRow(r0, xi, y, i) \in Seq(Word) /\ Len(MulRow(r0, xi, y, i)) = Len(r0)
         /\ \A k \in Nat : k >= (i+1) + Len(y) => LimbAt(MulRow(r0, xi, y, i), k) = 0
         /\ Number(MulRow(r0, xi, y, i)) = Number(r0) + BPow[i] * (xi * Number(y))
<1> DEFINE f == [k \in Nat |-> xi * LimbAt(y, k) + LimbAt(r0, i+k)]
           n == Len(y)
           L == Len(r0)
           s0 == Summed(f, n)
           carry == Carries(f)[n]
           g == [j \in Nat |-> IF j < i THEN LimbAt(r0, j)
                               ELSE IF j < i + n THEN LimbAt(s0, j-i)
                               ELSE IF j = i + n THEN carry ELSE 0]
           z == MulRow(r0, xi, y, i)
<1>1. n \in Nat /\ L \in Nat /\ DOMAIN r0 = 1..L /\ DOMAIN y = 1..n /\ i + n < L
  OBVIOUS
<1>2. /\ f \in Roomy
      /\ LimbSum(Array(r0), i) + BPow[i] * LimbSum(f, n)
           = LimbSum(Array(r0), i + n) + BPow[i] * (xi * Number(y))
  BY RowTerms
<1>3. z = [k \in DOMAIN r0 |->
             CASE k - i \in DOMAIN y -> s0[k-i]
               [] k - i = Len(y) + 1 -> RowCarry(r0[k], carry)
               [] OTHER              -> r0[k]]
  BY DEF MulRow
<1> HIDE DEF f, z
<1>4. /\ s0 \in Seq(Word) /\ Len(s0) = n /\ carry \in Word
      /\ LimbSum(f, n) = Number(s0) + carry * BPow[n]
  BY <1>1, <1>2, SummedTerms
<1> HIDE DEF s0, carry
<1>5. /\ \A k \in Nat : LimbAt(r0, k) \in Word
      /\ \A k \in Nat : k >= i + n => LimbAt(r0, k) = 0
      /\ \A k \in 0..(L-1) : LimbAt(r0, k) = r0[k+1]
  BY VectorLimbs
<1>6. (\A k \in Nat : LimbAt(s0, k) \in Word) /\ \A k \in 0..(n-1) : LimbAt(s0, k) = s0[k+1]
  BY <1>4, VectorLimbs
<1>7. 0 \in Word
  BY BaseAssumption DEF Word
<1>8. g \in [Nat -> Word]
  <2> SUFFICES ASSUME NEW j \in Nat
               PROVE  (IF j < i THEN LimbAt(r0, j)
                       ELSE IF j < i + n THEN LimbAt(s0, j-i)
                       ELSE IF j = i + n THEN carry ELSE 0) \in Word
    OBVIOUS
  <2>1. CASE j < i
    BY <2>1, <1>5
  <2>2. CASE ~(j < i) /\ j < i + n
    <3>1. j - i \in Nat
      BY <2>2, <1>1
    <3>2. QED
      BY <2>2, <3>1, <1>6
  <2>3. CASE ~(j < i) /\ ~(j < i + n)
    BY <2>3, <1>4, <1>7
  <2>4. QED
    BY <2>1, <2>2, <2>3
<1>9. /\ \A j \in 0..(i-1) : g[j] = LimbAt(r0, j)
      /\ \A j \in 0..(n-1) : g[i+j] = LimbAt(s0, j)
      /\ g[i+n] = carry
      /\ \A j \in Nat : j > i + n => g[j] = 0
  <2>1. ASSUME NEW j \in 0..(i-1) PROVE g[j] = LimbAt(r0, j)
    <3>1. j \in Nat /\ j < i
      OBVIOUS
    <3>2. QED
      BY <3>1
  <2>2. ASSUME NEW j \in 0..(n-1) PROVE g[i+j] = LimbAt(s0, j)
    <3>1. i + j \in Nat /\ ~(i + j < i) /\ i + j < i + n /\ (i + j) - i = j
      BY <1>1
    <3>2. QED
      BY <3>1
  <2>3. g[i+n] = carry
    <3>1. i + n \in Nat /\ ~(i + n < i) /\ ~(i + n < i + n)
      BY <1>1
    <3>2. QED
      BY <3>1
  <2>4. ASSUME NEW j \in Nat, j > i + n PROVE g[j] = 0
    <3>1. ~(j < i) /\ ~(j < i + n) /\ j # i + n
      BY <2>4, <1>1
    <3>2. QED
      BY <3>1
  <2>5. QED
    BY <2>1, <2>2, <2>3, <2>4
<1>10. z = [k \in 1..L |-> g[k-1]]
  <2> SUFFICES ASSUME NEW k \in 1..L
               PROVE  (CASE k - i \in DOMAIN y -> s0[k-i]
                         [] k - i = Len(y) + 1 -> RowCarry(r0[k], carry)
                         [] OTHER              -> r0[k]) = g[k-1]
    BY <1>1, <1>3
  <2>1. k - 1 \in Nat /\ (k-1) + 1 = k /\ k - 1 \in 0..(L-1) /\ LimbAt(r0, k-1) = r0[k]
    BY <1>1, <1>5
  <2>2. CASE k - i \in 1..n
    <3>1. k - 1 = i + (k-i-1) /\ k-i-1 \in 0..(n-1) /\ (k-i-1) + 1 = k-i
      BY <1>1, <2>2
    <3>2. g[k-1] = LimbAt(s0, k-i-1)
      BY <1>9, <3>1
    <3>3. LimbAt(s0, k-i-1) = s0[k-i]
      BY <1>6, <3>1
    <3>4. k - i # n + 1
      BY <1>1, <2>2
    <3>5. QED
      BY <1>1, <2>2, <3>2, <3>3, <3>4
  <2>3. CASE k - i = n + 1
    <3>1. k - 1 = i + n /\ ~(k - i \in 1..n)
      BY <1>1, <2>3
    <3>2. g[k-1] = carry
      BY <1>9, <3>1
    <3>3. r0[k] = 0
      BY <2>1, <3>1, <1>1, <1>5
    <3>4. RowCarry(0, carry) = carry
      <4>1. carry \in 0..(B-1) /\ B \in Nat \ {0}
        BY <1>4, BaseAssumption DEF Word
      <4>2. \A c \in 0..(B-1) : c % B = c /\ (0 + c) % B = c
        BY BaseAssumption
      <4>3. QED
        BY <4>1, <4>2 DEF RowCarry, U32
    <3>5. QED
      BY <1>1, <2>3, <3>1, <3>2, <3>3, <3>4
  <2>4. CASE k - i \notin 1..n /\ k - i # n + 1
    <3>1. (CASE k - i \in DOMAIN y -> s0[k-i]
             [] k - i = Len(y) + 1 -> RowCarry(r0[k], carry)
             [] OTHER              -> r0[k]) = r0[k]
      BY <1>1, <2>4
    <3>2. CASE k - 1 < i
      <4>1. k - 1 \in 0..(i-1)
        BY <2>1, <3>2
      <4>2. QED
        BY <4>1, <1>9, <2>1, <3>1
    <3>3. CASE ~(k - 1 < i)
      <4>1. k - 1 > i + n /\ k - 1 >= i + n
        BY <1>1, <2>1, <2>4, <3>3
      <4>2. QED
        BY <4>1, <1>5, <1>9, <2>1, <3>1
    <3>4. QED
      BY <3>2, <3>3
  <2>5. QED
    BY <2>2, <2>3, <2>4
<1> HIDE DEF g, n, L
<1>11. /\ z \in Seq(Word) /\ Len(z) = L /\ Number(z) = LimbSum(g, L)
       /\ \A k \in 0..(L-1) : LimbAt(z, k) = g[k]
  <2>1. L \in Nat
    BY <1>1
  <2>2. z \in Seq(Word) /\ Len(z) = L /\ Number(z) = LimbSum(g, L)
    BY <2>1, <1>8, <1>10, MadeVector
  <2>3. ASSUME NEW k \in 0..(L-1) PROVE LimbAt(z, k) = g[k]
    <3>1. k < L /\ k+1 \in 1..L /\ (k+1)-1 = k
      BY <2>1
    <3>2. z[k+1] = g[k]
      BY <3>1, <1>10
    <3>3. QED
      BY <2>2, <3>1, <3>2 DEF LimbAt
  <2>4. QED
    BY <2>2, <2>3
<1>12. \A k \in Nat : k >= (i+1) + n => LimbAt(z, k) = 0
  <2> SUFFICES ASSUME NEW k \in Nat, k >= (i+1) + n PROVE LimbAt(z, k) = 0
    OBVIOUS
  <2>1. CASE k < L
    <3>1. k > i + n /\ k \in 0..(L-1)
      BY <1>1, <2>1
    <3>2. QED
      BY <3>1, <1>9, <1>11
  <2>2. CASE ~(k < L)
    BY <2>2, <1>11 DEF LimbAt
  <2>3. QED
    BY <2>1, <2>2
<1>13. LimbSum(g, L) = LimbSum(g, i + n + 1)
  <2>1. g \in [Nat -> Int]
    BY <1>8, WordSum
  <2>2. i + n + 1 \in Nat /\ i + n + 1 <= L
    BY <1>1
  <2>3. \A k \in (i + n + 1)..(L-1) : g[k] = 0
    <3> SUFFICES ASSUME NEW k \in (i + n + 1)..(L-1) PROVE g[k] = 0
      OBVIOUS
    <3>1. k \in Nat /\ k > i + n
      BY <1>1
    <3>2. QED
      BY <3>1, <1>9
  <2>4. QED
    BY <1>1, <2>1, <2>2, <2>3, ZeroAbove
<1>14. LimbSum(g, i + n + 1) = LimbSum(Array(r0), i) + BPow[i] * (Number(s0) + carry * BPow[n])
  <2>1. \A j \in 0..(Len(s0)-1) : g[i+j] = LimbAt(s0, j)
    BY <1>4, <1>9
  <2>2. g[i + Len(s0)] = carry
    BY <1>4, <1>9
  <2>3. LimbSum(g, i + Len(s0) + 1) = LimbSum(Array(r0), i) + BPow[i] * (Number(s0) + carry * BPow[Len(s0)])
    BY <1>4, <1>8, <1>9, <2>1, <2>2, PlacedSum
  <2>4. QED
    BY <1>4, <2>3
<1>15. LimbSum(Array(r0), i + n) = Number(r0)
  <2>1. Array(r0) \in [Nat -> Int] /\ Number(r0) = LimbSum(Array(r0), L)
    BY VectorNumber DEF L
  <2>2. \A k \in (i + n)..(L-1) : Array(r0)[k] = 0
    <3> SUFFICES ASSUME NEW k \in (i + n)..(L-1) PROVE Array(r0)[k] = 0
      OBVIOUS
    <3>1. k \in Nat /\ k >= i + n
      BY <1>1
    <3>2. QED
      BY <3>1, <1>5, VectorLimbs
  <2>3. i + n \in Nat /\ i + n <= L
    BY <1>1
  <2>4. QED
    BY <1>1, <2>1, <2>2, <2>3, ZeroAbove
<1>16. Number(z) = Number(r0) + BPow[i] * (xi * Number(y))
  BY <1>2, <1>4, <1>11, <1>13, <1>14, <1>15, Zenon
<1>17. QED
  BY <1>11, <1>12, <1>16 DEF z, n, L

LEMMA MulRowVector ==
  ASSUME NEW r0 \in Seq(Word), NEW y \in Seq(Word), NEW xi \in Word, NEW i \in Nat
  PROVE  MulRow(r0, xi, y, i) \in Seq(Word)
<1> DEFINE f == [k \in Nat |-> xi * LimbAt(y, k) + LimbAt(r0, i+k)]
           n == Len(y)
           L == Len(r0)
           s0 == Summed(f, n)
           carry == Carries(f)[n]
           Entry(k) == CASE k - i \in DOMAIN y -> s0[k-i]
                         [] k - i = Len(y) + 1 -> RowCarry(r0[k], carry)
                         [] OTHER              -> r0[k]
<1>1. n \in Nat /\ L \in Nat /\ DOMAIN r0 = 1..L /\ DOMAIN y = 1..n
  OBVIOUS
<1>2. f \in Roomy
  BY RowTerms
<1>3. MulRow(r0, xi, y, i) = [k \in DOMAIN r0 |-> Entry(k)]
  BY DEF MulRow
<1> HIDE DEF f
<1>4. s0 \in Seq(Word) /\ Len(s0) = n /\ carry \in Word
  BY <1>1, <1>2, SummedTerms
<1> HIDE DEF s0, carry
<1>5. ASSUME NEW k \in 1..L PROVE Entry(k) \in Word
  <2>1. r0[k] \in Word
    BY <1>1
  <2>2. CASE k - i \in 1..n
    <3>1. s0[k-i] \in Word
      BY <1>4, <2>2
    <3>2. QED
      BY <1>1, <2>2, <3>1
  <2>3. CASE k - i \notin 1..n /\ k - i = n + 1
    <3>1. r0[k] \in Nat /\ carry \in Nat
      BY <1>4, <2>1, BaseAssumption DEF Word
    <3>2. U32(carry) \in Nat
      <4>1. U32(carry) \in Word
        BY <3>1, SplitWord
      <4>2. QED
        BY <4>1, BaseAssumption DEF Word
    <3>3. r0[k] + U32(carry) \in Nat
      BY <3>1, <3>2
    <3>4. RowCarry(r0[k], carry) \in Word
      BY <3>3, SplitWord DEF RowCarry
    <3>5. QED
      BY <1>1, <2>3, <3>4
  <2>4. CASE k - i \notin 1..n /\ k - i # n + 1
    BY <1>1, <2>1, <2>4
  <2>5. QED
    BY <2>2, <2>3, <2>4
<1> HIDE DEF Entry
<1>6. [k \in 1..L |-> Entry(k)] \in [1..L -> Word]
  BY <1>5
<1>7. [k \in 1..L |-> Entry(k)] \in Seq(Word)
  <2>1. \A z \in [1..L -> Word] : z \in Seq(Word)
    BY <1>1
  <2>2. QED
    BY <1>6, <2>1
<1>8. QED
  BY <1>1, <1>3, <1>7

(* The rows of a product, by their recursion.                              *)
LEMMA RowsRec ==
  ASSUME NEW x \in Seq(Word), NEW y \in Seq(Word)
  PROVE  \E rows \in [Nat -> Seq(Word)] :
           /\ rows[0] = [k \in 1..(Len(x) + Len(y)) |-> 0]
           /\ \A i \in Nat : rows[i+1] = MulRow(rows[i], LimbAt(x, i), y, i)
           /\ Mul(x, y) = IF IsZero(x) \/ IsZero(y) THEN Zero ELSE Normal(rows[Len(x)])
<1> DEFINE start == [k \in 1..(Len(x) + Len(y)) |-> 0]
           step == [i \in Nat |-> [v \in Seq(Word) |-> MulRow(v, LimbAt(x, i), y, i)]]
           rows == CHOOSE c : c = [i \in Nat |-> IF i = 0 THEN start
                                                 ELSE MulRow(c[i-1], LimbAt(x, i-1), y, i-1)]
<1>1. ASSUME NEW i \in Nat, NEW v \in Seq(Word) PROVE MulRow(v, LimbAt(x, i), y, i) \in Seq(Word)
  <2>1. LimbAt(x, i) \in Word
    BY VectorLimbs
  <2>2. QED
    BY <2>1, MulRowVector
<1>2. step \in [Nat -> [Seq(Word) -> Seq(Word)]]
  BY <1>1
<1>3. start \in Seq(Word)
  <2>1. Len(x) + Len(y) \in Nat /\ 0 \in Word
    BY BaseAssumption DEF Word
  <2>2. QED
    BY <2>1
<1> HIDE DEF start
<1>4. PICK g : Follows(Seq(Word), start, step, g)
  <2> HIDE DEF step
  <2>1. QED
    BY <1>2, <1>3, RecursionForm
<1>5. g = [i \in Nat |-> IF i = 0 THEN start ELSE MulRow(g[i-1], LimbAt(x, i-1), y, i-1)]
  <2>1. ASSUME NEW i \in Nat PROVE i # 0 => step[i-1][g[i-1]] = MulRow(g[i-1], LimbAt(x, i-1), y, i-1)
    <3> SUFFICES ASSUME i # 0 PROVE step[i-1][g[i-1]] = MulRow(g[i-1], LimbAt(x, i-1), y, i-1)
      OBVIOUS
    <3>1. i-1 \in Nat
      OBVIOUS
    <3>2. g[i-1] \in Seq(Word)
      BY <1>4, <3>1 DEF Follows
    <3>3. QED
      BY <3>1, <3>2
  <2> HIDE DEF step
  <2>2. QED
    BY <1>4, <2>1 DEF Follows
<1>6. rows = [i \in Nat |-> IF i = 0 THEN start ELSE MulRow(rows[i-1], LimbAt(x, i-1), y, i-1)]
  BY <1>5, Zenon
<1>7. Mul(x, y) = IF IsZero(x) \/ IsZero(y) THEN Zero ELSE Normal(rows[Len(x)])
  BY DEF Mul, start
<1> HIDE DEF rows
<1>8. \A i \in Nat : rows[i] = IF i = 0 THEN start ELSE MulRow(rows[i-1], LimbAt(x, i-1), y, i-1)
  BY <1>6, Zenon
<1>9. rows[0] = start /\ \A i \in Nat : rows[i+1] = MulRow(rows[i], LimbAt(x, i), y, i)
  <2>1. rows[0] = start
    BY <1>8
  <2>2. ASSUME NEW i \in Nat PROVE rows[i+1] = MulRow(rows[i], LimbAt(x, i), y, i)
    <3>1. i+1 \in Nat /\ i+1 # 0 /\ (i+1)-1 = i
      OBVIOUS
    <3>2. QED
      BY <3>1, <1>8
  <2>3. QED
    BY <2>1, <2>2
<1>10. rows \in [Nat -> Seq(Word)]
  <2> DEFINE P == {i \in Nat : rows[i] \in Seq(Word)}
  <2>1. 0 \in P
    BY <1>3, <1>9
  <2>2. \A i \in P : i+1 \in P
    <3> SUFFICES ASSUME NEW i \in Nat, rows[i] \in Seq(Word) PROVE rows[i+1] \in Seq(Word)
      OBVIOUS
    <3>1. QED
      BY <1>1, <1>9, Zenon
  <2>3. P = Nat
    BY <2>1, <2>2, SetInduction
  <2>4. \A i \in Nat : rows[i] \in Seq(Word)
    BY <2>3
  <2>5. rows = [i \in Nat |-> rows[i]]
    BY <1>6
  <2>6. QED
    BY <2>4, <2>5
<1>11. QED
  BY <1>7, <1>9, <1>10 DEF start

(* What row i holds: the product of the i lowest limbs of x with y.        *)
RowHolds(r0, x, y, i) ==
  /\ r0 \in Seq(Word) /\ Len(r0) = Len(x) + Len(y)
  /\ \A k \in Nat : k >= i + Len(y) => LimbAt(r0, k) = 0
  /\ Number(r0) = LimbSum(Array(x), i) * Number(y)

LEMMA ZeroVector ==
  ASSUME NEW L \in Nat
  PROVE  LET z == [k \in 1..L |-> 0]
         IN  /\ z \in Seq(Word) /\ Len(z) = L /\ Number(z) = 0
             /\ \A k \in Nat : LimbAt(z, k) = 0
<1> DEFINE z == [k \in 1..L |-> 0]
<1>1. 0 \in Word
  BY BaseAssumption DEF Word
<1>2. z \in Seq(Word) /\ Len(z) = L
  BY <1>1
<1>3. \A k \in Nat : LimbAt(z, k) = 0
  <2> SUFFICES ASSUME NEW k \in Nat PROVE LimbAt(z, k) = 0
    OBVIOUS
  <2>1. CASE k < L
    <3>1. k+1 \in 1..L
      BY <2>1
    <3>2. QED
      BY <3>1 DEF LimbAt
  <2>2. CASE ~(k < L)
    BY <2>2, <1>2 DEF LimbAt
  <2>3. QED
    BY <2>1, <2>2
<1> HIDE DEF z
<1>4. Array(z) \in [Nat -> Int] /\ Number(z) = LimbSum(Array(z), L)
  BY <1>2, VectorNumber
<1>5. LimbSum(Array(z), L) = LimbSum(Array(z), 0)
  <2>1. \A k \in 0..(L-1) : Array(z)[k] = 0
    BY <1>3 DEF Array
  <2>2. 0 \in Nat /\ 0 <= L
    OBVIOUS
  <2>3. QED
    BY <1>4, <2>1, <2>2, ZeroAbove
<1>6. LimbSum(Array(z), 0) = 0
  BY <1>4, TermSum
<1>7. QED
  BY <1>2, <1>3, <1>4, <1>5, <1>6 DEF z

LEMMA FirstRow ==
  ASSUME NEW x \in Seq(Word), NEW y \in Seq(Word)
  PROVE  RowHolds([k \in 1..(Len(x) + Len(y)) |-> 0], x, y, 0)
<1> DEFINE L == Len(x) + Len(y)
           z == [k \in 1..L |-> 0]
<1>1. L \in Nat
  OBVIOUS
<1>2. z \in Seq(Word) /\ Len(z) = L /\ Number(z) = 0 /\ \A k \in Nat : LimbAt(z, k) = 0
  BY <1>1, ZeroVector
<1> HIDE DEF z
<1>3. LimbSum(Array(x), 0) = 0
  BY VectorNumber, TermSum
<1>4. Number(y) \in Nat
  BY VectorNumber
<1>5. Number(z) = LimbSum(Array(x), 0) * Number(y)
  BY <1>2, <1>3, <1>4
<1>6. RowHolds(z, x, y, 0)
  BY <1>2, <1>5 DEF RowHolds
<1>7. QED
  BY <1>6 DEF z

LEMMA NextRow ==
  ASSUME NEW x \in Seq(Word), NEW y \in Seq(Word), NEW i \in Nat, i < Len(x),
         NEW r0, RowHolds(r0, x, y, i)
  PROVE  RowHolds(MulRow(r0, LimbAt(x, i), y, i), x, y, i+1)
<1> DEFINE u == LimbAt(x, i)
           z == MulRow(r0, u, y, i)
<1>1. /\ r0 \in Seq(Word) /\ Len(r0) = Len(x) + Len(y)
      /\ \A k \in Nat : k >= i + Len(y) => LimbAt(r0, k) = 0
      /\ Number(r0) = LimbSum(Array(x), i) * Number(y)
  BY DEF RowHolds
<1>2. i + Len(y) < Len(r0)
  <2>1. Len(x) \in Nat /\ Len(y) \in Nat
    OBVIOUS
  <2>2. QED
    BY <1>1, <2>1
<1>3. u \in Word
  BY VectorLimbs
<1> HIDE DEF u
<1>4. /\ z \in Seq(Word) /\ Len(z) = Len(r0)
      /\ \A k \in Nat : k >= (i+1) + Len(y) => LimbAt(z, k) = 0
      /\ Number(z) = Number(r0) + BPow[i] * (u * Number(y))
  BY <1>1, <1>2, <1>3, MulRowNumber, Zenon
<1>5. Array(x) \in [Nat -> Int] /\ Array(x)[i] = u
  BY VectorNumber, VectorLimbs DEF u
<1>6. LimbSum(Array(x), i+1) = LimbSum(Array(x), i) + u * BPow[i]
  BY <1>5, TermSum
<1>7. PICK a \in Int, p \in Int, w \in Int, v \in Int :
        a = LimbSum(Array(x), i) /\ p = BPow[i] /\ w = u /\ v = Number(y)
  <2>1. LimbSum(Array(x), i) \in Int /\ BPow[i] \in Int
    BY <1>5, TermTypes
  <2>2. u \in Int
    BY <1>3, BaseAssumption DEF Word
  <2>3. Number(y) \in Nat
    BY VectorNumber
  <2>4. \A v \in Nat : v \in Int
    OBVIOUS
  <2>5. QED
    BY <2>1, <2>2, <2>3, <2>4, Zenon
<1>8. a * v + p * (w * v) = (a + w * p) * v
  <2>1. (a + w * p) * v = a * v + (w * p) * v
    OBVIOUS
  <2>2. (w * p) * v = p * (w * v)
    OBVIOUS
  <2>3. QED
    BY <2>1, <2>2
<1>9. Number(z) = LimbSum(Array(x), i+1) * Number(y)
  BY <1>1, <1>4, <1>6, <1>7, <1>8, Zenon
<1>10. RowHolds(z, x, y, i+1)
  BY <1>1, <1>4, <1>9 DEF RowHolds
<1>11. QED
  BY <1>10 DEF u

(* The rows add up to the product.                                         *)
LEMMA MulNumbers ==
  ASSUME NEW x, NEW y, Canonical(x), Canonical(y)
  PROVE  Canonical(Mul(x, y)) /\ Number(Mul(x, y)) = Number(x) * Number(y)
<1>1. x \in Seq(Word) /\ y \in Seq(Word) /\ Len(x) \in Nat
  BY DEF Canonical
<1>2. PICK rows \in [Nat -> Seq(Word)] :
        /\ rows[0] = [k \in 1..(Len(x) + Len(y)) |-> 0]
        /\ \A i \in Nat : rows[i+1] = MulRow(rows[i], LimbAt(x, i), y, i)
        /\ Mul(x, y) = IF IsZero(x) \/ IsZero(y) THEN Zero ELSE Normal(rows[Len(x)])
  BY <1>1, RowsRec
<1>3. Number(y) \in Nat /\ Number(x) \in Nat
  BY <1>1, VectorNumber
<1> DEFINE P == {i \in Nat : i <= Len(x) => RowHolds(rows[i], x, y, i)}
<1>4. 0 \in P
  <2>1. RowHolds(rows[0], x, y, 0)
    BY <1>1, <1>2, FirstRow
  <2>2. QED
    BY <2>1
<1>5. \A i \in P : i+1 \in P
  <2> SUFFICES ASSUME NEW i \in P, i+1 <= Len(x) PROVE RowHolds(rows[i+1], x, y, i+1)
    OBVIOUS
  <2>1. i \in Nat /\ i < Len(x) /\ i <= Len(x)
    <3>1. i \in Nat
      OBVIOUS
    <3>2. \A j, n \in Nat : j+1 <= n => j < n /\ j <= n
      OBVIOUS
    <3>3. QED
      BY <1>1, <3>1, <3>2
  <2>2. RowHolds(rows[i], x, y, i)
    BY <2>1
  <2>3. RowHolds(MulRow(rows[i], LimbAt(x, i), y, i), x, y, i+1)
    BY <1>1, <2>1, <2>2, NextRow
  <2>4. QED
    BY <1>2, <2>1, <2>3
<1>6. P = Nat
  BY <1>4, <1>5, SetInduction
<1>7. RowHolds(rows[Len(x)], x, y, Len(x))
  <2>1. Len(x) \in P
    BY <1>1, <1>6
  <2>2. QED
    BY <2>1, <1>1
<1> HIDE DEF P
<1>8. Number(rows[Len(x)]) = Number(x) * Number(y) /\ rows[Len(x)] \in Seq(Word)
  BY <1>7 DEF RowHolds, Number
<1>9. CASE IsZero(x) \/ IsZero(y)
  <2>1. Mul(x, y) = Zero
    BY <1>2, <1>9
  <2>2. Canonical(Zero) /\ Number(Zero) = 0
    BY ZeroNumber
  <2>3. Number(x) = 0 \/ Number(y) = 0
    BY <1>9, CanonicalBound
  <2>4. \A u, v \in Nat : u = 0 \/ v = 0 => u * v = 0
    OBVIOUS
  <2>5. Number(x) * Number(y) = 0
    BY <2>3, <2>4, <1>3
  <2>6. QED
    BY <2>1, <2>2, <2>5
<1>10. CASE ~(IsZero(x) \/ IsZero(y))
  BY <1>2, <1>8, <1>10, NormalVector
<1>11. QED
  BY <1>9, <1>10

(* The powers of the base are powers of two.                               *)
LEMMA BPowPow2 ==
  ASSUME NEW k \in Nat
  PROVE  W * k \in Nat /\ BPow[k] = Pow2[W * k]
<1> DEFINE P == {j \in Nat : BPow[j] = Pow2[W * j]}
<1>1. W \in Nat /\ B = Pow2[W]
  BY WordAssumption
<1>2. 0 \in P
  <2>1. W * 0 = 0
    BY <1>1
  <2>2. BPow[0] = 1 /\ Pow2[0] = 1
    BY BPowDef, Pow2Def
  <2>3. BPow[0] = Pow2[W * 0]
    BY <2>1, <2>2
  <2>4. QED
    BY <2>3
<1>3. \A j \in P : j+1 \in P
  <2> SUFFICES ASSUME NEW j \in Nat, BPow[j] = Pow2[W * j] PROVE BPow[j+1] = Pow2[W * (j+1)]
    OBVIOUS
  <2>1. W * (j+1) = W + W * j /\ W * j \in Nat
    BY <1>1
  <2>2. Pow2[W + W * j] = Pow2[W] * Pow2[W * j]
    BY <1>1, <2>1, Pow2Sum
  <2>3. BPow[j+1] = B * BPow[j]
    BY BPowDef
  <2>4. QED
    BY <1>1, <2>1, <2>2, <2>3
<1>4. P = Nat
  BY <1>2, <1>3, SetInduction
<1>5. BPow[k] = Pow2[W * k]
  BY <1>4
<1>6. W * k \in Nat
  BY <1>1
<1>7. QED
  BY <1>5, <1>6

(* A shift count in limbs and bits.                                        *)
LEMMA ShiftCount ==
  ASSUME NEW bits \in Nat
  PROVE  /\ bits \div W \in Nat /\ bits % W \in Nat /\ bits % W < W
         /\ Pow2[bits] = BPow[bits \div W] * Pow2[bits % W]
         /\ Pow2[bits % W] * Pow2[W - (bits % W)] = B /\ W - (bits % W) \in Nat
<1>1. W \in Nat \ {0} /\ B = Pow2[W]
  BY WordAssumption
<1>2. PICK l \in Int, low \in 0..(W-1) : l = bits \div W /\ low = bits % W /\ bits = low + l * W
  BY <1>1, Division
<1>3. l \in Nat /\ low \in Nat /\ low < W
  <2>1. low \in Nat /\ low < W
    BY <1>1, <1>2
  <2>2. l >= 0
    <3> SUFFICES ASSUME l <= 0 - 1 PROVE FALSE
      BY <1>2
    <3>1. l * W <= 0 - W
      <4>1. (l + 1) * W <= 0
        <5>1. \A u, v \in Nat : (0 - u) * v <= 0
          OBVIOUS
        <5>2. 0 - (l + 1) \in Nat /\ l + 1 = 0 - (0 - (l + 1))
          BY <1>2
        <5>3. QED
          BY <1>1, <5>1, <5>2
      <4>2. (l + 1) * W = l * W + W
        BY <1>1, <1>2
      <4>3. QED
        BY <1>1, <1>2, <4>1, <4>2
    <3>2. QED
      BY <1>1, <1>2, <2>1, <3>1
  <2>3. QED
    BY <1>2, <2>1, <2>2
<1>4. Pow2[bits] = BPow[l] * Pow2[low]
  <2>1. W * l \in Nat /\ BPow[l] = Pow2[W * l]
    BY <1>3, BPowPow2
  <2>2. bits = W * l + low
    BY <1>1, <1>2
  <2>3. Pow2[W * l + low] = Pow2[W * l] * Pow2[low]
    BY <1>3, <2>1, Pow2Sum
  <2>4. QED
    BY <2>1, <2>2, <2>3
<1>5. W - low \in Nat /\ Pow2[low] * Pow2[W - low] = B
  <2>1. W - low \in Nat /\ low + (W - low) = W
    BY <1>1, <1>3
  <2>2. QED
    BY <1>1, <1>3, <2>1, Pow2Sum
<1>6. QED
  BY <1>2, <1>3, <1>4, <1>5

(* The bits that a limb loses to the next one are its carry.               *)
LEMMA ShlNumbers ==
  ASSUME NEW x, Canonical(x), NEW bits \in Nat
  PROVE  Canonical(Shl(x, bits)) /\ Number(Shl(x, bits)) = Number(x) * Pow2[bits]
<1> DEFINE l == bits \div W
           low == bits % W
           p == Pow2[low]
           f == [k \in Nat |-> LimbAt(x, k) * Pow2[low]]
           n == Len(x) + 1
           s0 == Summed(f, n)
           z == [k \in 1..(l + Len(x) + 1) |-> IF k <= l THEN 0 ELSE s0[k-l]]
           g == [j \in Nat |-> IF j < l THEN 0 ELSE LimbAt(s0, j-l)]
<1>1. x \in Seq(Word) /\ Len(x) \in Nat /\ n \in Nat /\ n >= Len(x) /\ n = Len(x) + 1
  BY DEF Canonical
<1>2. Number(x) \in Nat /\ Number(x) < BPow[Len(x)]
  BY <1>1, VectorNumber
<1>3. /\ l \in Nat /\ low \in Nat /\ Pow2[bits] = BPow[l] * p
      /\ p \in Nat \ {0} /\ Pow2[W - low] \in Nat \ {0} /\ p * Pow2[W - low] = B
  BY ShiftCount, Pow2Def
<1>4. CASE IsZero(x) \/ bits = 0
  <2>1. Shl(x, bits) = x
    BY <1>4 DEF Shl
  <2>2. Number(x) = 0 \/ Pow2[bits] = 1
    BY <1>4, CanonicalBound, Pow2Def
  <2>3. Number(x) * Pow2[bits] = Number(x)
    <3>1. Pow2[bits] \in Nat
      BY Pow2Def
    <3>2. \A u, v \in Nat : u = 0 \/ v = 1 => u * v = u
      OBVIOUS
    <3>3. QED
      BY <1>2, <2>2, <3>1, <3>2
  <2>4. QED
    BY <2>1, <2>3
<1>5. CASE ~(IsZero(x) \/ bits = 0)
  <2>1. Shl(x, bits) = Normal(z)
    BY <1>5 DEF Shl
  <2>2. p <= B /\ B \in Nat /\ B >= 2
    <3>1. \A u, v \in Nat \ {0} : u <= u * v
      OBVIOUS
    <3>2. QED
      BY <1>3, <3>1, BaseAssumption
  <2>3. ASSUME NEW k \in Nat
        PROVE  LimbAt(x, k) * p \in Nat /\ LimbAt(x, k) * p <= B * B - B
    <3>1. PICK u \in Nat : u = LimbAt(x, k) /\ u <= B - 1
      BY <1>1, VectorLimbs, BaseAssumption DEF Word
    <3>2. u * p \in Nat /\ u * p <= (B-1) * p
      <4>1. B - 1 \in Nat
        BY <2>2
      <4>2. QED
        BY <1>3, <3>1, <4>1, TimesMono
    <3>3. p * (B-1) <= B * (B-1)
      <4>1. B - 1 \in Nat
        BY <2>2
      <4>2. QED
        BY <1>3, <2>2, <4>1, TimesMono
    <3>4. p * (B-1) = (B-1) * p /\ B * (B-1) = B * B - B /\ p * (B-1) \in Int /\ B * B \in Int
      BY <1>3, <2>2
    <3>5. QED
      BY <2>2, <3>1, <3>2, <3>3, <3>4
  <2>4. f \in Roomy /\ f \in [Nat -> Int]
    <3>1. f \in Roomy
      BY <2>3 DEF Roomy
    <3>2. \A e \in [Nat -> Nat] : e \in [Nat -> Int]
      OBVIOUS
    <3> HIDE DEF f
    <3>3. QED
      BY <3>1, <3>2 DEF Roomy
  <2>5. LimbSum(f, n) = p * Number(x)
    <3>1. Array(x) \in [Nat -> Int] /\ LimbSum(Array(x), n) = Number(x)
      BY <1>1, VectorNumber
    <3>2. \A k \in 0..(n-1) : f[k] = p * Array(x)[k]
      <4> SUFFICES ASSUME NEW k \in 0..(n-1) PROVE f[k] = p * Array(x)[k]
        OBVIOUS
      <4>1. k \in Nat
        BY <1>1
      <4>2. LimbAt(x, k) \in Int /\ Array(x)[k] = LimbAt(x, k)
        BY <1>1, <4>1, VectorLimbs, BaseAssumption DEF Word
      <4>3. f[k] = LimbAt(x, k) * p
        BY <4>1
      <4>4. \A u, v \in Int : u * v = v * u
        OBVIOUS
      <4>5. QED
        BY <1>3, <4>2, <4>3, <4>4
    <3>3. p \in Int
      BY <1>3
    <3> HIDE DEF f, n, p
    <3>4. n \in Nat /\ f \in [Nat -> Int] /\ Array(x) \in [Nat -> Int]
      BY <1>1, <2>4, <3>1
    <3>5. LimbSum(f, n) = p * LimbSum(Array(x), n)
      BY <3>2, <3>3, <3>4, SumTimes
    <3>6. QED
      BY <3>1, <3>5
  <2>6. LimbSum(f, n) < BPow[n]
    <3>1. BPow[n] = B * BPow[Len(x)] /\ BPow[Len(x)] \in Nat
      BY <1>1, BPowDef
    <3>2. \A a, b, u, v \in Nat : a <= b /\ u < v /\ b > 0 => a * u < b * v
      <4> SUFFICES ASSUME NEW a \in Nat, NEW b \in Nat, NEW u \in Nat, NEW v \in Nat,
                          a <= b, u < v, b > 0
                   PROVE  a * u < b * v
        OBVIOUS
      <4>1. a * u <= b * u
        BY TimesMono
      <4>2. b * v = b * u + b * (v - u) /\ v - u \in Nat
        OBVIOUS
      <4>3. b * (v - u) > 0 /\ b * u \in Nat /\ a * u \in Nat
        OBVIOUS
      <4>4. QED
        BY <4>1, <4>2, <4>3
    <3> HIDE DEF p, f, n
    <3>3. p \in Nat /\ p <= B /\ B \in Nat /\ B > 0
      BY <1>3, <2>2
    <3>4. p * Number(x) < B * BPow[Len(x)]
      BY <1>2, <3>1, <3>2, <3>3
    <3>5. QED
      BY <2>5, <3>1, <3>4
  <2> HIDE DEF f
  <2>7. s0 \in Seq(Word) /\ Len(s0) = n /\ Number(s0) = p * Number(x)
    <3> HIDE DEF n, p
    <3>1. QED
      BY <1>1, <2>4, <2>5, <2>6, SummedFits
  <2> HIDE DEF s0
  <2>8. /\ \A k \in Nat : LimbAt(s0, k) \in Word
        /\ \A k \in 0..(n-1) : LimbAt(s0, k) = s0[k+1]
        /\ \A k \in Nat : k >= n => LimbAt(s0, k) = 0
    BY <2>7, VectorLimbs
  <2>9. 0 \in Word
    BY BaseAssumption DEF Word
  <2>10. g \in [Nat -> Word]
    <3> SUFFICES ASSUME NEW j \in Nat
                 PROVE  (IF j < l THEN 0 ELSE LimbAt(s0, j-l)) \in Word
      OBVIOUS
    <3>1. CASE j < l
      BY <3>1, <2>9
    <3>2. CASE ~(j < l)
      <4>1. j - l \in Nat
        BY <3>2, <1>3
      <4>2. QED
        BY <3>2, <4>1, <2>8
    <3>3. QED
      BY <3>1, <3>2
  <2>11. /\ \A j \in 0..(l-1) : g[j] = 0
         /\ \A j \in Nat : g[l+j] = LimbAt(s0, j)
    <3>1. ASSUME NEW j \in 0..(l-1) PROVE g[j] = 0
      <4>1. j \in Nat /\ j < l
        BY <1>3
      <4>2. QED
        BY <4>1
    <3>2. ASSUME NEW j \in Nat PROVE g[l+j] = LimbAt(s0, j)
      <4>1. l + j \in Nat /\ ~(l + j < l) /\ (l + j) - l = j
        BY <1>3
      <4>2. QED
        BY <4>1
    <3>3. QED
      BY <3>1, <3>2
  <2>12. z = [k \in 1..(l + n) |-> g[k-1]]
    <3> SUFFICES ASSUME NEW k \in 1..(l + n)
                 PROVE  (IF k <= l THEN 0 ELSE s0[k-l]) = g[k-1]
      <4> HIDE DEF l, n, g
      <4>1. \A i, j \in Nat : i + j + 1 = i + (j + 1)
        OBVIOUS
      <4>2. l + Len(x) + 1 = l + n
        BY <1>1, <1>3, <4>1
      <4>3. QED
        BY <4>2
    <3>1. CASE k <= l
      <4>1. k - 1 \in 0..(l-1)
        BY <1>1, <1>3, <3>1
      <4>2. QED
        BY <4>1, <2>11, <3>1
    <3>2. CASE ~(k <= l)
      <4>1. k - 1 = l + (k-l-1) /\ k-l-1 \in 0..(n-1) /\ k-l-1 \in Nat /\ (k-l-1) + 1 = k-l
        BY <1>1, <1>3, <3>2
      <4>2. g[k-1] = LimbAt(s0, k-l-1)
        BY <4>1, <2>11
      <4>3. LimbAt(s0, k-l-1) = s0[k-l]
        BY <4>1, <2>8
      <4>4. QED
        BY <3>2, <4>2, <4>3
    <3>3. QED
      BY <3>1, <3>2
  <2> HIDE DEF g, z, l, n, p
  <2>13. z \in Seq(Word) /\ Number(z) = LimbSum(g, l + n)
    <3>1. l + n \in Nat
      BY <1>1, <1>3
    <3>2. QED
      BY <2>10, <2>12, <3>1, MadeVector
  <2>14. LimbSum(g, l + n) = BPow[l] * Number(s0)
    <3>1. g \in [Nat -> Int]
      BY <2>10, WordSum
    <3>2. Array(s0) \in [Nat -> Int] /\ LimbSum(Array(s0), n) = Number(s0) /\ \A k \in Nat : Array(s0)[k] = LimbAt(s0, k)
      BY <2>7, VectorNumber, VectorLimbs
    <3>3. \A j \in 0..(n-1) : Array(s0)[j] = g[l+j]
      BY <1>1, <2>11, <3>2
    <3>4. LimbSum(g, l + n) = LimbSum(g, l) + BPow[l] * LimbSum(Array(s0), n)
      <4>1. n \in Nat /\ l \in Nat /\ Array(s0) \in [Nat -> Int]
        BY <1>1, <1>3, <3>2
      <4>2. QED
        BY <3>1, <3>3, <4>1, SumSplit
    <3>5. LimbSum(g, l) = LimbSum(g, 0)
      <4>1. 0 \in Nat /\ 0 <= l
        BY <1>3
      <4>2. \A k \in 0..(l-1) : g[k] = 0
        BY <2>11
      <4>3. QED
        BY <1>3, <3>1, <4>1, <4>2, ZeroAbove
    <3>6. LimbSum(g, 0) = 0
      BY <3>1, TermSum
    <3>7. BPow[l] * Number(s0) \in Int
      <4>1. BPow[l] \in Int /\ Number(s0) \in Int
        BY <1>3, <2>7, BPowDef, VectorNumber
      <4>2. QED
        BY <4>1
    <3>8. QED
      BY <3>2, <3>4, <3>5, <3>6, <3>7
  <2>15. BPow[l] * (p * Number(x)) = Number(x) * (BPow[l] * p)
    <3>1. BPow[l] \in Int /\ p \in Int /\ Number(x) \in Int
      BY <1>2, <1>3, BPowDef
    <3>2. \A a, b, c \in Int : a * (b * c) = c * (a * b)
      OBVIOUS
    <3>3. QED
      BY <3>1, <3>2
  <2>16. Number(z) = Number(x) * Pow2[bits]
    BY <1>3, <2>7, <2>13, <2>14, <2>15
  <2>17. QED
    BY <2>1, <2>13, <2>16, NormalVector
<1>6. QED
  BY <1>4, <1>5

(* A quotient is the number whose multiple leaves a remainder.             *)
LEMMA TheQuotient ==
  ASSUME NEW m \in Nat \ {0}, NEW a \in Int, NEW q \in Int, NEW v \in 0..(m-1), a = q * m + v
  PROVE  a \div m = q /\ a % m = v
<1>1. PICK q2 \in Int, v2 \in 0..(m-1) : q2 = a \div m /\ v2 = a % m /\ a = v2 + q2 * m
  BY Division
<1>2. (q - q2) * m = v2 - v
  BY <1>1
<1>3. q - q2 \in Int /\ v2 - v < m /\ v2 - v > 0 - m
  BY <1>1
<1>4. \A d \in Int : d * m < m /\ d * m > 0 - m => d = 0
  <2> SUFFICES ASSUME NEW d \in Int, d * m < m, d * m > 0 - m, d # 0 PROVE FALSE
    OBVIOUS
  <2>1. CASE d >= 1
    <3>1. d * m = m + (d - 1) * m /\ (d - 1) * m >= 0
      BY <2>1
    <3>2. QED
      BY <3>1
  <2>2. CASE d <= 0 - 1
    <3>1. d * m = (0 - m) + (d + 1) * m /\ (d + 1) * m <= 0
      BY <2>2
    <3>2. QED
      BY <3>1
  <2>3. QED
    BY <2>1, <2>2
<1>5. q = q2
  BY <1>2, <1>3, <1>4
<1>6. v = v2
  BY <1>1, <1>5
<1>7. QED
  BY <1>1, <1>5, <1>6

(* A limb shifted down, with the bits of the next one above it.            *)
LEMMA FallingBits ==
  ASSUME NEW u \in Word, NEW v \in Word, NEW p \in Nat \ {0}, NEW q \in Nat \ {0}, p * q = B
  PROVE  LET w == u \div p + U32((v % p) * q)
         IN  /\ w \in Word /\ u % p \in 0..(p-1) /\ v % p \in 0..(p-1)
             /\ u - (u % p) = p * w - (v % p) * B
<1> DEFINE w == u \div p + U32((v % p) * q)
<1>1. u \in Nat /\ v \in Nat /\ u < B /\ B \in Nat /\ B >= 2
  BY BaseAssumption DEF Word
<1>2. PICK d \in Int, b \in 0..(p-1) : d = u \div p /\ b = u % p /\ u = b + d * p
  BY <1>1, Division
<1>3. PICK e \in 0..(p-1) : e = v % p
  <2>1. v \in Int
    BY <1>1
  <2>2. v % p \in 0..(p-1)
    BY <2>1, QuotientResidue
  <2>3. QED
    BY <2>2
<1>4. d \in Nat /\ d <= q - 1
  <2>1. d >= 0
    <3> SUFFICES ASSUME d <= 0 - 1 PROVE FALSE
      BY <1>2
    <3>1. d * p = (0 - p) + (d + 1) * p /\ (d + 1) * p <= 0
      OBVIOUS
    <3>2. QED
      BY <1>1, <1>2, <3>1
  <2>2. d <= q - 1
    <3> SUFFICES ASSUME d >= q PROVE FALSE
      BY <1>2
    <3>1. d * p = q * p + (d - q) * p /\ (d - q) * p >= 0 /\ q * p = p * q
      BY <1>2
    <3>2. QED
      BY <1>1, <1>2, <3>1
  <2>3. QED
    BY <1>2, <2>1, <2>2
<1>5. e * q \in Nat /\ e * q <= B - q
  <2>1. e \in Nat /\ e <= p - 1 /\ p - 1 \in Nat
    BY <1>3
  <2>2. e * q <= (p - 1) * q /\ e * q \in Nat
    BY <2>1, TimesMono
  <2>3. (p - 1) * q = B - q
    OBVIOUS
  <2>4. QED
    BY <2>2, <2>3
<1>6. U32(e * q) = e * q
  <2>1. e * q \in 0..(B-1)
    BY <1>1, <1>5
  <2>2. \A t \in 0..(B-1) : t % B = t
    BY <1>1
  <2>3. QED
    BY <2>1, <2>2 DEF U32
<1>7. w = d + e * q
  BY <1>2, <1>3, <1>6
<1>8. w \in Word
  <2>1. d + e * q \in Nat /\ d + e * q <= B - 1
    BY <1>1, <1>4, <1>5
  <2>2. QED
    BY <1>1, <1>7, <2>1 DEF Word
<1>9. u - b = p * w - e * B
  <2>1. p * (d + e * q) = d * p + e * (p * q)
    <3>1. p * (d + e * q) = p * d + p * (e * q)
      BY <1>3
    <3>2. p * (e * q) = e * (p * q) /\ p * d = d * p
      BY <1>3
    <3>3. QED
      BY <3>1, <3>2
  <2>2. d * p \in Int /\ e * B \in Int
    BY <1>1, <1>3
  <2>3. p * w = d * p + e * B
    BY <1>7, <2>1
  <2>4. QED
    BY <1>2, <2>2, <2>3
<1>10. QED
  BY <1>2, <1>3, <1>8, <1>9

(* The bits that leave a vector at its lower end are the remainder.        *)
LEMMA ShrNumbers ==
  ASSUME NEW x, Canonical(x), NEW bits \in Nat
  PROVE  Canonical(Shr(x, bits)) /\ Number(Shr(x, bits)) = Number(x) \div Pow2[bits]
<1> DEFINE l == bits \div W
           low == bits % W
           p == Pow2[low]
           q == Pow2[W - low]
           X0 == Array(x)
<1>1. x \in Seq(Word) /\ Len(x) \in Nat
  BY DEF Canonical
<1>2. /\ Number(x) \in Nat /\ Number(x) < BPow[Len(x)]
      /\ X0 \in [Nat -> Int] /\ Number(x) = LimbSum(X0, Len(x))
  BY <1>1, VectorNumber
<1>3. /\ l \in Nat /\ low \in Nat /\ Pow2[bits] = BPow[l] * p
      /\ p \in Nat \ {0} /\ q \in Nat \ {0} /\ p * q = B
  BY ShiftCount, Pow2Def
<1>4. Pow2[bits] \in Nat \ {0} /\ BPow[l] \in Nat \ {0}
  BY <1>3, Pow2Def, BPowDef
<1>5. CASE IsZero(x) \/ bits = 0
  <2>1. Shr(x, bits) = x
    BY <1>5 DEF Shr
  <2>2. Number(x) = 0 \/ Pow2[bits] = 1
    BY <1>5, CanonicalBound, Pow2Def
  <2>3. \A u \in Nat, v \in Nat \ {0} : u = 0 \/ v = 1 => u = u * v + 0 /\ 0 \in 0..(v-1)
    OBVIOUS
  <2>4. Number(x) = Number(x) * Pow2[bits] + 0 /\ 0 \in 0..(Pow2[bits]-1)
    BY <1>2, <1>4, <2>2, <2>3
  <2>5. Number(x) \div Pow2[bits] = Number(x)
    BY <1>2, <1>4, <2>4, TheQuotient
  <2>6. QED
    BY <2>1, <2>5
<1>6. CASE ~(IsZero(x) \/ bits = 0) /\ l >= Len(x)
  <2>1. Shr(x, bits) = Zero
    BY <1>6 DEF Shr
  <2>2. Number(x) < Pow2[bits]
    <3>1. BPow[Len(x)] <= BPow[l] /\ BPow[Len(x)] \in Nat
      BY <1>1, <1>3, <1>6, BPowGrows
    <3>2. \A u, v \in Nat \ {0} : u <= u * v
      OBVIOUS
    <3>3. BPow[l] <= Pow2[bits]
      BY <1>3, <1>4, <3>2
    <3>4. QED
      BY <1>2, <1>4, <3>1, <3>3
  <2>3. Number(x) \div Pow2[bits] = 0
    <3>1. Number(x) = 0 * Pow2[bits] + Number(x) /\ Number(x) \in 0..(Pow2[bits]-1)
      BY <1>2, <1>4, <2>2
    <3>2. QED
      BY <1>2, <1>4, <3>1, TheQuotient
  <2>4. QED
    BY <2>1, <2>3, ZeroNumber
<1>7. CASE ~(IsZero(x) \/ bits = 0) /\ ~(l >= Len(x))
  <2> DEFINE n == Len(x) - l
             z == [k \in 1..(Len(x) - l) |-> LimbAt(x, k+l-1) \div Pow2[low] + Falling(x, k+l-1, low)]
             g == [j \in Nat |-> LimbAt(x, l+j) \div p + U32((LimbAt(x, l+j+1) % p) * q)]
             f == [j \in Nat |-> LimbAt(x, l+j)]
             b == [j \in Nat |-> LimbAt(x, l+j) % p]
             c == [j \in Nat |-> 0 - b[j]]
             h == [j \in Nat |-> p * g[j]]
  <2>1. Shr(x, bits) = Normal(z)
    BY <1>7 DEF Shr
  <2>2. n \in Nat /\ l + n = Len(x)
    BY <1>1, <1>3, <1>7
  <2>3. ASSUME NEW j \in Nat
        PROVE  /\ g[j] \in Word /\ f[j] \in Int /\ b[j] \in 0..(p-1) /\ b[j+1] \in 0..(p-1)
               /\ f[j] - b[j] = p * g[j] - b[j+1] * B
    <3>1. l+j \in Nat /\ l+j+1 \in Nat /\ l + (j+1) = l+j+1 /\ j+1 \in Nat
      BY <1>3
    <3>2. PICK u \in Word, v \in Word : u = LimbAt(x, l+j) /\ v = LimbAt(x, l+j+1)
      BY <1>1, <3>1, VectorLimbs
    <3>3. /\ u \div p + U32((v % p) * q) \in Word /\ u % p \in 0..(p-1) /\ v % p \in 0..(p-1)
          /\ u - (u % p) = p * (u \div p + U32((v % p) * q)) - (v % p) * B
      BY <1>3, FallingBits
    <3>4. f[j] = u /\ b[j] = u % p /\ b[j+1] = v % p /\ g[j] = u \div p + U32((v % p) * q)
      BY <3>1, <3>2
    <3>5. u \in Int
      BY BaseAssumption DEF Word
    <3> HIDE DEF f, g, b, p, q
    <3>6. QED
      BY <3>3, <3>4, <3>5
  <2>4. z = [k \in 1..n |-> g[k-1]]
    <3>1. ASSUME NEW k \in 1..n
          PROVE  LimbAt(x, k+l-1) \div Pow2[low] + Falling(x, k+l-1, low) = g[k-1]
      <4>1. k - 1 \in Nat /\ k+l-1 = l+(k-1) /\ k+l-1+1 = l+(k-1)+1
        BY <1>3, <2>2
      <4>2. g[k-1] = LimbAt(x, l+(k-1)) \div p + U32((LimbAt(x, l+(k-1)+1) % p) * q)
        BY <4>1
      <4>3. QED
        BY <4>1, <4>2 DEF Falling
    <3> HIDE DEF g
    <3>2. QED
      BY <3>1
  <2>5. /\ f \in [Nat -> Int] /\ g \in [Nat -> Word] /\ b \in [Nat -> Int] /\ h \in [Nat -> Int]
    <3>1. f \in [Nat -> Int]
      BY <2>3
    <3>2. g \in [Nat -> Word]
      BY <2>3
    <3>3. \A t \in 0..(p-1) : t \in Int
      BY <1>3
    <3>4. b \in [Nat -> 0..(p-1)]
      BY <2>3
    <3>5. b \in [Nat -> Int]
      BY <3>3, <3>4
    <3>6. g \in [Nat -> Int]
      BY <3>2, WordSum
    <3>7. \A j \in Nat : p * g[j] \in Int
      <4> HIDE DEF g, p
      <4>1. \A t \in Int : p * t \in Int
        BY <1>3
      <4>2. QED
        BY <3>6, <4>1
    <3>8. QED
      BY <3>1, <3>2, <3>5, <3>7
  <2>6. /\ \A j \in Nat : h[j] = p * g[j]
        /\ \A j \in Nat : f[j] = X0[l + j]
        /\ \A j \in Nat : c[j] = 0 - b[j]
        /\ \A j \in Nat : j >= n => b[j] = 0
    <3>1. \A j \in Nat : h[j] = p * g[j]
      OBVIOUS
    <3>2. \A j \in Nat : f[j] = X0[l + j]
      <4> SUFFICES ASSUME NEW j \in Nat PROVE LimbAt(x, l + j) = X0[l + j]
        OBVIOUS
      <4>1. l + j \in Nat
        BY <1>3
      <4>2. QED
        BY <1>1, <4>1, VectorLimbs
    <3>3. \A j \in Nat : c[j] = 0 - b[j]
      OBVIOUS
    <3>4. ASSUME NEW j \in Nat, j >= n PROVE b[j] = 0
      <4>1. l + j \in Nat /\ l + j >= Len(x)
        BY <1>1, <1>3, <2>2, <3>4
      <4>2. LimbAt(x, l + j) = 0
        BY <1>1, <4>1, VectorLimbs
      <4>3. 0 % p = 0
        BY <1>3
      <4>4. QED
        BY <4>2, <4>3
    <3>5. QED
      BY <3>1, <3>2, <3>3, <3>4
  <2> HIDE DEF f, g, h, z, n, p, q, l, low, X0
  <2>7. c \in [Nat -> Int]
    <3>1. \A t \in Int : 0 - t \in Int
      OBVIOUS
    <3> HIDE DEF b
    <3>2. \A j \in Nat : 0 - b[j] \in Int
      BY <2>5, <3>1
    <3>3. QED
      BY <3>2
  <2> HIDE DEF b, c
  <2>8. z \in Seq(Word) /\ Number(z) = LimbSum(g, n) /\ Number(z) \in Nat
    <3>1. z \in Seq(Word) /\ Number(z) = LimbSum(g, n)
      BY <2>2, <2>4, <2>5, MadeVector
    <3>2. QED
      BY <3>1, VectorNumber
  <2>9. LimbSum(h, n) = p * Number(z)
    <3>1. g \in [Nat -> Int] /\ p \in Int
      BY <1>3, <2>5, WordSum
    <3>2. \A j \in 0..(n-1) : h[j] = p * g[j]
      BY <2>6
    <3>3. LimbSum(h, n) = p * LimbSum(g, n)
      BY <2>2, <2>5, <3>1, <3>2, SumTimes
    <3>4. QED
      BY <2>8, <3>3
  <2>10. LimbSum(f, n) + c[0] = LimbSum(h, n) + c[n] * BPow[n]
    <3>1. \A j \in 0..(n-1) : f[j] + c[j] = h[j] + c[j+1] * B
      <4> SUFFICES ASSUME NEW j \in 0..(n-1) PROVE f[j] + c[j] = h[j] + c[j+1] * B
        OBVIOUS
      <4>1. j \in Nat /\ j+1 \in Nat
        BY <2>2
      <4>2. PICK t \in Int, u \in Int, v \in Int, w \in Int :
              t = f[j] /\ u = b[j] /\ v = p * g[j] /\ w = b[j+1]
        <5>1. f[j] \in Int /\ b[j] \in Int /\ b[j+1] \in Int
          BY <2>5, <4>1
        <5>2. p * g[j] \in Int
          BY <2>5, <2>6, <4>1
        <5>3. QED
          BY <5>1, <5>2
      <4>3. t - u = v - w * B
        BY <2>3, <4>1, <4>2, Zenon
      <4>4. t + (0 - u) = v + (0 - w) * B
        <5>1. (0 - w) * B = 0 - w * B /\ w * B \in Int
          BY BaseAssumption
        <5>2. QED
          BY <4>3, <5>1
      <4>5. c[j] = 0 - b[j] /\ c[j+1] = 0 - b[j+1] /\ h[j] = p * g[j]
        BY <2>6, <4>1
      <4>6. QED
        BY <4>2, <4>4, <4>5, Zenon
    <3>2. QED
      BY <2>2, <2>5, <2>7, <3>1, CarryChain
  <2>11. PICK y \in Int, e \in 0..(p-1) : y = LimbSum(f, n) /\ e = b[0] /\ y = Number(z) * p + e
    <3>1. 0 \in Nat /\ b[0] \in 0..(p-1)
      BY <2>3
    <3>2. c[0] = 0 - b[0] /\ c[n] = 0
      <4>1. c[0] = 0 - b[0] /\ c[n] = 0 - b[n] /\ b[n] = 0
        <5>1. n >= n
          BY <2>2
        <5>2. QED
          BY <2>2, <2>6, <3>1, <5>1
      <4>2. 0 - 0 = 0
        OBVIOUS
      <4>3. QED
        BY <4>1, <4>2, Zenon
    <3>3. LimbSum(f, n) \in Int /\ BPow[n] \in Int
      BY <2>2, <2>5, TermTypes
    <3>4. LimbSum(f, n) + (0 - b[0]) = p * Number(z) + 0 * BPow[n]
      BY <2>9, <2>10, <3>2, Zenon
    <3>5. PICK y \in Int, e \in 0..(p-1), m \in Int, v \in Nat :
            y = LimbSum(f, n) /\ e = b[0] /\ m = BPow[n] /\ v = Number(z)
      BY <2>8, <3>1, <3>3
    <3>6. y + (0 - e) = p * v + 0 * m
      BY <3>4, <3>5, Zenon
    <3>7. y = v * p + e
      <4>1. p * v = v * p /\ v * p \in Int /\ 0 * m = 0 /\ e \in Int
        BY <1>3
      <4>2. QED
        BY <3>6, <4>1
    <3>8. QED
      BY <3>5, <3>7
  <2>12. PICK a \in Nat, m \in Nat \ {0} :
           a = LimbSum(X0, l) /\ m = BPow[l] /\ a < m /\ Number(x) = a + m * y
    <3>1. X0 \in [Nat -> Word]
      BY <1>1, VectorLimbs DEF X0
    <3>2. LimbSum(X0, l) \in Nat /\ LimbSum(X0, l) < BPow[l]
      BY <1>3, <3>1, WordSum
    <3>3. \A j \in 0..(n-1) : f[j] = X0[l + j]
      BY <2>6
    <3>4. LimbSum(X0, l + n) = LimbSum(X0, l) + BPow[l] * LimbSum(f, n)
      <4>1. X0 \in [Nat -> Int] /\ f \in [Nat -> Int] /\ l \in Nat /\ n \in Nat
        BY <1>2, <1>3, <2>2, <2>5
      <4>2. QED
        BY <3>3, <4>1, SumSplit
    <3>5. QED
      BY <1>2, <1>4, <2>2, <2>11, <3>2, <3>4
  <2>13. Number(x) = Number(z) * Pow2[bits] + (m * e + a) /\ m * e + a \in 0..(Pow2[bits] - 1)
    <3>1. PICK v \in Nat : v = Number(z)
      BY <2>8
    <3>2. Pow2[bits] = m * p
      BY <1>3, <2>12
    <3>3. a + m * (v * p + e) = v * (m * p) + (m * e + a)
      <4>1. m * (v * p + e) = m * (v * p) + m * e
        BY <1>3
      <4>2. m * (v * p) = v * (m * p)
        BY <1>3
      <4>3. m * e \in Int /\ v * (m * p) \in Int
        BY <1>3
      <4>4. QED
        BY <4>1, <4>2, <4>3
    <3>4. m * e + a \in Nat /\ m * e + a <= m * p - 1
      <4>1. e \in Nat /\ p - 1 \in Nat /\ e <= p - 1
        BY <1>3
      <4>2. m * e \in Nat
        BY <4>1
      <4>3. e * m <= (p - 1) * m
        BY <4>1, TimesMono
      <4>4. (p - 1) * m = m * p - m /\ e * m = m * e /\ m * p \in Int
        BY <1>3, <4>1
      <4>5. QED
        BY <2>12, <4>2, <4>3, <4>4
    <3>5. Number(x) = a + m * (v * p + e)
      BY <2>11, <2>12, <3>1, Zenon
    <3>6. m * p \in Int
      BY <1>3
    <3>7. QED
      BY <3>1, <3>2, <3>3, <3>4, <3>5, <3>6
  <2>14. Number(x) \div Pow2[bits] = Number(z)
    <3>1. PICK v \in Nat, u \in Nat, w \in 0..(Pow2[bits] - 1) :
            u = Number(x) /\ v = Number(z) /\ w = m * e + a /\ u = v * Pow2[bits] + w
      BY <1>2, <2>8, <2>13
    <3>2. u \in Int /\ v \in Int
      OBVIOUS
    <3>3. u \div Pow2[bits] = v
      BY <1>4, <3>1, <3>2, TheQuotient
    <3>4. QED
      BY <3>1, <3>3
  <2>15. QED
    BY <2>1, <2>8, <2>14, NormalVector
<1>8. QED
  BY <1>5, <1>6, <1>7

-----------------------------------------------------------------------------
(* Bits and division.                                                      *)

(* A number around its limb l: what is below and what is above.            *)
LEMMA AroundLimb ==
  ASSUME NEW x \in Seq(Word), NEW l \in Nat
  PROVE  \E a \in 0..(BPow[l]-1), t \in Int :
           Number(x) = a + BPow[l] * (LimbAt(x, l) + B * t)
<1> DEFINE X0 == Array(x)
           h == [j \in Nat |-> X0[l+j]]
           h2 == [j \in Nat |-> h[1+j]]
           n == Len(x)
<1>1. n \in Nat /\ X0 \in [Nat -> Word] /\ X0[l] = LimbAt(x, l)
  BY VectorLimbs
<1>2. h \in [Nat -> Word] /\ (\A j \in Nat : h[j] = X0[l+j]) /\ h[0] = X0[l]
  <2>1. \A j \in Nat : l + j \in Nat /\ X0[l+j] \in Word
    BY <1>1
  <2>2. l + 0 = l
    OBVIOUS
  <2> HIDE DEF X0
  <2>3. QED
    BY <2>1, <2>2
<1> HIDE DEF h
<1>3. h2 \in [Nat -> Word] /\ \A j \in Nat : h2[j] = h[1+j]
  <2>1. \A j \in Nat : 1 + j \in Nat /\ h[1+j] \in Word
    BY <1>2
  <2>2. QED
    BY <2>1
<1> HIDE DEF h2
<1>4. X0 \in [Nat -> Int] /\ h \in [Nat -> Int] /\ h2 \in [Nat -> Int]
  BY <1>1, <1>2, <1>3, WordSum
<1>5. LimbSum(X0, l + (1 + n)) = Number(x)
  <2>1. l + (1 + n) \in Nat /\ l + (1 + n) >= n
    BY <1>1
  <2>2. QED
    BY <2>1, VectorNumber
<1> HIDE DEF X0, n
<1>6. LimbSum(X0, l + (1 + n)) = LimbSum(X0, l) + BPow[l] * LimbSum(h, 1 + n)
  <2>1. 1 + n \in Nat
    BY <1>1
  <2>2. \A j \in 0..((1 + n)-1) : h[j] = X0[l+j]
    BY <1>2
  <2>3. QED
    BY <1>4, <2>1, <2>2, SumSplit
<1>7. LimbSum(h, 1 + n) = LimbSum(h, 1) + BPow[1] * LimbSum(h2, n)
  <2>1. \A j \in 0..(n-1) : h2[j] = h[1+j]
    BY <1>3
  <2>2. n \in Nat /\ 1 \in Nat /\ h \in [Nat -> Int] /\ h2 \in [Nat -> Int]
    BY <1>1, <1>4
  <2>3. QED
    BY <2>1, <2>2, SumSplit
<1>8. LimbSum(h, 1) = LimbAt(x, l) /\ BPow[1] = B
  <2>1. LimbSum(h, 0+1) = LimbSum(h, 0) + h[0] * BPow[0] /\ LimbSum(h, 0) = 0
    BY <1>4, TermSum
  <2>2. BPow[0] = 1 /\ BPow[0+1] = B * BPow[0]
    BY BPowDef
  <2>3. PICK v \in Int : v = h[0]
    BY <1>4
  <2>4. 0 + v * 1 = v /\ B * 1 = B /\ 0 + 1 = 1
    BY BaseAssumption
  <2>5. LimbSum(h, 1) = 0 + v * 1 /\ BPow[1] = B * 1
    BY <2>1, <2>2, <2>3, <2>4
  <2>6. QED
    BY <1>1, <1>2, <2>3, <2>4, <2>5, Zenon
<1>9. LimbSum(h2, n) \in Int
  BY <1>1, <1>4, TermTypes
<1>10. LimbSum(X0, l) \in 0..(BPow[l]-1)
  <2>1. LimbSum(X0, l) \in Nat /\ LimbSum(X0, l) < BPow[l] /\ BPow[l] \in Nat
    BY <1>1, WordSum, BPowDef
  <2>2. QED
    BY <2>1
<1>11. Number(x) = LimbSum(X0, l) + BPow[l] * (LimbAt(x, l) + B * LimbSum(h2, n))
  BY <1>5, <1>6, <1>7, <1>8, Zenon
<1>12. QED
  BY <1>9, <1>10, <1>11

(* test_bit reads a bit of the number.                                     *)
LEMMA BitNumber ==
  ASSUME NEW x \in Seq(Word), NEW k \in Nat
  PROVE  TestBit(x, k) <=> (Number(x) \div Pow2[k]) % 2 = 1
<1> DEFINE l == k \div W
           low == k % W
<1>1. /\ l \in Nat /\ low \in Nat /\ Pow2[k] = BPow[l] * Pow2[low] /\ low < W
      /\ Pow2[low] * Pow2[W - low] = B
  BY ShiftCount
<1>2. PICK p \in Nat \ {0}, q \in Nat \ {0}, m \in Nat \ {0} :
        p = Pow2[low] /\ q = Pow2[W - low] /\ m = BPow[l]
  <2>1. W - low \in Nat
    BY <1>1, ShiftCount
  <2>2. QED
    BY <1>1, <2>1, Pow2Def, BPowDef
<1>3. PICK hq \in Int : q = 2 * hq
  <2>1. W - low - 1 \in Nat /\ W - low = (W - low - 1) + 1
    <3>1. W \in Nat
      BY WordAssumption
    <3>2. QED
      BY <1>1, <3>1
  <2>2. Pow2[W - low] = 2 * Pow2[W - low - 1] /\ Pow2[W - low - 1] \in Nat
    BY <2>1, Pow2Def
  <2>3. QED
    BY <1>2, <2>2
<1>4. PICK u \in Nat : u = LimbAt(x, l)
  <2>1. LimbAt(x, l) \in Word
    BY <1>1, VectorLimbs
  <2>2. QED
    BY <2>1, BaseAssumption DEF Word
<1>5. PICK a \in 0..(m-1), t \in Int : Number(x) = a + m * (u + B * t)
  BY <1>1, <1>2, <1>4, AroundLimb
<1>6. PICK d \in Int, e \in 0..(p-1) : d = u \div p /\ e = u % p /\ u = e + d * p
  <2>1. u \in Int
    OBVIOUS
  <2>2. QED
    BY <2>1, Division
<1>7. Number(x) = (d + q * t) * (m * p) + (m * e + a)
  <2>1. a + m * ((e + d * p) + (p * q) * t) = (d + q * t) * (m * p) + (m * e + a)
    <3>1. m * ((e + d * p) + (p * q) * t) = m * e + m * (d * p) + m * ((p * q) * t)
      OBVIOUS
    <3>2. m * ((p * q) * t) = (q * t) * (m * p) /\ m * (d * p) = d * (m * p)
      OBVIOUS
    <3>3. (d + q * t) * (m * p) = d * (m * p) + (q * t) * (m * p)
      OBVIOUS
    <3>4. m * e \in Int /\ d * (m * p) \in Int /\ (q * t) * (m * p) \in Int
      OBVIOUS
    <3>5. QED
      BY <3>1, <3>2, <3>3, <3>4
  <2>2. B = p * q
    BY <1>1, <1>2
  <2>3. QED
    BY <1>5, <1>6, <2>1, <2>2, Zenon
<1>8. m * e + a \in 0..(m * p - 1)
  <2>1. e \in Nat /\ p - 1 \in Nat /\ e <= p - 1
    OBVIOUS
  <2>2. e * m <= (p - 1) * m
    BY <2>1, TimesMono
  <2>3. (p - 1) * m = m * p - m /\ e * m = m * e /\ m * p \in Int /\ m * e \in Nat
    BY <2>1
  <2>4. QED
    BY <2>2, <2>3
<1>9. Pow2[k] = m * p /\ m * p \in Nat \ {0}
  <2>1. m * p \in Nat \ {0}
    OBVIOUS
  <2>2. Pow2[k] = m * p
    BY <1>1, <1>2, Zenon
  <2>3. QED
    BY <2>1, <2>2
<1>10. Number(x) \div Pow2[k] = d + q * t
  <2>1. Number(x) \in Nat
    BY VectorNumber
  <2>2. PICK v \in Int, y \in Int, w \in Nat \ {0}, z \in Int :
          /\ v = Number(x) /\ y = d + q * t /\ w = m * p /\ z = m * e + a
          /\ z \in 0..(w-1) /\ v = y * w + z
    <3>1. \A v \in Nat : v \in Int
      OBVIOUS
    <3>2. d + q * t \in Int /\ m * e + a \in Int
      OBVIOUS
    <3>3. QED
      BY <1>7, <1>8, <1>9, <2>1, <3>1, <3>2, Zenon
  <2>3. v \div w = y
    BY <2>2, TheQuotient
  <2>4. QED
    BY <1>9, <2>2, <2>3, Zenon
<1>11. (d + q * t) % 2 = d % 2
  <2>1. q * t = 2 * (hq * t)
    BY <1>3
  <2>2. \A v, w \in Int : (v + 2 * w) % 2 = v % 2
    OBVIOUS
  <2>3. hq * t \in Int
    OBVIOUS
  <2>4. QED
    BY <2>1, <2>2, <2>3
<1>12. TestBit(x, k) <=> d % 2 = 1
  BY <1>2, <1>4, <1>6 DEF TestBit
<1>13. QED
  BY <1>10, <1>11, <1>12

(* bit_length: the number needs that many bits.                            *)
LEMMA NumBitsBound ==
  ASSUME NEW x, Canonical(x)
  PROVE  /\ NumBits(x) \in Nat /\ Number(x) < Pow2[NumBits(x)]
         /\ NumBits(x) > 0 => Number(x) >= Pow2[NumBits(x) - 1]
<1>1. x \in Seq(Word) /\ Len(x) \in Nat /\ Len(x) >= 1 /\ Number(x) \in Nat
  BY VectorNumber DEF Canonical
<1>2. CASE IsZero(x)
  <2>1. NumBits(x) = 0 /\ Number(x) = 0 /\ Pow2[0] = 1
    BY <1>2, CanonicalBound, Pow2Def DEF NumBits
  <2>2. QED
    BY <2>1
<1>3. CASE ~IsZero(x)
  <2> DEFINE n == Len(x) - 1
             t == x[Len(x)]
             b == BitLength(t)
  <2>1. n \in Nat /\ n + 1 = Len(x) /\ t \in Word
    BY <1>1
  <2>2. Array(x) \in [Nat -> Word] /\ Array(x) \in [Nat -> Int] /\ Array(x)[n] = t
    <3>1. n \in 0..(Len(x)-1)
      BY <1>1
    <3>2. QED
      BY <1>1, <2>1, <3>1, VectorLimbs, VectorNumber
  <2>3. Number(x) = LimbSum(Array(x), n) + t * BPow[n]
    BY <2>1, <2>2, TermSum DEF Number
  <2>4. PICK a \in Nat, m \in Nat \ {0}, u \in Nat : a = LimbSum(Array(x), n) /\ m = BPow[n] /\ a < m /\ u = t
    <3>1. LimbSum(Array(x), n) \in Nat /\ LimbSum(Array(x), n) < BPow[n] /\ BPow[n] \in Nat \ {0}
      BY <2>1, <2>2, WordSum, BPowDef
    <3>2. t \in Nat
      BY <2>1, BaseAssumption DEF Word
    <3>3. QED
      BY <3>1, <3>2
  <2>5. u # 0
    <3> SUFFICES ASSUME u = 0 PROVE FALSE
      OBVIOUS
    <3>1. Len(x) = 1
      <4>1. ~(Len(x) > 1)
        BY <2>4 DEF Canonical
      <4>2. \A j \in Nat : j >= 1 /\ ~(j > 1) => j = 1
        OBVIOUS
      <4>3. QED
        BY <1>1, <4>1, <4>2, Zenon
    <3>2. x = <<0>>
      BY <1>1, <2>4, <3>1
    <3>3. QED
      BY <1>3, <3>2 DEF IsZero, Zero
  <2>6. b \in Nat /\ u < Pow2[b] /\ (b = 0 \/ u >= Pow2[b-1])
    BY <2>4, BitLengthBound
  <2>7. b # 0
    <3> SUFFICES ASSUME b = 0 PROVE FALSE
      OBVIOUS
    <3>1. u < 1
      BY <2>6, Pow2Def
    <3>2. QED
      BY <2>5, <3>1
  <2>8. NumBits(x) = n * W + b
    BY <1>3 DEF NumBits
  <2> HIDE DEF b, n, t
  <2>9. W * n \in Nat /\ m = Pow2[W * n] /\ W \in Nat /\ W * n = n * W
    BY <2>1, <2>4, BPowPow2, WordAssumption
  <2>10. PICK f \in Nat \ {0}, g \in Nat \ {0} : f = Pow2[b] /\ g = Pow2[b-1] /\ b - 1 \in Nat
    <3>1. b - 1 \in Nat
      BY <2>6, <2>7
    <3>2. QED
      BY <2>6, <3>1, Pow2Def
  <2>11. Pow2[NumBits(x)] = m * f /\ Pow2[NumBits(x) - 1] = m * g
    <3>1. NumBits(x) = W * n + b /\ NumBits(x) - 1 = W * n + (b - 1)
      BY <2>6, <2>8, <2>9
    <3>2. Pow2[W * n + b] = Pow2[W * n] * Pow2[b]
      BY <2>6, <2>9, Pow2Sum
    <3>3. Pow2[W * n + (b - 1)] = Pow2[W * n] * Pow2[b - 1]
      BY <2>9, <2>10, Pow2Sum
    <3>4. QED
      BY <2>9, <2>10, <3>1, <3>2, <3>3
  <2>12. Number(x) = a + u * m
    BY <2>3, <2>4
  <2>13. u + 1 <= f /\ g <= u
    BY <2>6, <2>7, <2>10
  <2>14. (u + 1) * m <= f * m /\ g * m <= u * m
    <3>1. u + 1 \in Nat
      OBVIOUS
    <3>2. QED
      BY <2>13, <3>1, TimesMono
  <2>15. (u + 1) * m = u * m + m /\ f * m = m * f /\ g * m = m * g /\ u * m \in Int /\ m * f \in Int /\ m * g \in Int
    OBVIOUS
  <2>16. Number(x) < m * f /\ Number(x) >= m * g
    BY <2>4, <2>12, <2>14, <2>15
  <2>17. NumBits(x) \in Nat
    BY <2>6, <2>8, <2>9
  <2>18. QED
    BY <2>11, <2>16, <2>17
<1>4. QED
  BY <1>2, <1>3

(* The pairs long division goes through.                                   *)
Pairs == {p \in Pair : Canonical(p.q) /\ Canonical(p.r)}

LEMMA PairOf ==
  ASSUME NEW u, NEW v, Canonical(u), Canonical(v)
  PROVE  [q |-> u, r |-> v] \in Pairs
<1>1. u \in Seq(Word) /\ v \in Seq(Word)
  BY DEF Canonical
<1>2. QED
  BY <1>1 DEF Pairs, Pair

(* A step doubles quotient * divisor + remainder and adds the next bit.    *)
LongStep(d, bit, p) == Reduced(d)[Taking(bit)[Doubled[p]]]
BitValue(bit) == IF bit THEN 1 ELSE 0

LEMMA DoubledPair ==
  ASSUME NEW p \in Pairs
  PROVE  /\ Doubled[p] \in Pairs
         /\ Number(Doubled[p].q) = 2 * Number(p.q) /\ Number(Doubled[p].r) = 2 * Number(p.r)
<1>1. p \in Pair /\ Canonical(p.q) /\ Canonical(p.r)
  BY DEF Pairs
<1>2. Doubled[p] = [q |-> Shl(p.q, 1), r |-> Shl(p.r, 1)]
  BY <1>1 DEF Doubled
<1>3. Pow2[1] = 2
  <2>1. Pow2[0+1] = 2 * Pow2[0] /\ Pow2[0] = 1
    BY Pow2Def
  <2>2. QED
    BY <2>1
<1>4. /\ Canonical(Shl(p.q, 1)) /\ Number(Shl(p.q, 1)) = Number(p.q) * 2
      /\ Canonical(Shl(p.r, 1)) /\ Number(Shl(p.r, 1)) = Number(p.r) * 2
  BY <1>1, <1>3, ShlNumbers
<1>5. Number(p.q) \in Nat /\ Number(p.r) \in Nat
  BY <1>1, CanonicalBound
<1>6. \A v \in Nat : v * 2 = 2 * v
  OBVIOUS
<1>7. Doubled[p] \in Pairs
  BY <1>2, <1>4, PairOf
<1>8. Doubled[p].q = Shl(p.q, 1) /\ Doubled[p].r = Shl(p.r, 1)
  BY <1>2
<1>9. QED
  BY <1>4, <1>5, <1>6, <1>7, <1>8

LEMMA TakingPair ==
  ASSUME NEW p \in Pairs, NEW bit \in BOOLEAN
  PROVE  /\ Taking(bit)[p] \in Pairs
         /\ Taking(bit)[p].q = p.q /\ Number(Taking(bit)[p].r) = Number(p.r) + BitValue(bit)
<1>1. p \in Pair /\ Canonical(p.q) /\ Canonical(p.r)
  BY DEF Pairs
<1>2. Number(p.r) \in Nat
  BY <1>1, CanonicalBound
<1>3. Taking(bit)[p] = IF bit THEN [p EXCEPT !.r = Add(p.r, One)] ELSE p
  BY <1>1 DEF Taking
<1>4. CASE bit
  <2>1. Taking(bit)[p] = [q |-> p.q, r |-> Add(p.r, One)]
    BY <1>1, <1>3, <1>4 DEF Pair
  <2>2. Canonical(Add(p.r, One)) /\ Number(Add(p.r, One)) = Number(p.r) + 1
    <3>1. One \in Seq(Word) /\ Number(One) = 1 /\ p.r \in Seq(Word)
      BY <1>1, ZeroNumber DEF Canonical
    <3>2. QED
      BY <3>1, AddNumbers
  <2>3. [q |-> p.q, r |-> Add(p.r, One)] \in Pairs
    BY <1>1, <2>2, PairOf
  <2>4. Taking(bit)[p].q = p.q /\ Taking(bit)[p].r = Add(p.r, One)
    BY <2>1
  <2>5. BitValue(bit) = 1
    BY <1>4 DEF BitValue
  <2>6. QED
    BY <2>1, <2>2, <2>3, <2>4, <2>5
<1>5. CASE ~bit
  <2>1. Taking(bit)[p] = p
    BY <1>3, <1>5
  <2>2. Number(p.r) = Number(p.r) + 0
    BY <1>2
  <2>3. QED
    BY <1>5, <2>1, <2>2 DEF BitValue
<1>6. QED
  BY <1>4, <1>5

LEMMA ReducedPair ==
  ASSUME NEW p \in Pairs, NEW d, Canonical(d)
  PROVE  /\ Reduced(d)[p] \in Pairs
         /\ Number(p.r) < 2 * Number(d) =>
              /\ Number(Reduced(d)[p].q) * Number(d) + Number(Reduced(d)[p].r)
                   = Number(p.q) * Number(d) + Number(p.r)
              /\ Number(Reduced(d)[p].r) < Number(d)
<1>1. p \in Pair /\ Canonical(p.q) /\ Canonical(p.r)
  BY DEF Pairs
<1>2. PICK a \in Nat, b \in Nat, c \in Nat : a = Number(p.q) /\ b = Number(p.r) /\ c = Number(d)
  BY <1>1, CanonicalBound
<1>3. Reduced(d)[p] = IF Reaches(p.r, d) THEN [q |-> Add(p.q, One), r |-> Sub(p.r, d)] ELSE p
  BY <1>1 DEF Reduced
<1>4. Reaches(p.r, d) <=> b >= c
  <2>1. Compare(p.r, d) = IF b < c THEN -1 ELSE IF b = c THEN 0 ELSE 1
    BY <1>1, <1>2, CompareNumbers
  <2>2. CASE b < c
    BY <2>1, <2>2 DEF Reaches
  <2>3. CASE ~(b < c)
    BY <2>1, <2>3 DEF Reaches
  <2>4. QED
    BY <2>2, <2>3
<1>5. CASE b >= c
  <2>1. Reduced(d)[p] = [q |-> Add(p.q, One), r |-> Sub(p.r, d)]
    BY <1>3, <1>4, <1>5
  <2>2. Canonical(Add(p.q, One)) /\ Number(Add(p.q, One)) = a + 1
    <3>1. One \in Seq(Word) /\ Number(One) = 1 /\ p.q \in Seq(Word)
      BY <1>1, ZeroNumber DEF Canonical
    <3>2. QED
      BY <1>2, <3>1, AddNumbers
  <2>3. Canonical(Sub(p.r, d)) /\ Number(Sub(p.r, d)) = b - c
    BY <1>1, <1>2, <1>5, SubNumbers
  <2>4. Reduced(d)[p] \in Pairs
    BY <2>1, <2>2, <2>3, PairOf
  <2>5. Number(Reduced(d)[p].q) = a + 1 /\ Number(Reduced(d)[p].r) = b - c
    BY <2>1, <2>2, <2>3
  <2>6. (a + 1) * c + (b - c) = a * c + b
    <3>1. (a + 1) * c = a * c + c /\ a * c \in Nat
      OBVIOUS
    <3>2. QED
      BY <3>1
  <2>7. b < 2 * c => b - c < c
    OBVIOUS
  <2>8. QED
    BY <1>2, <2>4, <2>5, <2>6, <2>7
<1>6. CASE ~(b >= c)
  BY <1>2, <1>3, <1>4, <1>6
<1>7. QED
  BY <1>5, <1>6

LEMMA LongStepPair ==
  ASSUME NEW p \in Pairs, NEW d, Canonical(d), NEW bit \in BOOLEAN
  PROVE  /\ LongStep(d, bit, p) \in Pairs
         /\ Number(p.r) < Number(d) =>
              /\ Number(LongStep(d, bit, p).q) * Number(d) + Number(LongStep(d, bit, p).r)
                   = 2 * (Number(p.q) * Number(d) + Number(p.r)) + BitValue(bit)
              /\ Number(LongStep(d, bit, p).r) < Number(d)
<1> DEFINE p1 == Doubled[p]
           p2 == Taking(bit)[p1]
           p3 == Reduced(d)[p2]
<1>1. LongStep(d, bit, p) = p3
  BY DEF LongStep
<1>2. p1 \in Pairs /\ Number(p1.q) = 2 * Number(p.q) /\ Number(p1.r) = 2 * Number(p.r)
  BY DoubledPair
<1> HIDE DEF p1
<1>3. p2 \in Pairs /\ p2.q = p1.q /\ Number(p2.r) = Number(p1.r) + BitValue(bit)
  BY <1>2, TakingPair
<1> HIDE DEF p2
<1>4. /\ p3 \in Pairs
      /\ Number(p2.r) < 2 * Number(d) =>
           /\ Number(p3.q) * Number(d) + Number(p3.r) = Number(p2.q) * Number(d) + Number(p2.r)
           /\ Number(p3.r) < Number(d)
  BY <1>3, ReducedPair
<1> HIDE DEF p3
<1>5. PICK a \in Nat, b \in Nat, c \in Nat, e \in {0, 1} :
        a = Number(p.q) /\ b = Number(p.r) /\ c = Number(d) /\ e = BitValue(bit)
  BY CanonicalBound DEF Pairs, BitValue
<1>6. Number(p2.q) = 2 * a /\ Number(p2.r) = 2 * b + e
  BY <1>2, <1>3, <1>5
<1>7. b < c => 2 * b + e < 2 * c
  OBVIOUS
<1>8. (2 * a) * c + (2 * b + e) = 2 * (a * c + b) + e
  <2>1. (2 * a) * c = 2 * (a * c) /\ 2 * (a * c + b) = 2 * (a * c) + 2 * b /\ a * c \in Nat
    OBVIOUS
  <2>2. QED
    BY <2>1
<1>9. QED
  BY <1>1, <1>4, <1>5, <1>6, <1>7, <1>8

(* The pairs of a division, by their recursion.                            *)
LEMMA DivisionRec ==
  ASSUME NEW x, NEW d, Canonical(x), Canonical(d)
  PROVE  \E after \in [Nat -> Pairs] :
           /\ after[0] = [q |-> Zero, r |-> Zero]
           /\ \A k \in Nat : after[k+1] = LongStep(d, TestBit(x, NumBits(x) - (k+1)), after[k])
           /\ DivMod(x, d) = IF Compare(x, d) < 0 THEN [q |-> Zero, r |-> x]
                             ELSE after[NumBits(x)]
<1> DEFINE bits == NumBits(x)
           start == [q |-> Zero, r |-> Zero]
           step == [k \in Nat |-> [v \in Pairs |-> LongStep(d, TestBit(x, bits - (k+1)), v)]]
           after == CHOOSE c : c = [k \in Nat |-> IF k = 0 THEN [q |-> Zero, r |-> Zero]
                       ELSE Reduced(d)[Taking(TestBit(x, bits-k))[Doubled[c[k-1]]]]]
<1>1. ASSUME NEW b, NEW v \in Pairs
      PROVE  LongStep(d, TestBit(x, b), v) \in Pairs
  <2>1. TestBit(x, b) \in BOOLEAN
    BY DEF TestBit
  <2>2. QED
    BY <2>1, LongStepPair
<1>2. step \in [Nat -> [Pairs -> Pairs]]
  BY <1>1
<1>3. start \in Pairs
  BY ZeroNumber, PairOf
<1> HIDE DEF start
<1>4. PICK g : Follows(Pairs, start, step, g)
  <2> HIDE DEF step
  <2>1. QED
    BY <1>2, <1>3, RecursionForm
<1>5. g = [k \in Nat |-> IF k = 0 THEN start ELSE LongStep(d, TestBit(x, bits-k), g[k-1])]
  <2>1. ASSUME NEW k \in Nat PROVE k # 0 => step[k-1][g[k-1]] = LongStep(d, TestBit(x, bits-k), g[k-1])
    <3> SUFFICES ASSUME k # 0 PROVE step[k-1][g[k-1]] = LongStep(d, TestBit(x, bits-k), g[k-1])
      OBVIOUS
    <3>1. k-1 \in Nat /\ (k-1)+1 = k
      OBVIOUS
    <3>2. g[k-1] \in Pairs
      BY <1>4, <3>1 DEF Follows
    <3>3. step[k-1][g[k-1]] = LongStep(d, TestBit(x, bits - ((k-1)+1)), g[k-1])
      BY <3>1, <3>2
    <3>4. QED
      BY <3>1, <3>3
  <2> HIDE DEF step, bits
  <2>2. QED
    BY <1>4, <2>1 DEF Follows
<1>6. g = [k \in Nat |-> IF k = 0 THEN [q |-> Zero, r |-> Zero]
              ELSE Reduced(d)[Taking(TestBit(x, bits-k))[Doubled[g[k-1]]]]]
  BY <1>5, Zenon DEF LongStep, start
<1>7. after = [k \in Nat |-> IF k = 0 THEN [q |-> Zero, r |-> Zero]
                  ELSE Reduced(d)[Taking(TestBit(x, bits-k))[Doubled[after[k-1]]]]]
  BY <1>6, Zenon
<1>8. DivMod(x, d) = IF Compare(x, d) < 0 THEN [q |-> Zero, r |-> x] ELSE after[NumBits(x)]
  BY DEF DivMod
<1> HIDE DEF after
<1>9. \A k \in Nat : after[k] = IF k = 0 THEN start ELSE LongStep(d, TestBit(x, bits-k), after[k-1])
  BY <1>7, Zenon DEF start, LongStep
<1>10. after[0] = start /\ \A k \in Nat : after[k+1] = LongStep(d, TestBit(x, bits - (k+1)), after[k])
  <2> HIDE DEF bits
  <2>1. after[0] = start
    BY <1>9
  <2>2. ASSUME NEW k \in Nat PROVE after[k+1] = LongStep(d, TestBit(x, bits - (k+1)), after[k])
    <3>1. k+1 \in Nat /\ k+1 # 0 /\ (k+1)-1 = k
      OBVIOUS
    <3>2. QED
      BY <3>1, <1>9
  <2>3. QED
    BY <2>1, <2>2
<1>11. after \in [Nat -> Pairs]
  <2> DEFINE P == {k \in Nat : after[k] \in Pairs}
  <2>1. 0 \in P
    BY <1>3, <1>10
  <2>2. \A k \in P : k+1 \in P
    <3> SUFFICES ASSUME NEW k \in Nat, after[k] \in Pairs PROVE after[k+1] \in Pairs
      OBVIOUS
    <3>1. QED
      BY <1>1, <1>10, Zenon
  <2>3. P = Nat
    BY <2>1, <2>2, SetInduction
  <2>4. \A k \in Nat : after[k] \in Pairs
    BY <2>3
  <2>5. after = [k \in Nat |-> after[k]]
    BY <1>7
  <2>6. QED
    BY <2>4, <2>5
<1>12. QED
  BY <1>8, <1>10, <1>11 DEF start

(* After k steps quotient and remainder are those of the k highest bits.   *)
Divides(p, x, d, k) ==
  /\ p \in Pairs
  /\ Number(p.q) * Number(d) + Number(p.r) = Number(x) \div Pow2[k]
  /\ Number(p.r) < Number(d)

LEMMA DivisionStart ==
  ASSUME NEW x, NEW d, Canonical(x), Canonical(d), Number(d) > 0
  PROVE  Divides([q |-> Zero, r |-> Zero], x, d, NumBits(x))
<1> DEFINE p == [q |-> Zero, r |-> Zero]
<1>1. p \in Pairs /\ p.q = Zero /\ p.r = Zero
  BY ZeroNumber, PairOf
<1>2. Number(Zero) = 0
  BY ZeroNumber
<1>3. Number(x) \in Nat /\ Number(d) \in Nat
  BY CanonicalBound
<1>4. Number(x) < Pow2[NumBits(x)] /\ NumBits(x) \in Nat
  BY NumBitsBound
<1>5. Number(x) \div Pow2[NumBits(x)] = 0
  BY <1>3, <1>4, NothingLeft
<1>6. 0 * Number(d) + 0 = 0
  BY <1>3
<1> HIDE DEF p
<1>7. QED
  BY <1>1, <1>2, <1>5, <1>6 DEF Divides, p

LEMMA DivisionStep ==
  ASSUME NEW x, NEW d, Canonical(x), Canonical(d), NEW k \in Nat, NEW p, Divides(p, x, d, k+1)
  PROVE  Divides(LongStep(d, TestBit(x, k), p), x, d, k)
<1> DEFINE bit == TestBit(x, k)
           p2 == LongStep(d, bit, p)
<1>1. p \in Pairs /\ Number(p.r) < Number(d)
      /\ Number(p.q) * Number(d) + Number(p.r) = Number(x) \div Pow2[k+1]
  BY DEF Divides
<1>2. bit \in BOOLEAN
  BY DEF TestBit
<1>3. bit <=> (Number(x) \div Pow2[k]) % 2 = 1
  BY BitNumber DEF Canonical
<1>4. /\ p2 \in Pairs /\ Number(p2.r) < Number(d)
      /\ Number(p2.q) * Number(d) + Number(p2.r)
           = 2 * (Number(p.q) * Number(d) + Number(p.r)) + BitValue(bit)
  BY <1>1, <1>2, LongStepPair
<1> HIDE DEF bit, p2
<1>5. Number(x) \in Nat
  BY CanonicalBound
<1>6. PICK low \in Nat, high \in Nat :
        /\ low = Number(x) \div Pow2[k] /\ high = Number(x) \div Pow2[k+1]
        /\ low = 2 * high + (low % 2) /\ low % 2 \in {0, 1}
  BY <1>5, HalfOfQuotient
<1>7. BitValue(bit) = low % 2
  BY <1>3, <1>6 DEF BitValue
<1>8. Number(p2.q) * Number(d) + Number(p2.r) = low
  BY <1>1, <1>4, <1>6, <1>7
<1>9. QED
  BY <1>4, <1>6, <1>8 DEF Divides, p2, bit

(* divmod computes the quotient and the remainder.                         *)
LEMMA DivModNumbers ==
  ASSUME NEW x, NEW d, Canonical(x), Canonical(d), Number(d) > 0
  PROVE  /\ Canonical(DivMod(x, d).q) /\ Canonical(DivMod(x, d).r)
         /\ Number(DivMod(x, d).q) = Number(x) \div Number(d)
         /\ Number(DivMod(x, d).r) = Number(x) % Number(d)
<1> DEFINE bits == NumBits(x)
<1>1. PICK after \in [Nat -> Pairs] :
        /\ after[0] = [q |-> Zero, r |-> Zero]
        /\ \A k \in Nat : after[k+1] = LongStep(d, TestBit(x, bits - (k+1)), after[k])
        /\ DivMod(x, d) = IF Compare(x, d) < 0 THEN [q |-> Zero, r |-> x] ELSE after[bits]
  BY DivisionRec
<1>2. Number(x) \in Nat /\ Number(d) \in Nat \ {0}
  BY CanonicalBound
<1>3. bits \in Nat
  BY NumBitsBound
<1> DEFINE P == {k \in Nat : k <= bits => Divides(after[k], x, d, bits - k)}
<1>4. 0 \in P
  <2>1. Divides(after[0], x, d, bits)
    BY <1>1, DivisionStart
  <2>2. bits - 0 = bits
    BY <1>3
  <2>3. QED
    BY <2>1, <2>2
<1>5. \A k \in P : k+1 \in P
  <2> SUFFICES ASSUME NEW k \in P, k+1 <= bits
               PROVE  Divides(after[k+1], x, d, bits - (k+1))
    OBVIOUS
  <2> HIDE DEF bits
  <2>1. k \in Nat
    OBVIOUS
  <2>2. k <= bits /\ bits - (k+1) \in Nat /\ bits - k = (bits - (k+1)) + 1
    BY <1>3, <2>1
  <2>3. Divides(after[k], x, d, (bits - (k+1)) + 1)
    <3>1. Divides(after[k], x, d, bits - k)
      BY <2>2
    <3>2. QED
      BY <2>2, <3>1
  <2>4. Divides(LongStep(d, TestBit(x, bits - (k+1)), after[k]), x, d, bits - (k+1))
    BY <2>2, <2>3, DivisionStep
  <2>5. QED
    BY <1>1, <2>1, <2>4
<1>6. P = Nat
  BY <1>4, <1>5, SetInduction
<1>7. Divides(after[bits], x, d, 0)
  <2> HIDE DEF bits
  <2>1. bits \in P /\ bits <= bits /\ bits - bits = 0
    BY <1>3, <1>6
  <2>2. QED
    BY <2>1
<1> HIDE DEF P
<1>8. CASE Compare(x, d) < 0
  <2>1. DivMod(x, d).q = Zero /\ DivMod(x, d).r = x
    BY <1>1, <1>8
  <2>2. Number(x) < Number(d)
    <3>1. Compare(x, d) = IF Number(x) < Number(d) THEN -1 ELSE IF Number(x) = Number(d) THEN 0 ELSE 1
      BY CompareNumbers
    <3>2. QED
      BY <1>8, <3>1
  <2>3. Number(x) = 0 * Number(d) + Number(x) /\ Number(x) \in 0..(Number(d)-1)
    BY <1>2, <2>2
  <2>4. Number(x) \div Number(d) = 0 /\ Number(x) % Number(d) = Number(x)
    BY <1>2, <2>3, TheQuotient
  <2>5. QED
    BY <2>1, <2>4, ZeroNumber
<1>9. CASE ~(Compare(x, d) < 0)
  <2>1. DivMod(x, d) = after[bits]
    BY <1>1, <1>9
  <2>2. PICK p \in Pairs : p = after[bits]
    BY <1>1, <1>3
  <2>3. /\ Canonical(p.q) /\ Canonical(p.r) /\ Number(p.r) < Number(d)
        /\ Number(p.q) * Number(d) + Number(p.r) = Number(x) \div Pow2[0]
    BY <1>7, <2>2 DEF Divides, Pairs
  <2>4. Number(x) \div Pow2[0] = Number(x)
    <3>1. Pow2[0] = 1
      BY Pow2Def
    <3>2. \A v \in Nat : v \div 1 = v
      OBVIOUS
    <3>3. QED
      BY <1>2, <3>1, <3>2
  <2>5. PICK a \in Nat, b \in Nat : a = Number(p.q) /\ b = Number(p.r)
    BY <2>3, CanonicalBound
  <2>6. b \in 0..(Number(d)-1) /\ Number(x) = a * Number(d) + b
    BY <1>2, <2>3, <2>4, <2>5
  <2>7. Number(x) \div Number(d) = a /\ Number(x) % Number(d) = b
    <3>1. Number(x) \in Int /\ a \in Int
      BY <1>2
    <3>2. QED
      BY <1>2, <2>6, <3>1, TheQuotient
  <2>8. QED
    BY <2>1, <2>2, <2>3, <2>5, <2>7
<1>10. QED
  BY <1>8, <1>9

-----------------------------------------------------------------------------
(* Signed numbers.                                                         *)

SignedOK(z) ==
  z \in [neg : BOOLEAN, mag : Seq(Word)] /\ Canonical(z.mag) /\ (z.neg => ~IsZero(z.mag))

LEMMA SignedMade ==
  ASSUME NEW n \in BOOLEAN, NEW m, Canonical(m), n => ~IsZero(m)
  PROVE  /\ SignedOK(Signed(n, m)) /\ Signed(n, m).neg = n /\ Signed(n, m).mag = m
         /\ Integer(Signed(n, m)) = IF n THEN 0 - Number(m) ELSE Number(m)
<1>1. m \in Seq(Word)
  BY DEF Canonical
<1>2. Signed(n, m).neg = n /\ Signed(n, m).mag = m
  BY DEF Signed
<1>3. Signed(n, m) \in [neg : BOOLEAN, mag : Seq(Word)]
  BY <1>1 DEF Signed
<1>4. QED
  BY <1>2, <1>3 DEF SignedOK, Integer

LEMMA SignedFacts ==
  ASSUME NEW z, SignedOK(z)
  PROVE  /\ z.neg \in BOOLEAN /\ Canonical(z.mag) /\ Number(z.mag) \in Nat /\ Integer(z) \in Int
         /\ IsZero(z.mag) <=> Number(z.mag) = 0
         /\ z.neg => Number(z.mag) > 0
         /\ z.neg => Integer(z) = 0 - Number(z.mag)
         /\ ~z.neg => Integer(z) = Number(z.mag)
<1>1. z.neg \in BOOLEAN /\ Canonical(z.mag) /\ (z.neg => ~IsZero(z.mag))
  BY DEF SignedOK
<1>2. Number(z.mag) \in Nat /\ (IsZero(z.mag) <=> Number(z.mag) = 0)
  BY <1>1, CanonicalBound
<1>3. Integer(z) = IF z.neg THEN 0 - Number(z.mag) ELSE Number(z.mag)
  BY DEF Integer
<1>4. QED
  BY <1>1, <1>2, <1>3

LEMMA SignedZero == SignedOK(SZero) /\ Integer(SZero) = 0 /\ IsZero(SZero.mag) /\ ~SZero.neg
<1>1. Canonical(Zero) /\ Number(Zero) = 0
  BY ZeroNumber
<1>2. SignedOK(Signed(FALSE, Zero)) /\ Integer(Signed(FALSE, Zero)) = 0 /\ Signed(FALSE, Zero).mag = Zero
      /\ Signed(FALSE, Zero).neg = FALSE
  BY <1>1, SignedMade
<1>3. QED
  BY <1>2 DEF SZero, IsZero

(* The sum of two signed numbers; the sum of opposite signs has the larger *)
(* magnitude's.                                                            *)
LEMMA SignedSum ==
  ASSUME NEW x, NEW y, SignedOK(x), SignedOK(y)
  PROVE  SignedOK(SAdd(x, y)) /\ Integer(SAdd(x, y)) = Integer(x) + Integer(y)
<1>1. PICK a \in Nat, b \in Nat : a = Number(x.mag) /\ b = Number(y.mag)
  BY SignedFacts
<1>2. /\ x.neg \in BOOLEAN /\ y.neg \in BOOLEAN /\ Canonical(x.mag) /\ Canonical(y.mag)
      /\ IsZero(x.mag) <=> a = 0
      /\ IsZero(y.mag) <=> b = 0
      /\ x.neg => a > 0
      /\ y.neg => b > 0
  BY <1>1, SignedFacts
<1>3. /\ x.neg => Integer(x) = 0 - a
      /\ ~x.neg => Integer(x) = a
      /\ y.neg => Integer(y) = 0 - b
      /\ ~y.neg => Integer(y) = b
  BY <1>1, SignedFacts
<1>4. Compare(x.mag, y.mag) = IF a < b THEN -1 ELSE IF a = b THEN 0 ELSE 1
  BY <1>1, <1>2, CompareNumbers
<1>5. CASE a = 0
  <2>1. SAdd(x, y) = y
    BY <1>2, <1>5 DEF SAdd
  <2>2. Integer(x) = 0 /\ Integer(y) \in Int
    BY <1>2, <1>3, <1>5
  <2>3. QED
    BY <2>1, <2>2
<1>6. CASE a # 0 /\ b = 0
  <2>1. SAdd(x, y) = x
    BY <1>2, <1>6 DEF SAdd
  <2>2. Integer(y) = 0 /\ Integer(x) \in Int
    BY <1>2, <1>3, <1>6
  <2>3. QED
    BY <2>1, <2>2
<1>7. CASE a # 0 /\ b # 0 /\ x.neg = y.neg
  <2>1. SAdd(x, y) = Signed(x.neg, Add(x.mag, y.mag))
    BY <1>2, <1>7 DEF SAdd
  <2>2. Canonical(Add(x.mag, y.mag)) /\ Number(Add(x.mag, y.mag)) = a + b
    BY <1>1, <1>2, AddNumbers DEF Canonical
  <2>3. ~IsZero(Add(x.mag, y.mag))
    BY <1>7, <2>2, CanonicalBound
  <2>4. /\ SignedOK(Signed(x.neg, Add(x.mag, y.mag)))
        /\ Integer(Signed(x.neg, Add(x.mag, y.mag)))
             = IF x.neg THEN 0 - (a + b) ELSE a + b
    BY <1>2, <2>2, <2>3, SignedMade
  <2>5. QED
    BY <1>2, <1>3, <1>7, <2>1, <2>4
<1>8. CASE a # 0 /\ b # 0 /\ x.neg # y.neg /\ a = b
  <2>1. SAdd(x, y) = SZero
    BY <1>2, <1>4, <1>8 DEF SAdd
  <2>2. QED
    BY <1>2, <1>3, <1>8, <2>1, SignedZero
<1>9. CASE a # 0 /\ b # 0 /\ x.neg # y.neg /\ a > b
  <2>1. Compare(x.mag, y.mag) = 1
    BY <1>4, <1>9
  <2>2. SAdd(x, y) = Signed(x.neg, Sub(x.mag, y.mag))
    BY <1>2, <1>9, <2>1 DEF SAdd
  <2>3. Canonical(Sub(x.mag, y.mag)) /\ Number(Sub(x.mag, y.mag)) = a - b
    BY <1>1, <1>2, <1>9, SubNumbers
  <2>4. ~IsZero(Sub(x.mag, y.mag))
    BY <1>9, <2>3, CanonicalBound
  <2>5. /\ SignedOK(Signed(x.neg, Sub(x.mag, y.mag)))
        /\ Integer(Signed(x.neg, Sub(x.mag, y.mag))) = IF x.neg THEN 0 - (a - b) ELSE a - b
    BY <1>2, <2>3, <2>4, SignedMade
  <2>6. QED
    BY <1>2, <1>3, <1>9, <2>2, <2>5
<1>10. CASE a # 0 /\ b # 0 /\ x.neg # y.neg /\ a < b
  <2>1. Compare(x.mag, y.mag) = -1 /\ ~(-1 > 0) /\ -1 # 0
    BY <1>4, <1>10
  <2>2. SAdd(x, y) = Signed(y.neg, Sub(y.mag, x.mag))
    BY <1>2, <1>10, <2>1 DEF SAdd
  <2>3. Canonical(Sub(y.mag, x.mag)) /\ Number(Sub(y.mag, x.mag)) = b - a
    BY <1>1, <1>2, <1>10, SubNumbers
  <2>4. ~IsZero(Sub(y.mag, x.mag))
    BY <1>10, <2>3, CanonicalBound
  <2>5. /\ SignedOK(Signed(y.neg, Sub(y.mag, x.mag)))
        /\ Integer(Signed(y.neg, Sub(y.mag, x.mag))) = IF y.neg THEN 0 - (b - a) ELSE b - a
    BY <1>2, <2>3, <2>4, SignedMade
  <2>6. QED
    BY <1>2, <1>3, <1>10, <2>2, <2>5
<1>11. QED
  BY <1>5, <1>6, <1>7, <1>8, <1>9, <1>10

LEMMA SignedNegated ==
  ASSUME NEW y, SignedOK(y)
  PROVE  /\ SignedOK(Negated(y)) /\ Integer(Negated(y)) = 0 - Integer(y)
         /\ Negated(y).mag = y.mag /\ (~IsZero(y.mag) => Negated(y).neg = ~y.neg)
<1>1. /\ y.neg \in BOOLEAN /\ Canonical(y.mag) /\ Number(y.mag) \in Nat
      /\ IsZero(y.mag) <=> Number(y.mag) = 0
      /\ y.neg => Number(y.mag) > 0
      /\ y.neg => Integer(y) = 0 - Number(y.mag)
      /\ ~y.neg => Integer(y) = Number(y.mag)
  BY SignedFacts
<1>2. CASE IsZero(y.mag)
  <2>1. Negated(y) = y
    BY <1>2 DEF Negated
  <2>2. Integer(y) = 0
    BY <1>1, <1>2
  <2>3. QED
    BY <1>2, <2>1, <2>2
<1>3. CASE ~IsZero(y.mag)
  <2>1. Negated(y) = Signed(~y.neg, y.mag)
    BY <1>3 DEF Negated
  <2>2. (~y.neg) \in BOOLEAN
    OBVIOUS
  <2>3. /\ SignedOK(Signed(~y.neg, y.mag)) /\ Signed(~y.neg, y.mag).neg = ~y.neg
        /\ Signed(~y.neg, y.mag).mag = y.mag
        /\ Integer(Signed(~y.neg, y.mag)) = IF ~y.neg THEN 0 - Number(y.mag) ELSE Number(y.mag)
    BY <1>1, <1>3, <2>2, SignedMade
  <2>4. Integer(Signed(~y.neg, y.mag)) = 0 - Integer(y)
    BY <1>1, <2>3
  <2>5. QED
    BY <2>1, <2>3, <2>4
<1>4. QED
  BY <1>2, <1>3

LEMMA SignedProduct ==
  ASSUME NEW x, SignedOK(x), NEW y, Canonical(y)
  PROVE  /\ SignedOK(SMul(x, y)) /\ Integer(SMul(x, y)) = Integer(x) * Number(y)
         /\ Number(SMul(x, y).mag) = Number(x.mag) * Number(y)
         /\ ~IsZero(SMul(x, y).mag) => SMul(x, y).neg = x.neg
<1>1. PICK a \in Nat, b \in Nat : a = Number(x.mag) /\ b = Number(y)
  BY SignedFacts, CanonicalBound
<1>2. /\ x.neg \in BOOLEAN /\ Canonical(x.mag)
      /\ IsZero(x.mag) <=> a = 0
      /\ IsZero(y) <=> b = 0
      /\ x.neg => Integer(x) = 0 - a
      /\ ~x.neg => Integer(x) = a
  BY <1>1, SignedFacts, CanonicalBound
<1>3. CASE a = 0 \/ b = 0
  <2>1. SMul(x, y) = SZero
    BY <1>2, <1>3 DEF SMul
  <2>2. \A u \in Int : u * b = 0 \/ ~(u = 0 \/ b = 0)
    OBVIOUS
  <2>3. Integer(x) * b = 0 /\ a * b = 0
    BY <1>2, <1>3, <2>2
  <2>4. Number(SZero.mag) = 0
    BY ZeroNumber DEF SZero, Signed
  <2>5. QED
    BY <1>1, <2>1, <2>3, <2>4, SignedZero
<1>4. CASE ~(a = 0 \/ b = 0)
  <2>1. SMul(x, y) = Signed(x.neg, Mul(x.mag, y))
    BY <1>2, <1>4 DEF SMul
  <2>2. Canonical(Mul(x.mag, y)) /\ Number(Mul(x.mag, y)) = a * b
    BY <1>1, <1>2, MulNumbers
  <2>3. a * b # 0 /\ a * b \in Nat
    BY <1>4
  <2>4. ~IsZero(Mul(x.mag, y))
    BY <2>2, <2>3, CanonicalBound
  <2>5. /\ SignedOK(Signed(x.neg, Mul(x.mag, y)))
        /\ Signed(x.neg, Mul(x.mag, y)).mag = Mul(x.mag, y)
        /\ Signed(x.neg, Mul(x.mag, y)).neg = x.neg
        /\ Integer(Signed(x.neg, Mul(x.mag, y))) = IF x.neg THEN 0 - a * b ELSE a * b
    BY <1>2, <2>2, <2>4, SignedMade
  <2>6. (0 - a) * b = 0 - a * b
    OBVIOUS
  <2>7. QED
    BY <1>1, <1>2, <2>1, <2>2, <2>5, <2>6
<1>5. QED
  BY <1>3, <1>4

-----------------------------------------------------------------------------
(* The greatest common divisor.                                            *)

Divisors(a, b) == {k \in Nat \ {0} : a % k = 0 /\ b % k = 0}

LEMMA ZeroDivided ==
  ASSUME NEW k \in Nat \ {0}
  PROVE  0 % k = 0
OBVIOUS

LEMMA GcdDivisors ==
  ASSUME NEW a \in Nat, NEW b \in Nat, ~(a = 0 /\ b = 0)
  PROVE  /\ Gcd(a, b) = Max(Divisors(a, b))
         /\ Gcd(a, b) \in Divisors(a, b) /\ \A k \in Divisors(a, b) : k <= Gcd(a, b)
<1> DEFINE m == Max({a, b})
           P == {k \in 1..m : a % k = 0 /\ b % k = 0}
<1>1. m \in Nat /\ m >= a /\ m >= b
  BY MaxPair
<1> HIDE DEF m
<1>2. \A k \in Divisors(a, b) : k <= m
  <2> SUFFICES ASSUME NEW k \in Nat \ {0}, a % k = 0, b % k = 0 PROVE k <= m
    BY DEF Divisors
  <2>1. CASE a # 0
    <3>1. k <= a
      BY <2>1, DivisorBelow
    <3>2. QED
      BY <3>1, <1>1
  <2>2. CASE b # 0
    <3>1. k <= b
      BY <2>2, DivisorBelow
    <3>2. QED
      BY <3>1, <1>1
  <2>3. QED
    BY <2>1, <2>2
<1>3. P = Divisors(a, b)
  BY <1>1, <1>2 DEF Divisors
<1>4. Gcd(a, b) = Max(P)
  BY DEF Gcd, m
<1>5. 1 \in Divisors(a, b)
  BY DEF Divisors
<1>6. Divisors(a, b) \subseteq Nat
  BY DEF Divisors
<1> HIDE DEF P
<1>7. Max(Divisors(a, b)) \in Divisors(a, b) /\ \A k \in Divisors(a, b) : k <= Max(Divisors(a, b))
  BY <1>1, <1>2, <1>5, <1>6, MaxBounded
<1>8. QED
  BY <1>3, <1>4, <1>7

LEMMA GcdSame ==
  ASSUME NEW a \in Nat, NEW b \in Nat, NEW c \in Nat, NEW d \in Nat,
         Divisors(a, b) = Divisors(c, d), a = 0 /\ b = 0 <=> c = 0 /\ d = 0
  PROVE  Gcd(a, b) = Gcd(c, d)
<1>1. CASE a = 0 /\ b = 0
  BY <1>1 DEF Gcd
<1>2. CASE ~(a = 0 /\ b = 0)
  BY <1>2, GcdDivisors
<1>3. QED
  BY <1>1, <1>2

LEMMA GcdSwapped ==
  ASSUME NEW a \in Nat, NEW b \in Nat
  PROVE  Gcd(a, b) = Gcd(b, a)
<1>1. Divisors(a, b) = Divisors(b, a)
  BY DEF Divisors
<1>2. QED
  BY <1>1, GcdSame

LEMMA GcdZero ==
  ASSUME NEW a \in Nat
  PROVE  Gcd(a, 0) = a
<1>1. CASE a = 0
  BY <1>1 DEF Gcd
<1>2. CASE a # 0
  <2>1. a \in Divisors(a, 0)
    <3>1. a \in Nat \ {0} /\ a % a = 0
      BY <1>2
    <3>2. QED
      BY <3>1, ZeroDivided DEF Divisors
  <2>2. Gcd(a, 0) \in Divisors(a, 0) /\ a <= Gcd(a, 0)
    BY <1>2, <2>1, GcdDivisors
  <2>3. Gcd(a, 0) \in Nat \ {0} /\ a % Gcd(a, 0) = 0
    BY <2>2 DEF Divisors
  <2>4. Gcd(a, 0) <= a
    BY <1>2, <2>3, DivisorBelow
  <2>5. QED
    BY <2>2, <2>3, <2>4
<1>3. QED
  BY <1>1, <1>2

(* A divisor of b divides a and a % b alike.                               *)
LEMMA ResidueDivisor ==
  ASSUME NEW a \in Nat, NEW b \in Nat \ {0}, NEW k \in Nat \ {0}, b % k = 0
  PROVE  a % k = 0 <=> (a % b) % k = 0
<1>1. PICK q \in Int, v \in 0..(b-1) : q = a \div b /\ v = a % b /\ a = v + q * b
  BY Division
<1>1a. a \in Int /\ b \in Int /\ v \in Int
  BY <1>1
<1>2. PICK t \in Int : b = t * k
  BY <1>1a, Multiple
<1>3. q * b = (q * t) * k /\ q * t \in Int
  <2>1. q * (t * k) = (q * t) * k
    OBVIOUS
  <2>2. QED
    BY <1>2, <2>1
<1>4. PICK u \in Int : u = q * t
  BY <1>3
<1>5. a = v + u * k
  BY <1>1, <1>3, <1>4
<1>6. ASSUME a % k = 0 PROVE v % k = 0
  <2>1. PICK e \in Int : a = e * k
    BY <1>1a, <1>6, Multiple
  <2>2. v = (e - u) * k /\ e - u \in Int
    BY <1>5, <2>1
  <2>3. QED
    BY <2>2, Multiple
<1>7. ASSUME v % k = 0 PROVE a % k = 0
  <2>1. PICK e \in Int : v = e * k
    BY <1>1a, <1>7, Multiple
  <2>2. a = (e + u) * k /\ e + u \in Int
    BY <1>5, <2>1
  <2>3. QED
    BY <2>2, Multiple
<1>8. QED
  BY <1>1, <1>6, <1>7

LEMMA GcdResidue ==
  ASSUME NEW a \in Nat, NEW b \in Nat \ {0}
  PROVE  Gcd(b, a % b) = Gcd(a, b) /\ Gcd(a % b, b) = Gcd(a, b)
<1>1. a % b \in Nat
  OBVIOUS
<1>2. \A k \in Nat \ {0} : b % k = 0 => (a % k = 0 <=> (a % b) % k = 0)
  BY ResidueDivisor
<1>3. Divisors(b, a % b) = Divisors(a, b)
  BY <1>2 DEF Divisors
<1>4. Gcd(b, a % b) = Gcd(a, b)
  BY <1>1, <1>3, GcdSame
<1>5. Gcd(a % b, b) = Gcd(b, a % b)
  BY <1>1, GcdSwapped
<1>6. QED
  BY <1>4, <1>5

-----------------------------------------------------------------------------
(* What the constructors make is normalised.                               *)

(* Sequences over any set.                                                 *)
LEMMA SequenceParts ==
  ASSUME NEW D, NEW u \in Seq(D)
  PROVE  /\ Len(u) \in Nat /\ DOMAIN u = 1..Len(u) /\ u \in [1..Len(u) -> D]
         /\ \A k \in 1..Len(u) : u[k] \in D
OBVIOUS

LEMMA SequenceMade ==
  ASSUME NEW D, NEW n \in Nat, NEW u \in [1..n -> D]
  PROVE  u \in Seq(D)
OBVIOUS

LEMMA SequenceTail ==
  ASSUME NEW D, NEW u \in Seq(D), Len(u) > 2
  PROVE  SubSeq(u, 3, Len(u)) \in Seq(D)
OBVIOUS

LEMMA DigitWidth ==
  /\ DigitBits \in Nat /\ Per \in Nat \ {0} /\ Pow2[DigitBits * Per] = B
  /\ X \in Nat \ {0}
<1>1. W \in Nat \ {0} /\ B = Pow2[W]
  BY WordAssumption
<1>2. Per \in Nat \ {0} /\ W % Per = 0
  BY DigitAssumption
<1>3. PICK q \in Int, v \in 0..(Per-1) : q = W \div Per /\ v = W % Per /\ W = v + q * Per
  BY <1>1, <1>2, Division
<1>4. W = q * Per
  BY <1>2, <1>3
<1>5. q \in Nat
  <2>1. ASSUME q < 0 PROVE FALSE
    <3>1. q * Per <= 0
      BY <1>2, <2>1
    <3>2. QED
      BY <1>1, <1>4, <3>1
  <2>2. QED
    BY <2>1
<1>6. DigitBits = q
  BY <1>3 DEF DigitBits
<1>7. X \in Nat \ {0}
  BY <1>5, <1>6, Pow2Def DEF X
<1>8. QED
  BY <1>1, <1>2, <1>4, <1>5, <1>6, <1>7

LEMMA DigitsMade ==
  ASSUME NEW ds \in Seq(0..(X-1))
  PROVE  Canonical(FromDigits(ds))
<1> DEFINE words == Max({1, CeilDiv(Len(ds), Per)})
           digit(p) == IF p < Len(ds) THEN ds[Len(ds) - p] ELSE 0
           row(k) == [p \in Nat |-> digit((k-1) * Per + p)]
           x == [k \in 1..words |-> Joined(row(k), DigitBits, Per)]
<1>1. /\ DigitBits \in Nat /\ Per \in Nat \ {0} /\ Pow2[DigitBits * Per] = B
      /\ X \in Nat \ {0} /\ X = Pow2[DigitBits]
  BY DigitWidth DEF X
<1>2. Len(ds) \in Nat /\ \A k \in 1..Len(ds) : ds[k] \in 0..(X-1)
  BY SequenceParts
<1>3. words \in Nat
  <2>1. CeilDiv(Len(ds), Per) \in Nat
    <3>1. \A n \in Nat, p \in Nat \ {0} : n + p - 1 \in Nat /\ (n + p - 1) \div p \in Nat
      OBVIOUS
    <3>2. QED
      BY <1>1, <1>2, <3>1 DEF CeilDiv
  <2>2. QED
    BY <2>1, MaxPair
<1> HIDE DEF words
<1>4. \A p \in Nat : digit(p) \in 0..(X-1)
  <2> SUFFICES ASSUME NEW p \in Nat PROVE digit(p) \in 0..(X-1)
    OBVIOUS
  <2>1. CASE p < Len(ds)
    <3>1. Len(ds) - p \in 1..Len(ds)
      BY <1>2, <2>1
    <3>2. QED
      BY <1>2, <2>1, <3>1
  <2>2. CASE ~(p < Len(ds))
    BY <1>1, <2>2
  <2>3. QED
    BY <2>1, <2>2
<1> HIDE DEF digit
<1>5. ASSUME NEW k \in 1..words PROVE Joined(row(k), DigitBits, Per) \in Word
  <2>1. \A p \in Nat : (k-1) * Per + p \in Nat
    BY <1>1, <1>3
  <2>2. row(k) \in DigitArrays(DigitBits)
    BY <1>1, <1>4, <2>1 DEF DigitArrays
  <2> HIDE DEF row
  <2>3. Joined(row(k), DigitBits, Per) \in 0..(Pow2[DigitBits * Per] - 1)
    BY <1>1, <2>2, JoinedBound
  <2>4. QED
    BY <1>1, <2>3 DEF Word
<1>6. x \in [1..words -> Word]
  BY <1>5
<1>7. x \in Seq(Word)
  <2> HIDE DEF x
  <2>1. QED
    BY <1>3, <1>6
<1>8. FromDigits(ds) = Normal(x)
  BY DEF FromDigits, words, digit
<1> HIDE DEF x
<1>9. QED
  BY <1>7, <1>8, NormalVector

LEMMA TextMade ==
  ASSUME NEW t \in Seq(0..X), FromHex(t) # <<>>
  PROVE  Canonical(FromHex(t))
<1>1. X \in Nat \ {0}
  BY DigitWidth
<1>2. Stripped(t) \in Seq(0..X)
  <2>1. Len(t) > 2 => SubSeq(t, 3, Len(t)) \in Seq(0..X)
    BY SequenceTail
  <2>2. QED
    BY <2>1 DEF Stripped
<1> DEFINE u == Stripped(t)
<1> HIDE DEF u
<1>3. u \in Seq(0..X)
  BY <1>2 DEF u
<1>4. FromHex(t) = FromDigits(u) /\ \A k \in DOMAIN u : u[k] # X
  BY DEF FromHex, u
<1>5. u \in Seq(0..(X-1))
  <2>1. /\ Len(u) \in Nat /\ DOMAIN u = 1..Len(u) /\ u \in [1..Len(u) -> 0..X]
        /\ \A k \in 1..Len(u) : u[k] \in 0..X
    BY <1>3, SequenceParts
  <2>2. \A k \in 1..Len(u) : u[k] \in 0..(X-1)
    BY <1>1, <1>4, <2>1
  <2>3. u \in [1..Len(u) -> 0..(X-1)]
    BY <2>1, <2>2
  <2>4. QED
    BY <2>1, <2>3, SequenceMade
<1>6. QED
  BY <1>4, <1>5, DigitsMade

-----------------------------------------------------------------------------
(* The registers.                                                          *)

LEMMA NormalisedCanonical ==
  ASSUME NEW x, Normalised(x)
  PROVE  Canonical(x) /\ x \in Seq(Word) /\ Number(x) \in Nat
<1>1. Canonical(x)
  BY DEF Normalised, Canonical
<1>2. QED
  BY <1>1, CanonicalBound DEF Canonical

LEMMA FewLimbs ==
  ASSUME NEW x, Canonical(x), Number(x) < Limit
  PROVE  Normalised(x)
<1>1. x \in Seq(Word) /\ Len(x) \in Nat /\ Len(x) >= 1 /\ (Len(x) > 1 => x[Len(x)] # 0)
  BY DEF Canonical
<1>2. Number(x) \in Nat /\ Limit \in Nat /\ Limit <= BPow[S] /\ BPow[S] \in Nat
  BY CanonicalBound, MachineAssumption, BPowDef, SizeAssumption
<1>3. Number(x) < BPow[S]
  BY <1>2
<1>4. Len(x) <= S
  <2> SUFFICES ASSUME ~(Len(x) <= S) PROVE FALSE
    OBVIOUS
  <2>1. S \in Nat /\ Len(x) - 1 \in Nat /\ S <= Len(x) - 1 /\ Len(x) > 1
    BY <1>1, SizeAssumption
  <2>2. Number(x) >= BPow[Len(x) - 1]
    BY <2>1, CanonicalBound
  <2>3. BPow[S] <= BPow[Len(x) - 1] /\ BPow[Len(x) - 1] \in Nat
    BY <2>1, BPowGrows
  <2>4. QED
    BY <1>2, <1>3, <2>2, <2>3
<1>5. Len(x) \in 1..S
  BY <1>1, <1>4, SizeAssumption
<1>6. QED
  BY <1>1, <1>5 DEF Normalised

RegsInv == reg \in [Regs -> Seq(Word)] /\ \A x \in Regs : Normalised(reg[x]) /\ Fits(reg[x])

LEMMA RegisterFacts ==
  ASSUME RegsInv, NEW x \in Regs
  PROVE  /\ Canonical(reg[x]) /\ reg[x] \in Seq(Word) /\ Number(reg[x]) \in Nat
         /\ Number(reg[x]) < Limit
<1>1. Normalised(reg[x]) /\ Fits(reg[x])
  BY DEF RegsInv
<1>2. QED
  BY <1>1, NormalisedCanonical DEF Fits

(* An assignment to a variable.                                            *)
LEMMA AssignedRegs ==
  ASSUME RegsInv, NEW d \in Regs, NEW v, Canonical(v), Number(v) < Limit,
         reg' = [reg EXCEPT ![d] = v]
  PROVE  RegsInv' /\ reg'[d] = v /\ \A x \in Regs \ {d} : reg'[x] = reg[x]
<1>1. reg \in [Regs -> Seq(Word)] /\ \A x \in Regs : Normalised(reg[x]) /\ Fits(reg[x])
  BY DEF RegsInv
<1>2. Normalised(v) /\ Fits(v) /\ v \in Seq(Word)
  BY FewLimbs DEF Fits, Canonical
<1>3. reg' \in [Regs -> Seq(Word)] /\ reg'[d] = v /\ \A x \in Regs \ {d} : reg'[x] = reg[x]
  BY <1>1, <1>2
<1>4. \A x \in Regs : Normalised(reg'[x]) /\ Fits(reg'[x])
  BY <1>1, <1>2, <1>3
<1>5. RegsInv'
  BY <1>3, <1>4 DEF RegsInv, Normalised, Fits
<1>6. QED
  BY <1>3, <1>5

LEMMA StoreRegs ==
  ASSUME RegsInv, NEW d \in Regs, NEW v, Canonical(v), Store(d, v)
  PROVE  /\ RegsInv' /\ thrown' = FALSE
         /\ reg'[d] = v /\ \A x \in Regs \ {d} : reg'[x] = reg[x]
<1>1. Fits(v) /\ reg' = [reg EXCEPT ![d] = v] /\ thrown' = FALSE
  BY DEF Store
<1>2. Number(v) < Limit
  BY <1>1 DEF Fits
<1>3. QED
  BY <1>1, <1>2, AssignedRegs

LEMMA SameRegs ==
  ASSUME RegsInv, reg' = reg
  PROVE  RegsInv'
BY DEF RegsInv, Normalised, Fits

(* An operation that leaves the loops alone.                               *)
LEMMA IdleStep ==
  ASSUME IInv, Idle, RegsInv', thrown' \in BOOLEAN
  PROVE  IInv'
<1>1. pc' = "idle" /\ pc = "idle" /\ call' = call /\ old_r' = old_r /\ r' = r /\ old_s' = old_s /\ s' = s
  BY DEF Idle, locals
<1>2. TypeOK'
  BY <1>1 DEF IInv, TypeOK, RegsInv, Normalised, IsZero
<1>3. EuclidInv' /\ CoefficientInv'
  BY <1>1 DEF EuclidInv, CoefficientInv
<1>4. (\A x \in Regs : Fits(reg[x]))'
  BY DEF RegsInv
<1>5. QED
  BY <1>1, <1>2, <1>3, <1>4 DEF IInv

LEMMA InvRegs == IInv => RegsInv
BY DEF IInv, TypeOK, RegsInv

LEMMA StoreStep ==
  ASSUME IInv, Idle, NEW d \in Regs, NEW v, Canonical(v), Store(d, v)
  PROVE  IInv'
<1>1. RegsInv' /\ thrown' = FALSE
  BY InvRegs, StoreRegs
<1>2. QED
  BY <1>1, IdleStep

LEMMA ThrowStep ==
  ASSUME IInv, Idle, Throw
  PROVE  IInv'
<1>1. reg' = reg /\ thrown' = TRUE
  BY DEF Throw
<1>2. RegsInv'
  BY <1>1, InvRegs, SameRegs
<1>3. QED
  BY <1>1, <1>2, IdleStep

(* The operations that make a number of given limbs or text.               *)
LEMMA MakingStep ==
  ASSUME IInv, NEW d \in Regs,
         \/ \E v \in Vectors : Adopt(d, v)
         \/ \E t \in Texts : ParseHex(d, t) \/ ReadBytes(d, t)
  PROVE  IInv'
<1>1. Vectors \subseteq Seq(Word) /\ Texts \subseteq Seq(0..X)
  BY MachineAssumption
<1>2. ASSUME NEW v \in Vectors, Adopt(d, v) PROVE IInv'
  <2>1. Canonical(Normal(v))
    BY <1>1, NormalVector
  <2>2. QED
    BY <1>2, <2>1, StoreStep DEF Adopt
<1>3. ASSUME NEW t \in Texts, ParseHex(d, t) PROVE IInv'
  <2>1. t \in Seq(0..X)
    BY <1>1
  <2>2. CASE FromHex(t) = <<>>
    BY <1>3, <2>2, ThrowStep DEF ParseHex
  <2>3. CASE FromHex(t) # <<>>
    <3>1. Canonical(FromHex(t))
      BY <2>1, <2>3, TextMade
    <3>2. QED
      BY <1>3, <2>3, <3>1, StoreStep DEF ParseHex
  <2>4. QED
    BY <2>2, <2>3
<1>4. ASSUME NEW t \in Texts, ReadBytes(d, t) PROVE IInv'
  <2>1. t \in Seq(0..X) /\ X \in Nat
    BY <1>1, DigitWidth
  <2>2. /\ Len(t) \in Nat /\ DOMAIN t = 1..Len(t) /\ t \in [1..Len(t) -> 0..X]
        /\ \A k \in 1..Len(t) : t[k] \in 0..X
    BY <2>1, SequenceParts
  <2>3. \A k \in 1..Len(t) : t[k] # X
    BY <1>4, <2>2 DEF ReadBytes, Range
  <2>4. \A k \in 1..Len(t) : t[k] \in 0..(X-1)
    BY <2>1, <2>2, <2>3
  <2>5. t \in [1..Len(t) -> 0..(X-1)]
    BY <2>2, <2>4
  <2>6. t \in Seq(0..(X-1))
    BY <2>2, <2>5, SequenceMade
  <2>7. Canonical(FromDigits(t))
    BY <2>6, DigitsMade
  <2>8. QED
    BY <1>4, <2>7, StoreStep DEF ReadBytes
<1>5. QED
  BY <1>2, <1>3, <1>4

LEMMA SumStep ==
  ASSUME IInv, NEW d \in Regs, NEW a \in Regs, NEW b \in Regs,
         AddTo(d, a, b) \/ SubTo(d, a, b) \/ MulTo(d, a, b)
  PROVE  IInv'
<1>1. /\ Canonical(reg[a]) /\ Canonical(reg[b])
      /\ reg[a] \in Seq(Word) /\ reg[b] \in Seq(Word)
  BY InvRegs, RegisterFacts
<1>2. Canonical(Add(reg[a], reg[b])) /\ Canonical(Mul(reg[a], reg[b]))
  BY <1>1, AddNumbers, MulNumbers
<1>3. CASE AddTo(d, a, b)
  BY <1>2, <1>3, StoreStep DEF AddTo
<1>4. CASE MulTo(d, a, b)
  BY <1>2, <1>4, StoreStep DEF MulTo
<1>5. CASE SubTo(d, a, b)
  <2>1. CASE Compare(reg[a], reg[b]) < 0
    BY <1>5, <2>1, ThrowStep DEF SubTo
  <2>2. CASE ~(Compare(reg[a], reg[b]) < 0)
    <3>1. Number(reg[a]) >= Number(reg[b])
      <4>1. Number(reg[a]) \in Nat /\ Number(reg[b]) \in Nat
        BY InvRegs, RegisterFacts
      <4>2. Number(reg[a]) < Number(reg[b]) => Compare(reg[a], reg[b]) = -1
        BY <1>1, CompareNumbers
      <4>3. QED
        BY <2>2, <4>1, <4>2
    <3>2. Canonical(Sub(reg[a], reg[b]))
      BY <1>1, <3>1, SubNumbers
    <3>3. QED
      BY <1>5, <2>2, <3>2, StoreStep DEF SubTo
  <2>3. QED
    BY <2>1, <2>2
<1>6. QED
  BY <1>3, <1>4, <1>5

LEMMA DividingStep ==
  ASSUME IInv, NEW d \in Regs, NEW a \in Regs, NEW b \in Regs,
         DivTo(d, a, b) \/ ModTo(d, a, b)
  PROVE  IInv'
<1>1. Canonical(reg[a]) /\ Canonical(reg[b]) /\ Number(reg[b]) \in Nat
  BY InvRegs, RegisterFacts
<1>2. CASE IsZero(reg[b])
  BY <1>2, ThrowStep DEF DivTo, ModTo
<1>3. CASE ~IsZero(reg[b])
  <2>1. Number(reg[b]) > 0
    BY <1>1, <1>3, CanonicalBound
  <2>2. Canonical(DivMod(reg[a], reg[b]).q) /\ Canonical(DivMod(reg[a], reg[b]).r)
    BY <1>1, <2>1, DivModNumbers
  <2>3. QED
    BY <1>3, <2>2, StoreStep DEF DivTo, ModTo
<1>4. QED
  BY <1>2, <1>3

LEMMA ShiftStepInv ==
  ASSUME IInv, NEW d \in Regs, NEW a \in Regs, NEW k \in Shifts, ShlTo(d, a, k) \/ ShrTo(d, a, k)
  PROVE  IInv'
<1>1. Canonical(reg[a]) /\ k \in Nat
  BY InvRegs, RegisterFacts, MachineAssumption
<1>2. Canonical(Shl(reg[a], k)) /\ Canonical(Shr(reg[a], k))
  BY <1>1, ShlNumbers, ShrNumbers
<1>3. QED
  BY <1>2, StoreStep DEF ShlTo, ShrTo

(* Quotients and remainders fit where the dividend does.                   *)
LEMMA DivisionFits ==
  ASSUME NEW x, NEW y, Canonical(x), Canonical(y), Number(y) > 0
  PROVE  Number(DivMod(x, y).q) <= Number(x) /\ Number(DivMod(x, y).r) <= Number(x)
<1>1. PICK a \in Nat, b \in Nat : a = Number(x) /\ b = Number(y)
  BY CanonicalBound
<1>2. b \in Nat \ {0}
  BY <1>1
<1>3. PICK q \in Int, v \in 0..(b-1) : q = a \div b /\ v = a % b /\ a = v + q * b
  BY <1>2, Division
<1>4. q \in Nat
  <2>1. ASSUME q <= 0 - 1 PROVE FALSE
    <3>1. q * b <= 0 - b
      BY <1>2, <2>1
    <3>2. QED
      BY <1>2, <1>3, <3>1
  <2>2. QED
    BY <2>1
<1>5. q <= q * b /\ q * b \in Nat
  BY <1>2, <1>4
<1>6. q <= a /\ v <= a
  BY <1>3, <1>4, <1>5
<1>7. Number(DivMod(x, y).q) = q /\ Number(DivMod(x, y).r) = v
  BY <1>1, <1>3, DivModNumbers
<1>8. QED
  BY <1>1, <1>6, <1>7

LEMMA DivModStep ==
  ASSUME IInv, NEW q \in Regs, NEW e \in Regs, NEW a \in Regs, NEW b \in Regs, DivModTo(q, e, a, b)
  PROVE  IInv'
<1>1. /\ RegsInv /\ Canonical(reg[a]) /\ Canonical(reg[b]) /\ Number(reg[b]) \in Nat
      /\ Number(reg[a]) \in Nat /\ Number(reg[a]) < Limit
  BY InvRegs, RegisterFacts
<1>2. CASE IsZero(reg[b])
  BY <1>2, ThrowStep DEF DivModTo
<1>3. CASE ~IsZero(reg[b])
  <2>1. Number(reg[b]) > 0
    BY <1>1, <1>3, CanonicalBound
  <2>2. Idle /\ thrown' = FALSE /\ reg' = DivModInto(reg, a, b, q, e)
    BY <1>3 DEF DivModTo
  <2>3. Canonical(Zero) /\ Number(Zero) < Limit
    BY <1>1, ZeroNumber, MachineAssumption
  <2>4. PICK u, v : /\ Canonical(u) /\ Number(u) < Limit /\ Canonical(v) /\ Number(v) < Limit
                    /\ reg' = Assigned(reg, q, e, u, v)
    <3>1. CASE Compare(reg[a], reg[b]) < 0
      <4>1. CASE q = a
        <5>1. reg' = Assigned(reg, q, e, Zero, Zero)
          BY <2>2, <3>1, <4>1 DEF DivModInto
        <5>2. QED
          BY <2>3, <5>1
      <4>2. CASE q # a
        <5>1. reg' = Assigned(reg, q, e, Zero, reg[a])
          BY <2>2, <3>1, <4>2 DEF DivModInto
        <5>2. QED
          BY <1>1, <2>3, <5>1
      <4>3. QED
        BY <4>1, <4>2
    <3>2. CASE ~(Compare(reg[a], reg[b]) < 0)
      <4> DEFINE u0 == DivMod(reg[a], reg[b]).q
                 v0 == DivMod(reg[a], reg[b]).r
      <4>1. reg' = Assigned(reg, q, e, u0, v0)
        BY <2>2, <3>2 DEF DivModInto
      <4>2. Canonical(u0) /\ Canonical(v0)
        BY <1>1, <2>1, DivModNumbers
      <4>3. Number(u0) <= Number(reg[a]) /\ Number(v0) <= Number(reg[a])
        BY <1>1, <2>1, DivisionFits
      <4> HIDE DEF u0, v0
      <4>4. Number(u0) < Limit /\ Number(v0) < Limit
        <5>1. Number(u0) \in Nat /\ Number(v0) \in Nat /\ Limit \in Nat
          BY <4>2, CanonicalBound, MachineAssumption
        <5>2. QED
          BY <1>1, <4>3, <5>1
      <4>5. QED
        BY <4>1, <4>2, <4>4
    <3>3. QED
      BY <3>1, <3>2
  <2>5. RegsInv'
    <3>1. reg \in [Regs -> Seq(Word)] /\ \A x \in Regs : Normalised(reg[x]) /\ Fits(reg[x])
      BY <1>1 DEF RegsInv
    <3>2. Normalised(u) /\ Fits(u) /\ u \in Seq(Word) /\ Normalised(v) /\ Fits(v) /\ v \in Seq(Word)
      BY <2>4, FewLimbs DEF Fits, Canonical
    <3>3. /\ reg' \in [Regs -> Seq(Word)]
          /\ \A x \in Regs : reg'[x] = IF x = e THEN v ELSE IF x = q THEN u ELSE reg[x]
      BY <2>4, <3>1, <3>2 DEF Assigned
    <3>4. \A x \in Regs : Normalised(reg'[x]) /\ Fits(reg'[x])
      BY <3>1, <3>2, <3>3
    <3>5. QED
      BY <3>3, <3>4 DEF RegsInv, Normalised, Fits
  <2>6. QED
    BY <2>2, <2>5, IdleStep
<1>4. QED
  BY <1>2, <1>3

-----------------------------------------------------------------------------
(* The loop of gcd.                                                        *)

CallInv == call \in Calls

LEMMA OperandFacts ==
  ASSUME RegsInv, CallInv
  PROVE  /\ Operand("a") = Number(reg[call.a]) /\ Operand("b") = Number(reg[call.b])
         /\ Operand("a") \in Nat /\ Operand("b") \in Nat /\ Operand("b") < Limit
         /\ call.a \in Regs /\ call.b \in Regs /\ call.d \in Regs
         /\ Canonical(reg[call.a]) /\ Canonical(reg[call.b])
<1>1. call.a \in Regs /\ call.b \in Regs /\ call.d \in Regs
  BY DEF CallInv, Calls
<1>2. Operand("a") = Number(reg[call.a]) /\ Operand("b") = Number(reg[call.b])
  BY DEF Operand
<1>3. /\ Canonical(reg[call.a]) /\ Canonical(reg[call.b])
      /\ Number(reg[call.a]) \in Nat /\ Number(reg[call.b]) \in Nat /\ Number(reg[call.b]) < Limit
  BY <1>1, RegisterFacts
<1>4. QED
  BY <1>1, <1>2, <1>3

(* The remainders of a loop, and the coefficients.                         *)
RemaindersInv ==
  /\ Normalised(old_r) /\ Normalised(r)
  /\ pc # "idle" => Fits(old_r) /\ Fits(r)
  /\ pc # "idle" => Gcd(Number(old_r), Number(r)) = Gcd(Operand("a"), Operand("b"))
SignedInv ==
  \A z \in {old_s, s} : SignedOK(z) /\ Normalised(z.mag)
BezoutInv ==
  pc = "inverse" =>
    \A pair \in {<<old_s, old_r>>, <<s, r>>} :
      /\ (Integer(pair[1]) * Operand("a") - Number(pair[2])) % Operand("b") = 0
      /\ Number(pair[1].mag) <= Operand("b")
ControlInv == thrown \in BOOLEAN /\ pc \in {"idle", "gcd", "inverse"}

LEMMA InvParts ==
  IInv <=> RegsInv /\ CallInv /\ ControlInv /\ RemaindersInv /\ SignedInv /\ BezoutInv /\ CoefficientInv
<1>1. ASSUME NEW z, Normalised(z.mag)
      PROVE  SignedOK(z) <=> z \in [neg : BOOLEAN, mag : Seq(Word)] /\ (z.neg => ~IsZero(z.mag))
  BY <1>1, NormalisedCanonical DEF SignedOK
<1>2. SignedInv <=> \A z \in {old_s, s} : /\ z \in [neg : BOOLEAN, mag : Seq(Word)]
                                          /\ Normalised(z.mag) /\ (z.neg => ~IsZero(z.mag))
  BY <1>1, Zenon DEF SignedInv
<1>3. TypeOK <=> /\ reg \in [Regs -> Seq(Word)] /\ \A x \in Regs : Normalised(reg[x])
                 /\ ControlInv /\ CallInv /\ Normalised(old_r) /\ Normalised(r) /\ SignedInv
  BY <1>2, Zenon DEF TypeOK, ControlInv, CallInv
<1>4. EuclidInv <=> /\ pc # "idle" => Gcd(Number(old_r), Number(r)) = Gcd(Operand("a"), Operand("b"))
                    /\ BezoutInv
  BY Zenon DEF EuclidInv, BezoutInv
<1>5. QED
  BY <1>3, <1>4, Zenon DEF IInv, RegsInv, RemaindersInv

LEMMA InvPartsNext ==
  (RegsInv /\ CallInv /\ ControlInv /\ RemaindersInv /\ SignedInv /\ BezoutInv /\ CoefficientInv)'
  => IInv'
BY InvParts, PTL

(* A state like the present one in registers and coefficients.             *)
LEMMA SameSigned ==
  ASSUME SignedInv, old_s' = old_s, s' = s
  PROVE  SignedInv'
BY DEF SignedInv, SignedOK, Normalised, Canonical, IsZero

LEMMA LimbsOfRemainder ==
  ASSUME NEW x, NEW y, Canonical(x), Canonical(y), Number(y) > 0, Number(y) < Limit
  PROVE  /\ Canonical(DivMod(x, y).r) /\ Number(DivMod(x, y).r) = Number(x) % Number(y)
         /\ Number(DivMod(x, y).r) < Number(y) /\ Number(DivMod(x, y).r) < Limit
<1>1. Canonical(DivMod(x, y).r) /\ Number(DivMod(x, y).r) = Number(x) % Number(y)
  BY DivModNumbers
<1>2. Number(x) \in Int /\ Number(y) \in Nat \ {0} /\ Limit \in Nat
  BY CanonicalBound, MachineAssumption
<1>3. \A u \in Int, v \in Nat \ {0} : u % v \in Nat /\ u % v < v
  OBVIOUS
<1>4. Number(x) % Number(y) \in Nat /\ Number(x) % Number(y) < Number(y)
  BY <1>2, <1>3
<1>5. QED
  BY <1>1, <1>2, <1>4

LEMMA EnterGcdStep ==
  ASSUME IInv, NEW c \in Calls, EnterGcd(c)
  PROVE  IInv'
<1>1. /\ pc' = "gcd" /\ call' = c /\ old_r' = reg[c.a] /\ r' = reg[c.b] /\ thrown' = FALSE
      /\ reg' = reg /\ old_s' = old_s /\ s' = s
  BY DEF EnterGcd
<1>2. RegsInv /\ SignedInv
  BY InvParts
<1>3. RegsInv' /\ CallInv' /\ ControlInv' /\ SignedInv'
  BY <1>1, <1>2, SameRegs, SameSigned DEF CallInv, ControlInv
<1>4. c.a \in Regs /\ c.b \in Regs
  BY DEF Calls
<1>5. Normalised(reg[c.a]) /\ Fits(reg[c.a]) /\ Normalised(reg[c.b]) /\ Fits(reg[c.b])
  BY <1>2, <1>4 DEF RegsInv
<1>6. RemaindersInv'
  <2>1. Operand("a")' = Number(reg[c.a]) /\ Operand("b")' = Number(reg[c.b])
    BY <1>1 DEF Operand
  <2>2. (Normalised(old_r) /\ Normalised(r) /\ Fits(old_r) /\ Fits(r))'
    BY <1>1, <1>5 DEF Normalised, Fits
  <2>3. (Gcd(Number(old_r), Number(r)) = Gcd(Operand("a"), Operand("b")))'
    BY <1>1, <2>1
  <2>4. QED
    BY <2>2, <2>3 DEF RemaindersInv
<1>7. BezoutInv' /\ CoefficientInv'
  BY <1>1 DEF BezoutInv, CoefficientInv
<1>8. QED
  BY <1>3, <1>6, <1>7, InvPartsNext

(* What a division does to the remainders, in gcd and in mod_inverse.      *)
LEMMA RemaindersStep ==
  ASSUME IInv, pc # "idle", ~IsZero(r), old_r' = r, r' = DivMod(old_r, r).r,
         reg' = reg, pc' = pc, call' = call
  PROVE  /\ RemaindersInv'
         /\ Canonical(DivMod(old_r, r).q) /\ Canonical(DivMod(old_r, r).r)
         /\ Number(old_r) \in Nat /\ Number(r) \in Nat \ {0}
         /\ Number(DivMod(old_r, r).q) \in Nat /\ Number(DivMod(old_r, r).r) \in Nat
         /\ Number(old_r) = Number(DivMod(old_r, r).q) * Number(r) + Number(DivMod(old_r, r).r)
<1>1. /\ Normalised(old_r) /\ Normalised(r) /\ Fits(old_r) /\ Fits(r)
      /\ Gcd(Number(old_r), Number(r)) = Gcd(Operand("a"), Operand("b"))
  BY InvParts DEF RemaindersInv
<1>2. Canonical(old_r) /\ Canonical(r) /\ Number(old_r) \in Nat /\ Number(r) \in Nat
  BY <1>1, NormalisedCanonical
<1>3. Number(r) \in Nat \ {0} /\ Number(r) > 0 /\ Number(r) < Limit
  BY <1>1, <1>2, CanonicalBound DEF Fits
<1>4. PICK q, v : q = DivMod(old_r, r).q /\ v = DivMod(old_r, r).r
  OBVIOUS
<1>5. /\ Canonical(v) /\ Number(v) = Number(old_r) % Number(r) /\ Number(v) < Limit
  BY <1>2, <1>3, <1>4, LimbsOfRemainder
<1>6. Canonical(q) /\ Number(q) = Number(old_r) \div Number(r)
  BY <1>2, <1>3, <1>4, DivModNumbers
<1>7. Number(q) \in Nat /\ Number(v) \in Nat
  BY <1>5, <1>6, CanonicalBound
<1>8. Number(old_r) = Number(q) * Number(r) + Number(v)
  <2>1. PICK a \in Int, b \in Nat \ {0} : a = Number(old_r) /\ b = Number(r)
    BY <1>2, <1>3
  <2>2. PICK k \in Int, w \in 0..(b-1) : k = a \div b /\ w = a % b /\ a = w + k * b
    BY <2>1, Division
  <2>3. Number(q) = k /\ Number(v) = w
    BY <1>5, <1>6, <2>1, <2>2
  <2>4. k * b + w = w + k * b
    BY <2>1, <2>2
  <2>5. QED
    BY <2>1, <2>2, <2>3, <2>4
<1>9. RemaindersInv'
  <2>1. Normalised(v) /\ Fits(v)
    BY <1>5, FewLimbs DEF Fits
  <2>2. (Normalised(old_r) /\ Normalised(r) /\ Fits(old_r) /\ Fits(r))'
    BY <1>1, <1>4, <2>1 DEF Normalised, Fits
  <2>3. Gcd(Number(r), Number(v)) = Gcd(Number(old_r), Number(r))
    BY <1>2, <1>3, <1>5, GcdResidue
  <2>4. Operand("a")' = Operand("a") /\ Operand("b")' = Operand("b")
    BY DEF Operand
  <2>5. (Gcd(Number(old_r), Number(r)) = Gcd(Operand("a"), Operand("b")))'
    BY <1>1, <1>4, <2>3, <2>4
  <2>6. QED
    BY <2>2, <2>5 DEF RemaindersInv
<1>10. QED
  BY <1>2, <1>3, <1>4, <1>5, <1>6, <1>7, <1>8, <1>9

LEMMA GcdStepInv ==
  ASSUME IInv, GcdStep
  PROVE  IInv'
<1>1. /\ pc = "gcd" /\ ~IsZero(r) /\ old_r' = r /\ r' = DivMod(old_r, r).r
      /\ reg' = reg /\ thrown' = thrown /\ pc' = pc /\ call' = call /\ old_s' = old_s /\ s' = s
  BY DEF GcdStep
<1>2. RegsInv' /\ CallInv' /\ ControlInv' /\ SignedInv'
  BY <1>1, InvParts, SameRegs, SameSigned DEF CallInv, ControlInv
<1>3. RemaindersInv'
  BY <1>1, RemaindersStep
<1>4. BezoutInv' /\ CoefficientInv'
  BY <1>1 DEF BezoutInv, CoefficientInv
<1>5. QED
  BY <1>2, <1>3, <1>4, InvPartsNext

(* A loop that returns.                                                    *)
LEMMA LeaveStep ==
  ASSUME RegsInv', thrown' \in BOOLEAN, Leave
  PROVE  IInv'
<1>1. /\ pc' = "idle" /\ call' = NoCall
      /\ old_r' = Zero /\ r' = Zero /\ old_s' = SZero /\ s' = SZero
  BY DEF Leave
<1>2. NoCall \in Calls
  <2>1. PICK x \in Regs : TRUE
    BY MachineAssumption
  <2>2. [d |-> x, a |-> x, b |-> x] \in Calls
    BY DEF Calls
  <2>3. QED
    BY <2>2 DEF NoCall
<1>3. Normalised(Zero)
  BY ZeroNumber, FewLimbs, MachineAssumption
<1>4. SignedOK(SZero) /\ Normalised(SZero.mag)
  BY <1>3, SignedZero DEF SZero, Signed
<1>5. CallInv' /\ ControlInv'
  BY <1>1, <1>2 DEF CallInv, ControlInv
<1>6. RemaindersInv' /\ BezoutInv' /\ CoefficientInv'
  BY <1>1, <1>3 DEF RemaindersInv, BezoutInv, CoefficientInv, Normalised
<1>7. SignedInv'
  BY <1>1, <1>4 DEF SignedInv, SignedOK, Normalised, Canonical, IsZero
<1>8. QED
  BY <1>5, <1>6, <1>7, InvPartsNext

LEMMA GcdReturnStep ==
  ASSUME IInv, GcdReturn
  PROVE  /\ IInv' /\ thrown' = FALSE
         /\ Number(reg'[call.d]) = Gcd(Operand("a"), Operand("b"))
         /\ \A x \in Regs \ {call.d} : reg'[x] = reg[x]
<1>1. pc = "gcd" /\ IsZero(r) /\ Store(call.d, old_r) /\ Leave
  BY DEF GcdReturn
<1>2. /\ RegsInv /\ CallInv /\ Normalised(old_r) /\ Normalised(r)
      /\ Gcd(Number(old_r), Number(r)) = Gcd(Operand("a"), Operand("b"))
  BY <1>1, InvParts DEF RemaindersInv
<1>3. Canonical(old_r) /\ Canonical(r) /\ Number(old_r) \in Nat
  BY <1>2, NormalisedCanonical
<1>4. call.d \in Regs
  BY <1>2, OperandFacts
<1>5. /\ RegsInv' /\ thrown' = FALSE
      /\ reg'[call.d] = old_r /\ \A x \in Regs \ {call.d} : reg'[x] = reg[x]
  BY <1>1, <1>2, <1>3, <1>4, StoreRegs
<1>6. Number(r) = 0
  BY <1>1, <1>3, CanonicalBound
<1>7. Number(old_r) = Gcd(Operand("a"), Operand("b"))
  BY <1>2, <1>3, <1>6, GcdZero
<1>8. IInv'
  BY <1>1, <1>5, LeaveStep
<1>9. QED
  BY <1>5, <1>7, <1>8

-----------------------------------------------------------------------------
(* The loop of mod_inverse.                                                *)

Alternate(u, z) == IsZero(u.mag) \/ IsZero(z.mag) \/ u.neg # z.neg

(* The next coefficient, u - q*z, is as large as the other two add up to:  *)
(* u and q*z have opposite signs.                                          *)
LEMMA NextCoefficient ==
  ASSUME NEW u, NEW z, NEW q, SignedOK(u), SignedOK(z), Canonical(q), Alternate(u, z)
  PROVE  /\ SignedOK(SSub(u, SMul(z, q)))
         /\ Integer(SSub(u, SMul(z, q))) = Integer(u) - Integer(z) * Number(q)
         /\ Number(SSub(u, SMul(z, q)).mag) = Number(u.mag) + Number(z.mag) * Number(q)
         /\ Alternate(z, SSub(u, SMul(z, q)))
<1> DEFINE p == SMul(z, q)
           w == Negated(p)
           n == SAdd(u, w)
<1>1. SSub(u, SMul(z, q)) = n
  BY DEF SSub
<1>2. /\ SignedOK(p) /\ Integer(p) = Integer(z) * Number(q)
      /\ Number(p.mag) = Number(z.mag) * Number(q)
      /\ ~IsZero(p.mag) => p.neg = z.neg
  BY SignedProduct
<1> HIDE DEF p
<1>3. /\ SignedOK(w) /\ Integer(w) = 0 - Integer(p)
      /\ w.mag = p.mag /\ (~IsZero(p.mag) => w.neg = ~p.neg)
  BY <1>2, SignedNegated
<1> HIDE DEF w
<1>4. SignedOK(n) /\ Integer(n) = Integer(u) + Integer(w)
  BY <1>3, SignedSum
<1>5. Integer(n) = Integer(u) - Integer(z) * Number(q)
  <2>1. PICK e \in Int, f \in Int : e = Integer(u) /\ f = Integer(p)
    BY <1>2, SignedFacts
  <2>2. e + (0 - f) = e - f
    OBVIOUS
  <2>3. QED
    BY <1>2, <1>3, <1>4, <2>1, <2>2
<1>6. /\ u.neg \in BOOLEAN /\ z.neg \in BOOLEAN /\ w.neg \in BOOLEAN /\ p.neg \in BOOLEAN
      /\ Canonical(u.mag) /\ Canonical(w.mag)
      /\ Number(u.mag) \in Nat /\ Number(w.mag) \in Nat /\ Number(z.mag) \in Nat /\ Number(q) \in Nat
      /\ IsZero(u.mag) <=> Number(u.mag) = 0
      /\ IsZero(w.mag) <=> Number(w.mag) = 0
      /\ IsZero(z.mag) <=> Number(z.mag) = 0
  BY <1>2, <1>3, SignedFacts, CanonicalBound
<1>7. ~IsZero(w.mag) => w.neg # z.neg /\ ~IsZero(z.mag)
  <2> SUFFICES ASSUME ~IsZero(w.mag) PROVE w.neg # z.neg /\ ~IsZero(z.mag)
    OBVIOUS
  <2>1. w.neg # z.neg
    BY <1>2, <1>3, <1>6
  <2>2. ASSUME IsZero(z.mag) PROVE FALSE
    <3>1. \A k \in Nat : 0 * k = 0
      OBVIOUS
    <3>2. Number(w.mag) = 0
      BY <1>2, <1>3, <1>6, <2>2, <3>1
    <3>3. QED
      BY <1>6, <3>2
  <2>3. QED
    BY <2>1, <2>2
<1>8. Number(w.mag) = Number(z.mag) * Number(q)
  BY <1>2, <1>3
<1>9. CASE IsZero(u.mag)
  <2>1. n = w
    BY <1>9 DEF SAdd
  <2>2. Number(n.mag) = Number(u.mag) + Number(w.mag)
    BY <1>6, <1>9, <2>1
  <2>3. Alternate(z, n)
    BY <1>7, <2>1 DEF Alternate
  <2>4. QED
    BY <1>1, <1>4, <1>5, <1>8, <2>2, <2>3
<1>10. CASE ~IsZero(u.mag) /\ IsZero(w.mag)
  <2>1. n = u
    BY <1>10 DEF SAdd
  <2>2. Number(n.mag) = Number(u.mag) + Number(w.mag)
    BY <1>6, <1>10, <2>1
  <2>3. Alternate(z, n)
    BY <2>1 DEF Alternate
  <2>4. QED
    BY <1>1, <1>4, <1>5, <1>8, <2>2, <2>3
<1>11. CASE ~IsZero(u.mag) /\ ~IsZero(w.mag)
  <2>1. u.neg = w.neg /\ u.neg # z.neg
    BY <1>6, <1>7, <1>11 DEF Alternate
  <2>2. n = Signed(u.neg, Add(u.mag, w.mag))
    BY <1>11, <2>1 DEF SAdd
  <2>3. n.mag = Add(u.mag, w.mag) /\ n.neg = u.neg
    BY <2>2 DEF Signed
  <2>4. Number(n.mag) = Number(u.mag) + Number(w.mag)
    BY <1>6, <2>3, AddNumbers DEF Canonical
  <2>5. Alternate(z, n)
    BY <2>1, <2>3 DEF Alternate
  <2>6. QED
    BY <1>1, <1>4, <1>5, <1>8, <2>4, <2>5
<1>12. QED
  BY <1>9, <1>10, <1>11

(* The determinant and the congruences, as facts about numbers.            *)
LEMMA DeterminantKept ==
  ASSUME NEW a \in Nat, NEW b \in Nat, NEW x \in Nat, NEW y \in Nat \ {0}, NEW q \in Nat, NEW v \in Nat,
         NEW m \in Nat, x = q * y + v, a * y + b * x = m
  PROVE  /\ b * v + (a + b * q) * y = m
         /\ a + b * q <= m
<1>1. b * x = b * (q * y) + b * v
  <2>1. b * (q * y + v) = b * (q * y) + b * v
    OBVIOUS
  <2>2. QED
    BY <2>1
<1>2. (a + b * q) * y = a * y + b * (q * y)
  <2>1. (a + b * q) * y = a * y + (b * q) * y
    OBVIOUS
  <2>2. (b * q) * y = b * (q * y)
    OBVIOUS
  <2>3. QED
    BY <2>1, <2>2
<1>3. PICK e \in Nat, f \in Nat, g \in Nat : e = a * y /\ f = b * (q * y) /\ g = b * v
  <2>1. q * y \in Nat
    OBVIOUS
  <2>2. a * y \in Nat /\ b * (q * y) \in Nat /\ b * v \in Nat
    BY <2>1
  <2>3. QED
    BY <2>2
<1>4. b * v + (a + b * q) * y = m
  BY <1>1, <1>2, <1>3
<1>5. (a + b * q) * y <= m
  BY <1>1, <1>2, <1>3
<1>6. PICK h \in Nat : h = a + b * q
  OBVIOUS
<1>7. h <= h * y
  <2>1. 1 <= y /\ 1 \in Nat /\ y \in Nat
    OBVIOUS
  <2>2. 1 * h <= y * h
    BY <2>1, TimesMono
  <2>3. 1 * h = h /\ y * h = h * y
    OBVIOUS
  <2>4. QED
    BY <2>2, <2>3
<1>8. h * y \in Nat
  OBVIOUS
<1>9. QED
  BY <1>4, <1>5, <1>6, <1>7, <1>8

LEMMA CongruenceKept ==
  ASSUME NEW m \in Nat \ {0}, NEW a \in Int, NEW u \in Int, NEW z \in Int, NEW x \in Int, NEW y \in Int,
         NEW q \in Int, NEW v \in Int, x = q * y + v,
         (u * a - x) % m = 0, (z * a - y) % m = 0
  PROVE  ((u - z * q) * a - v) % m = 0
<1>1. PICK e \in Int, f \in Int : e = u * a - x /\ f = z * a - y
  OBVIOUS
<1>2. PICK i \in Int : e = i * m
  BY <1>1, Multiple
<1>3. PICK j \in Int : f = j * m
  BY <1>1, Multiple
<1>4. (u - z * q) * a - v = e - q * f
  <2>1. (u - z * q) * a = u * a - (z * q) * a
    OBVIOUS
  <2>2. (z * q) * a = q * (z * a)
    OBVIOUS
  <2>3. q * (z * a - y) = q * (z * a) - q * y
    OBVIOUS
  <2>4. PICK g \in Int, h \in Int, k \in Int : g = u * a /\ h = q * (z * a) /\ k = q * y
    OBVIOUS
  <2>5. q * f = h - k /\ e = g - x /\ x = k + v /\ (u - z * q) * a = g - h
    BY <1>1, <2>1, <2>2, <2>3, <2>4
  <2>6. QED
    BY <2>4, <2>5
<1>5. e - q * f = (i - q * j) * m
  <2>1. (i - q * j) * m = i * m - q * (j * m)
    OBVIOUS
  <2>2. QED
    BY <1>2, <1>3, <2>1
<1>6. PICK g \in Int : g = i - q * j
  OBVIOUS
<1>7. (u - z * q) * a - v = g * m /\ g * m \in Int
  BY <1>4, <1>5, <1>6
<1>8. QED
  BY <1>6, <1>7, Multiple

LEMMA OneSigned ==
  /\ SignedOK(Signed(FALSE, One)) /\ Integer(Signed(FALSE, One)) = 1
  /\ Number(Signed(FALSE, One).mag) = 1 /\ Signed(FALSE, One).mag = One
<1>1. Canonical(One) /\ Number(One) = 1
  BY ZeroNumber
<1>2. /\ SignedOK(Signed(FALSE, One)) /\ Signed(FALSE, One).mag = One
      /\ Integer(Signed(FALSE, One)) = Number(One)
  BY <1>1, SignedMade
<1>3. QED
  BY <1>1, <1>2

LEMMA EnterInverseStep ==
  ASSUME IInv, NEW c \in Calls, EnterInverse(c)
  PROVE  IInv'
<1>1. /\ RegsInv /\ CallInv /\ ControlInv /\ RemaindersInv /\ SignedInv /\ BezoutInv /\ CoefficientInv
  BY InvParts
<1>2. pc = "idle" /\ call' = c
  BY DEF EnterInverse
<1>3. CallInv'
  BY <1>2 DEF CallInv
<1>4. c.a \in Regs /\ c.b \in Regs
  BY DEF Calls
<1>5. PICK m \in Nat, a \in Nat : m = Number(reg[c.b]) /\ a = Number(reg[c.a])
  BY <1>1, <1>4, RegisterFacts
<1>6. /\ Canonical(reg[c.a]) /\ Canonical(reg[c.b]) /\ m < Limit
      /\ Normalised(reg[c.b]) /\ Fits(reg[c.b])
  BY <1>1, <1>4, <1>5, RegisterFacts DEF RegsInv
<1>7. CASE IsZero(reg[c.b]) \/ reg[c.b] = One
  <2>1. Throw /\ pc' = pc /\ old_r' = old_r /\ r' = r /\ old_s' = old_s /\ s' = s
    BY <1>7 DEF EnterInverse, locals
  <2>2. reg' = reg /\ thrown' = TRUE
    BY <2>1 DEF Throw
  <2>3. RegsInv' /\ SignedInv'
    BY <1>1, <2>1, <2>2, SameRegs, SameSigned
  <2>4. ControlInv'
    BY <1>1, <2>1, <2>2 DEF ControlInv
  <2>5. RemaindersInv' /\ BezoutInv' /\ CoefficientInv'
    BY <1>1, <1>2, <2>1 DEF RemaindersInv, BezoutInv, CoefficientInv, Normalised
  <2>6. QED
    BY <1>3, <2>3, <2>4, <2>5, InvPartsNext
<1>8. CASE ~(IsZero(reg[c.b]) \/ reg[c.b] = One)
  <2>1. /\ pc' = "inverse" /\ old_r' = DivMod(reg[c.a], reg[c.b]).r /\ r' = reg[c.b]
        /\ old_s' = Signed(FALSE, One) /\ s' = SZero /\ thrown' = FALSE /\ reg' = reg
    BY <1>8 DEF EnterInverse
  <2>2. m > 1
    <3>1. m # 0
      BY <1>5, <1>6, <1>8, CanonicalBound
    <3>2. m # 1
      <4>1. Canonical(One) /\ Number(One) = 1
        BY ZeroNumber
      <4>2. QED
        BY <1>5, <1>6, <1>8, <4>1, CompareNumbers
    <3>3. QED
      BY <3>1, <3>2
  <2>3. PICK v : v = DivMod(reg[c.a], reg[c.b]).r
    OBVIOUS
  <2>4. Canonical(v) /\ Number(v) = a % m /\ Number(v) < Limit
    BY <1>5, <1>6, <2>2, <2>3, LimbsOfRemainder
  <2>5. Normalised(v) /\ Fits(v) /\ Number(v) \in Nat
    BY <2>4, FewLimbs, CanonicalBound DEF Fits
  <2>6. Operand("a")' = a /\ Operand("b")' = m
    BY <1>2, <1>5, <2>1 DEF Operand
  <2>7. RegsInv' /\ ControlInv'
    BY <1>1, <2>1, SameRegs DEF ControlInv
  <2>8. RemaindersInv'
    <3>1. (Normalised(old_r) /\ Normalised(r) /\ Fits(old_r) /\ Fits(r))'
      BY <1>6, <2>1, <2>3, <2>5 DEF Normalised, Fits
    <3>2. Gcd(a % m, m) = Gcd(a, m)
      BY <2>2, GcdResidue
    <3>3. (Gcd(Number(old_r), Number(r)) = Gcd(Operand("a"), Operand("b")))'
      BY <1>5, <2>1, <2>3, <2>4, <2>6, <3>2
    <3>4. QED
      BY <3>1, <3>3 DEF RemaindersInv
  <2>9. Normalised(One) /\ Normalised(Zero)
    <3>1. Limit > 1
      <4>1. Limit \in Nat
        BY MachineAssumption
      <4>2. QED
        BY <1>6, <2>2, <4>1
    <3>2. Limit > 0
      BY <3>1, MachineAssumption
    <3>3. QED
      BY <3>1, <3>2, ZeroNumber, FewLimbs
  <2>10. SignedInv'
    <3>1. /\ SignedOK(old_s') /\ Normalised(old_s'.mag)
          /\ SignedOK(s') /\ Normalised(s'.mag)
      BY <2>1, <2>9, OneSigned, SignedZero DEF SZero, Signed
    <3>2. QED
      BY <3>1 DEF SignedInv, SignedOK, Normalised, Canonical, IsZero
  <2>11. /\ Integer(old_s') = 1 /\ Number(old_s'.mag) = 1
         /\ Integer(s') = 0 /\ Number(s'.mag) = 0 /\ IsZero(s'.mag)
         /\ Number(old_r') = a % m /\ Number(r') = m
    BY <1>5, <2>1, <2>3, <2>4, OneSigned, SignedZero, ZeroNumber DEF SZero, Signed
  <2>12. BezoutInv'
    <3>1. (1 * a - (a % m)) % m = 0
      <4>1. m \in Nat \ {0} /\ a \in Int
        BY <2>2
      <4>2. PICK q \in Int, w \in 0..(m-1) : q = a \div m /\ w = a % m /\ a = w + q * m
        BY <4>1, Division
      <4>3. 1 * a - w = q * m /\ 1 * a - w \in Int
        BY <4>2
      <4>4. QED
        BY <4>1, <4>2, <4>3, Multiple
    <3>2. (0 * a - m) % m = 0
      <4>1. m \in Nat \ {0} /\ 0 * a - m = (0 - 1) * m /\ 0 * a - m \in Int
        BY <2>2
      <4>2. QED
        BY <4>1, Multiple
    <3>3. (Integer(old_s') * a - Number(old_r')) % m = 0 /\ Number(old_s'.mag) <= m
      BY <2>2, <2>11, <3>1
    <3>4. (Integer(s') * a - Number(r')) % m = 0 /\ Number(s'.mag) <= m
      BY <2>2, <2>11, <3>2
    <3>5. QED
      BY <2>6, <3>3, <3>4 DEF BezoutInv, Integer
  <2>13. CoefficientInv'
    <3>1. 1 * m + 0 * (a % m) = m
      <4>1. a % m \in Nat
        BY <2>2
      <4>2. QED
        BY <4>1
    <3>2. Determinant'
      BY <2>6, <2>11, <3>1 DEF Determinant
    <3>3. Alternating'
      BY <2>11 DEF Alternating, IsZero
    <3>4. QED
      BY <2>2, <2>6, <3>2, <3>3 DEF CoefficientInv
  <2>14. QED
    BY <1>3, <2>7, <2>8, <2>10, <2>12, <2>13, InvPartsNext
<1>9. QED
  BY <1>7, <1>8

LEMMA InverseStepInv ==
  ASSUME IInv, InverseStep
  PROVE  IInv'
<1>1. /\ RegsInv /\ CallInv /\ ControlInv /\ RemaindersInv /\ SignedInv /\ BezoutInv /\ CoefficientInv
  BY InvParts
<1>2. /\ pc = "inverse" /\ ~IsZero(r)
      /\ r' = DivMod(old_r, r).r /\ s' = SSub(old_s, SMul(s, DivMod(old_r, r).q))
      /\ old_r' = r /\ old_s' = s /\ reg' = reg /\ thrown' = thrown /\ pc' = pc /\ call' = call
  BY DEF InverseStep
<1>3. PICK q, v : q = DivMod(old_r, r).q /\ v = DivMod(old_r, r).r
  OBVIOUS
<1>4. /\ RemaindersInv' /\ Canonical(q) /\ Canonical(v)
      /\ Number(old_r) \in Nat /\ Number(r) \in Nat \ {0} /\ Number(q) \in Nat /\ Number(v) \in Nat
      /\ Number(old_r) = Number(q) * Number(r) + Number(v)
  BY <1>2, <1>3, RemaindersStep
<1>5. RegsInv' /\ CallInv' /\ ControlInv'
  BY <1>1, <1>2, SameRegs DEF CallInv, ControlInv
<1>6. /\ Operand("a") \in Nat /\ Operand("b") \in Nat /\ Operand("b") < Limit
      /\ Operand("a")' = Operand("a") /\ Operand("b")' = Operand("b")
  BY <1>1, <1>2, OperandFacts DEF Operand
<1>7. PICK a \in Nat, m \in Nat : a = Operand("a") /\ m = Operand("b")
  BY <1>6
<1>8. m > 1 /\ Determinant /\ Alternating
  BY <1>1, <1>2, <1>7 DEF CoefficientInv
<1>9. PICK n : n = SSub(old_s, SMul(s, q))
  OBVIOUS
<1>10. SignedOK(old_s) /\ SignedOK(s) /\ Normalised(s.mag)
  BY <1>1 DEF SignedInv
<1>11. /\ SignedOK(n) /\ Integer(n) = Integer(old_s) - Integer(s) * Number(q)
       /\ Number(n.mag) = Number(old_s.mag) + Number(s.mag) * Number(q)
       /\ Alternate(s, n)
  BY <1>4, <1>8, <1>9, <1>10, NextCoefficient DEF Alternating, Alternate
<1>12. /\ Number(old_s.mag) \in Nat /\ Number(s.mag) \in Nat
       /\ Integer(old_s) \in Int /\ Integer(s) \in Int
  BY <1>10, SignedFacts
<1>13. /\ Number(s.mag) * Number(v) + Number(n.mag) * Number(r) = m
       /\ Number(n.mag) <= m
  <2>1. Number(old_s.mag) * Number(r) + Number(s.mag) * Number(old_r) = m
    BY <1>7, <1>8 DEF Determinant
  <2>2. PICK c \in Nat, e \in Nat, x \in Nat, y \in Nat \ {0}, k \in Nat, w \in Nat :
          /\ c = Number(old_s.mag) /\ e = Number(s.mag) /\ x = Number(old_r) /\ y = Number(r)
          /\ k = Number(q) /\ w = Number(v)
    BY <1>4, <1>12
  <2>3. x = k * y + w /\ c * y + e * x = m
    BY <1>4, <2>1, <2>2, Zenon
  <2>4. e * w + (c + e * k) * y = m /\ c + e * k <= m
    BY <2>3, DeterminantKept
  <2>5. Number(n.mag) = c + e * k
    BY <1>11, <2>2, Zenon
  <2>6. QED
    BY <2>2, <2>4, <2>5, Zenon
<1>14. Normalised(n.mag)
  <2>1. Canonical(n.mag) /\ Number(n.mag) \in Nat /\ Limit \in Nat
    BY <1>11, SignedFacts, MachineAssumption
  <2>2. QED
    BY <1>6, <1>7, <1>13, <2>1, FewLimbs
<1>15. old_r' = r /\ r' = v /\ old_s' = s /\ s' = n
  BY <1>2, <1>3, <1>9
<1>16. SignedInv'
  BY <1>10, <1>11, <1>14, <1>15 DEF SignedInv, SignedOK, Normalised, Canonical, IsZero
<1>17. BezoutInv'
  <2>1. /\ (Integer(old_s) * a - Number(old_r)) % m = 0
        /\ (Integer(s) * a - Number(r)) % m = 0 /\ Number(s.mag) <= m
    BY <1>1, <1>2, <1>7 DEF BezoutInv
  <2>2. (Integer(n) * a - Number(v)) % m = 0
    <3>1. m \in Nat \ {0} /\ a \in Int
      BY <1>8
    <3>2. PICK u \in Int, z \in Int, x \in Int, y \in Int, k \in Int, w \in Int :
            /\ u = Integer(old_s) /\ z = Integer(s) /\ x = Number(old_r) /\ y = Number(r)
            /\ k = Number(q) /\ w = Number(v)
      BY <1>4, <1>12
    <3>3. x = k * y + w /\ (u * a - x) % m = 0 /\ (z * a - y) % m = 0
      BY <1>4, <2>1, <3>2, Zenon
    <3>4. ((u - z * k) * a - w) % m = 0
      BY <3>1, <3>3, CongruenceKept
    <3>5. QED
      BY <1>11, <3>2, <3>4, Zenon
  <2>3. /\ (Integer(old_s') * a - Number(old_r')) % m = 0 /\ Number(old_s'.mag) <= m
        /\ (Integer(s') * a - Number(r')) % m = 0 /\ Number(s'.mag) <= m
    BY <1>13, <1>15, <2>1, <2>2
  <2>4. QED
    BY <1>6, <1>7, <2>3 DEF BezoutInv, Integer
<1>18. CoefficientInv'
  <2>1. Determinant'
    BY <1>6, <1>7, <1>13, <1>15 DEF Determinant
  <2>2. Alternating'
    BY <1>11, <1>15 DEF Alternating, Alternate, IsZero
  <2>3. QED
    BY <1>6, <1>7, <1>8, <2>1, <2>2 DEF CoefficientInv
<1>19. QED
  BY <1>4, <1>5, <1>16, <1>17, <1>18, InvPartsNext

(* The residue of the coefficient, folded into [0, m).                     *)
LEMMA FoldedResidue ==
  ASSUME NEW m \in Nat \ {0}, NEW n \in Nat, NEW neg \in BOOLEAN, NEW v,
         v = IF neg /\ n % m # 0 THEN m - (n % m) ELSE n % m
  PROVE  v \in 0..(m-1) /\ Congruent(v, IF neg THEN 0 - n ELSE n, m)
<1>1. PICK q \in Int, w \in 0..(m-1) : q = n \div m /\ w = n % m /\ n = w + q * m
  <2>1. n \in Int
    OBVIOUS
  <2>2. QED
    BY <2>1, Division
<1>2. v \in 0..(m-1)
  BY <1>1
<1>3. CASE ~neg
  <2>1. v = n + (0 - q) * m
    <3>1. (0 - q) * m = 0 - q * m /\ q * m \in Int
      OBVIOUS
    <3>2. v = w
      BY <1>1, <1>3
    <3>3. QED
      BY <1>1, <3>1, <3>2
  <2>2. 0 - q \in Int
    OBVIOUS
  <2>3. Congruent(v, n, m)
    BY <2>1, <2>2, Zenon DEF Congruent
  <2>4. QED
    BY <1>2, <1>3, <2>3
<1>4. CASE neg /\ w = 0
  <2>1. v = (0 - n) + q * m
    BY <1>1, <1>4
  <2>2. Congruent(v, 0 - n, m)
    BY <2>1, Zenon DEF Congruent
  <2>3. QED
    BY <1>2, <1>4, <2>2
<1>5. CASE neg /\ w # 0
  <2>1. v = (0 - n) + (q + 1) * m
    <3>1. (q + 1) * m = q * m + m /\ q * m \in Int
      OBVIOUS
    <3>2. v = m - w
      BY <1>1, <1>5
    <3>3. QED
      BY <1>1, <3>1, <3>2
  <2>2. q + 1 \in Int
    OBVIOUS
  <2>3. Congruent(v, 0 - n, m)
    BY <2>1, <2>2, Zenon DEF Congruent
  <2>4. QED
    BY <1>2, <1>5, <2>3
<1>6. QED
  BY <1>3, <1>4, <1>5

LEMMA InverseResidue ==
  ASSUME NEW m \in Nat, m > 1, NEW v \in 0..(m-1), NEW i \in Int, NEW a \in Int,
         Congruent(v, i, m), (i * a - 1) % m = 0
  PROVE  (v * a) % m = 1
<1>1. m \in Nat \ {0} /\ m \in Int /\ v \in Int
  OBVIOUS
<1>2. PICK e \in Int : e = i * a
  OBVIOUS
<1>3. Congruent(v * a, e, m)
  BY <1>1, <1>2, CongruentScale
<1>4. PICK t \in Int : e - 1 = t * m
  <2>1. e - 1 \in Int /\ (e - 1) % m = 0
    BY <1>2
  <2>2. QED
    BY <1>1, <2>1, Multiple
<1>5. e = 1 + t * m
  BY <1>4
<1>6. 1 \in 0..(m-1)
  OBVIOUS
<1>7. e % m = 1
  BY <1>1, <1>5, <1>6, Residue
<1>8. PICK u \in Int : u = v * a
  BY <1>1
<1>9. u % m = e % m
  BY <1>1, <1>3, <1>8, CongruentEqual
<1>10. QED
  BY <1>7, <1>8, <1>9

LEMMA InverseReturnStep ==
  ASSUME IInv, InverseReturn
  PROVE  IInv' /\ Returned
<1>1. /\ RegsInv /\ CallInv /\ ControlInv /\ RemaindersInv /\ SignedInv /\ BezoutInv /\ CoefficientInv
  BY InvParts
<1>2. pc = "inverse" /\ IsZero(r) /\ Leave
  BY DEF InverseReturn
<1>3. /\ Normalised(old_r) /\ Normalised(r)
      /\ Gcd(Number(old_r), Number(r)) = Gcd(Operand("a"), Operand("b"))
  BY <1>1, <1>2 DEF RemaindersInv
<1>4. Canonical(old_r) /\ Canonical(r) /\ Number(old_r) \in Nat
  BY <1>3, NormalisedCanonical
<1>5. Number(old_r) = Gcd(Operand("a"), Operand("b"))
  <2>1. Number(r) = 0
    BY <1>2, <1>4, CanonicalBound
  <2>2. QED
    BY <1>3, <1>4, <2>1, GcdZero
<1>6. Canonical(One) /\ Number(One) = 1
  BY ZeroNumber
<1>7. CASE old_r # One
  <2>1. Throw
    BY <1>7 DEF InverseReturn
  <2>2. reg' = reg /\ thrown' = TRUE
    BY <2>1 DEF Throw
  <2>3. RegsInv'
    BY <1>1, <2>2, SameRegs
  <2>4. IInv'
    BY <1>2, <2>2, <2>3, LeaveStep
  <2>5. Number(old_r) # 1
    BY <1>4, <1>6, <1>7, CompareNumbers
  <2>6. Returned
    BY <1>2, <1>5, <2>2, <2>5 DEF Returned
  <2>7. QED
    BY <2>4, <2>6
<1>8. CASE old_r = One
  <2>1. /\ Operand("b") = Number(reg[call.b]) /\ Operand("a") \in Nat /\ Operand("b") \in Nat
        /\ Operand("b") < Limit /\ call.d \in Regs /\ Canonical(reg[call.b])
    BY <1>1, OperandFacts
  <2>2. PICK m \in Nat, a \in Nat : m = Operand("b") /\ a = Operand("a")
    BY <2>1
  <2>3. m > 1
    BY <1>1, <1>2, <2>2 DEF CoefficientInv
  <2>4. SignedOK(old_s)
    BY <1>1 DEF SignedInv
  <2>5. /\ old_s.neg \in BOOLEAN /\ Canonical(old_s.mag) /\ Number(old_s.mag) \in Nat
        /\ Integer(old_s) = IF old_s.neg THEN 0 - Number(old_s.mag) ELSE Number(old_s.mag)
    BY <2>4, SignedFacts DEF Integer
  <2>6. PICK res : res = DivMod(old_s.mag, reg[call.b]).r
    OBVIOUS
  <2>7. /\ Canonical(res) /\ Number(res) = Number(old_s.mag) % m /\ Number(res) < m
    BY <2>1, <2>2, <2>3, <2>5, <2>6, LimbsOfRemainder
  <2>8. Number(res) \in Nat /\ (IsZero(res) <=> Number(res) = 0)
    BY <2>7, CanonicalBound
  <2>9. PICK f : f = Folded(reg[call.b], res)
    OBVIOUS
  <2>10. /\ Canonical(f)
         /\ Number(f) = IF old_s.neg /\ Number(old_s.mag) % m # 0
                        THEN m - (Number(old_s.mag) % m) ELSE Number(old_s.mag) % m
    <3>1. CASE old_s.neg /\ ~IsZero(res)
      <4>1. f = Sub(reg[call.b], res)
        BY <2>9, <3>1 DEF Folded
      <4>2. Number(reg[call.b]) >= Number(res)
        BY <2>1, <2>2, <2>7, <2>8
      <4>3. Canonical(f) /\ Number(f) = m - Number(res)
        BY <2>1, <2>2, <2>7, <4>1, <4>2, SubNumbers
      <4>4. QED
        BY <2>7, <2>8, <3>1, <4>3
    <3>2. CASE ~(old_s.neg /\ ~IsZero(res))
      <4>1. f = res
        BY <2>9, <3>2 DEF Folded
      <4>2. QED
        BY <2>7, <2>8, <3>2, <4>1
    <3>3. QED
      BY <3>1, <3>2
  <2>11. Number(f) \in 0..(m-1) /\ Congruent(Number(f), Integer(old_s), m)
    <3>1. m \in Nat \ {0}
      BY <2>3
    <3>2. PICK n \in Nat : n = Number(old_s.mag)
      BY <2>5
    <3>3. PICK v : v = Number(f)
      OBVIOUS
    <3>4. v = IF old_s.neg /\ n % m # 0 THEN m - (n % m) ELSE n % m
      BY <2>10, <3>2, <3>3
    <3>5. v \in 0..(m-1) /\ Congruent(v, IF old_s.neg THEN 0 - n ELSE n, m)
      BY <2>5, <3>1, <3>4, FoldedResidue
    <3>6. QED
      BY <2>5, <3>2, <3>3, <3>5
  <2>12. (Integer(old_s) * a - 1) % m = 0
    <3>1. (Integer(old_s) * a - Number(old_r)) % m = 0
      BY <1>1, <1>2, <2>2 DEF BezoutInv
    <3>2. QED
      BY <1>6, <1>8, <3>1
  <2>13. (Number(f) * a) % m = 1
    <3>1. Integer(old_s) \in Int /\ a \in Int
      BY <2>4, SignedFacts
    <3>2. QED
      BY <2>3, <2>11, <2>12, <3>1, InverseResidue
  <2>14. Store(call.d, f)
    BY <1>8, <2>6, <2>9 DEF InverseReturn
  <2>15. /\ RegsInv' /\ thrown' = FALSE
         /\ reg'[call.d] = f /\ \A x \in Regs \ {call.d} : reg'[x] = reg[x]
    BY <1>1, <2>1, <2>10, <2>14, StoreRegs
  <2>16. IInv'
    BY <1>2, <2>15, LeaveStep
  <2>17. Inverts(Number(f))
    BY <2>2, <2>11, <2>13 DEF Inverts
  <2>18. Returned
    BY <1>2, <2>15, <2>17 DEF Returned
  <2>19. QED
    BY <2>16, <2>18
<1>9. QED
  BY <1>7, <1>8

-----------------------------------------------------------------------------
(* The program.                                                            *)

LEMMA InitInv == Init => IInv
<1> SUFFICES ASSUME Init PROVE IInv
  OBVIOUS
<1>1. /\ reg = [x \in Regs |-> Zero] /\ thrown = FALSE /\ pc = "idle" /\ call = NoCall
      /\ old_r = Zero /\ r = Zero /\ old_s = SZero /\ s = SZero
  BY DEF Init
<1>2. NoCall \in Calls
  <2>1. PICK x \in Regs : TRUE
    BY MachineAssumption
  <2>2. [d |-> x, a |-> x, b |-> x] \in Calls
    BY DEF Calls
  <2>3. QED
    BY <2>2 DEF NoCall
<1>3. Canonical(Zero) /\ Number(Zero) = 0 /\ Zero \in Seq(Word) /\ Fits(Zero)
  BY ZeroNumber, MachineAssumption DEF Canonical, Fits
<1>4. Normalised(Zero)
  BY <1>3, FewLimbs, MachineAssumption
<1>5. SignedOK(SZero) /\ Normalised(SZero.mag)
  BY <1>4, SignedZero DEF SZero, Signed
<1>6. RegsInv
  BY <1>1, <1>3, <1>4 DEF RegsInv
<1>7. CallInv /\ ControlInv
  BY <1>1, <1>2 DEF CallInv, ControlInv
<1>8. RemaindersInv /\ BezoutInv /\ CoefficientInv
  BY <1>1, <1>4 DEF RemaindersInv, BezoutInv, CoefficientInv
<1>9. SignedInv
  BY <1>1, <1>5 DEF SignedInv
<1>10. QED
  BY <1>6, <1>7, <1>8, <1>9, InvParts

(* An operation that is no loop.                                           *)
Operation ==
  \/ \E d \in Regs :
       \/ \E v \in Vectors : Adopt(d, v)
       \/ \E t \in Texts : ParseHex(d, t) \/ ReadBytes(d, t)
  \/ \E d, a, b \in Regs :
       \/ AddTo(d, a, b) \/ SubTo(d, a, b) \/ MulTo(d, a, b)
       \/ DivTo(d, a, b) \/ ModTo(d, a, b)
       \/ \E e \in Regs : DivModTo(d, e, a, b)
  \/ \E d, a \in Regs, k \in Shifts : ShlTo(d, a, k) \/ ShrTo(d, a, k)
  \/ \E c \in Calls : EnterGcd(c) \/ EnterInverse(c)

LEMMA OperationStep ==
  ASSUME IInv, Operation
  PROVE  IInv' /\ pc = "idle"
<1>1. ASSUME NEW d \in Regs,
             \/ \E v \in Vectors : Adopt(d, v)
             \/ \E t \in Texts : ParseHex(d, t) \/ ReadBytes(d, t)
      PROVE  IInv' /\ pc = "idle"
  <2>1. IInv'
    BY <1>1, MakingStep
  <2>2. pc = "idle"
    BY <1>1 DEF Adopt, ParseHex, ReadBytes, Idle
  <2>3. QED
    BY <2>1, <2>2
<1>2. ASSUME NEW d \in Regs, NEW a \in Regs, NEW b \in Regs,
             \/ AddTo(d, a, b) \/ SubTo(d, a, b) \/ MulTo(d, a, b)
             \/ DivTo(d, a, b) \/ ModTo(d, a, b)
             \/ \E e \in Regs : DivModTo(d, e, a, b)
      PROVE  IInv' /\ pc = "idle"
  <2>1. IInv'
    BY <1>2, SumStep, DividingStep, DivModStep
  <2>2. pc = "idle"
    BY <1>2 DEF AddTo, SubTo, MulTo, DivTo, ModTo, DivModTo, Idle
  <2>3. QED
    BY <2>1, <2>2
<1>3. ASSUME NEW d \in Regs, NEW a \in Regs, NEW k \in Shifts, ShlTo(d, a, k) \/ ShrTo(d, a, k)
      PROVE  IInv' /\ pc = "idle"
  <2>1. IInv'
    BY <1>3, ShiftStepInv
  <2>2. pc = "idle"
    BY <1>3 DEF ShlTo, ShrTo, Idle
  <2>3. QED
    BY <2>1, <2>2
<1>4. ASSUME NEW c \in Calls, EnterGcd(c) \/ EnterInverse(c)
      PROVE  IInv' /\ pc = "idle"
  <2>1. IInv'
    BY <1>4, EnterGcdStep, EnterInverseStep
  <2>2. pc = "idle"
    BY <1>4 DEF EnterGcd, EnterInverse
  <2>3. QED
    BY <2>1, <2>2
<1>5. QED
  BY <1>1, <1>2, <1>3, <1>4 DEF Operation

LEMMA NextSplit == Next <=> Operation \/ Loop
BY Zenon DEF Next, Operation

LEMMA StutterStep ==
  ASSUME IInv, UNCHANGED vars
  PROVE  IInv'
BY DEF vars, IInv, TypeOK, EuclidInv, CoefficientInv, Normalised, Fits, Determinant, Alternating,
       Operand, Integer

(* Every step keeps the invariant, and one that ends a loop returns what   *)
(* the loop is for.                                                        *)
LEMMA NextInv ==
  ASSUME IInv, [Next]_vars
  PROVE  IInv' /\ (pc # "idle" /\ pc' = "idle" => Returned)
<1>1. CASE Operation
  BY <1>1, OperationStep
<1>2. CASE GcdStep
  BY <1>2, GcdStepInv DEF GcdStep
<1>3. CASE GcdReturn
  <2>1. pc = "gcd"
    BY <1>3 DEF GcdReturn
  <2>2. /\ IInv' /\ thrown' = FALSE
        /\ Number(reg'[call.d]) = Gcd(Operand("a"), Operand("b"))
        /\ \A x \in Regs \ {call.d} : reg'[x] = reg[x]
    BY <1>3, GcdReturnStep
  <2>3. Returned
    BY <2>1, <2>2 DEF Returned
  <2>4. QED
    BY <2>2, <2>3
<1>4. CASE InverseStep
  BY <1>4, InverseStepInv DEF InverseStep
<1>5. CASE InverseReturn
  BY <1>5, InverseReturnStep
<1>6. CASE UNCHANGED vars
  BY <1>6, StutterStep DEF vars
<1>7. QED
  BY <1>1, <1>2, <1>3, <1>4, <1>5, <1>6, NextSplit DEF Loop

(* Every reachable state has normalised vectors that fit their limbs, the  *)
(* gcd and Bezout relations of the loops, and the determinant that bounds  *)
(* the coefficients.                                                       *)
THEOREM Inductive == Spec => []IInv
<1>1. IInv /\ [Next]_vars => IInv'
  BY NextInv
<1>2. QED
  BY <1>1, InitInv, PTL DEF Spec

(* No operation leaves a superfluous high limb or a negative zero          *)
(* (normalize), in a variable or in a local of a loop, and no coefficient  *)
(* of mod_inverse takes more limbs than the modulus may.                   *)
THEOREM TypeCorrect == Spec => []TypeOK
<1>1. IInv => TypeOK
  BY DEF IInv
<1>2. QED
  BY <1>1, Inductive, PTL

(* The loops of gcd and mod_inverse keep the gcd of their remainders, each *)
(* remainder stays its coefficient times a modulo m, and no coefficient    *)
(* outgrows m, whatever the operands and whatever they alias.              *)
THEOREM EuclidCorrect == Spec => []EuclidInv
<1>1. IInv => EuclidInv
  BY DEF IInv
<1>2. QED
  BY <1>1, Inductive, PTL

(* gcd returns the greatest common divisor and mod_inverse the inverse     *)
(* below m; mod_inverse throws exactly when there is none; only the target *)
(* changes.                                                                *)
THEOREM ReturnsCorrect == Spec => ReturnsRight
<1>1. IInv /\ [Next]_vars => (pc # "idle" /\ pc' = "idle" => Returned)
  BY NextInv
<1>2. IInv /\ [Next]_vars => [pc # "idle" /\ pc' = "idle" => Returned]_vars
  BY <1>1
<1>3. QED
  BY <1>2, Inductive, PTL DEF Spec, ReturnsRight

(* Sums, differences, products, quotients, remainders and shifts of the    *)
(* variables are those of the numbers, and normalised, for every base and  *)
(* length: carries and borrows reach the last limb.  The public divmod is  *)
(* right but for the two aliasings its property names.                     *)
THEOREM ArithmeticCorrect == Spec => []ArithmeticRight
<1>1. IInv => ArithmeticRight
  <2> SUFFICES ASSUME IInv PROVE ArithmeticRight
    OBVIOUS
  <2>1. RegsInv
    BY InvRegs
  <2>2. ASSUME NEW x \in Regs, NEW y \in Regs PROVE PairRight(reg[x], reg[y])
    <3>1. PICK u, v : u = reg[x] /\ v = reg[y]
      OBVIOUS
    <3>2. /\ Canonical(u) /\ Canonical(v) /\ u \in Seq(Word) /\ v \in Seq(Word)
          /\ Number(u) \in Nat /\ Number(v) \in Nat
      BY <2>1, <3>1, RegisterFacts
    <3>3. ResultRight(Add(u, v), Number(u) + Number(v))
      BY <3>2, AddNumbers, NormalSame DEF ResultRight
    <3>4. Number(u) >= Number(v) => ResultRight(Sub(u, v), Number(u) - Number(v))
      BY <3>2, SubNumbers, NormalSame DEF ResultRight
    <3>5. ResultRight(Mul(u, v), Number(u) * Number(v))
      BY <3>2, MulNumbers, NormalSame DEF ResultRight
    <3>6. Number(v) > 0 => /\ ResultRight(DivMod(u, v).q, Number(u) \div Number(v))
                           /\ ResultRight(DivMod(u, v).r, Number(u) % Number(v))
      BY <3>2, DivModNumbers, NormalSame DEF ResultRight
    <3>7. QED
      BY <3>1, <3>3, <3>4, <3>5, <3>6 DEF PairRight
  <2>3. ASSUME NEW x \in Regs, NEW k \in Shifts PROVE ShiftsRight(reg[x], k)
    <3>1. Canonical(reg[x]) /\ k \in Nat
      BY <2>1, RegisterFacts, MachineAssumption
    <3>2. QED
      BY <3>1, ShlNumbers, ShrNumbers, NormalSame DEF ShiftsRight, ResultRight
  <2>4. ASSUME NEW q \in Regs, NEW e \in Regs, NEW a \in Regs, NEW d \in Regs
        PROVE  DivModRight(q, e, a, d)
    <3>1. PICK x, y : x = reg[a] /\ y = reg[d]
      OBVIOUS
    <3>2. Canonical(x) /\ Canonical(y) /\ Number(x) \in Nat /\ Number(y) \in Nat
      BY <2>1, <3>1, RegisterFacts
    <3>3. PICK after : after = DivModInto(reg, a, d, q, e)
      OBVIOUS
    <3>4. SUFFICES ASSUME q # e, Number(y) > 0
                   PROVE  /\ Number(after[q]) = Number(x) \div Number(y)
                          /\ q # a \/ Number(x) >= Number(y) =>
                               Number(after[e]) = Number(x) % Number(y)
      BY <3>1, <3>3, Zenon DEF DivModRight
    <3>5. \A u, v : Assigned(reg, q, e, u, v)[q] = u /\ Assigned(reg, q, e, u, v)[e] = v
      BY <2>1, <3>4 DEF Assigned, RegsInv
    <3>6. /\ Number(DivMod(x, y).q) = Number(x) \div Number(y)
          /\ Number(DivMod(x, y).r) = Number(x) % Number(y)
      BY <3>2, <3>4, DivModNumbers
    <3>7. CASE Compare(x, y) < 0
      <4>1. after = Assigned(reg, q, e, Zero, IF q = a THEN Zero ELSE x)
        BY <3>1, <3>3, <3>7 DEF DivModInto
      <4>2. DivMod(x, y).q = Zero /\ DivMod(x, y).r = x
        BY <3>7 DEF DivMod
      <4>3. Number(x) < Number(y)
        BY <3>2, <3>7, CompareNumbers
      <4>4. after[q] = Zero /\ (q # a => after[e] = x)
        BY <3>5, <4>1
      <4>5. QED
        BY <3>2, <3>6, <4>2, <4>3, <4>4
    <3>8. CASE ~(Compare(x, y) < 0)
      <4>1. after = Assigned(reg, q, e, DivMod(x, y).q, DivMod(x, y).r)
        BY <3>1, <3>3, <3>8 DEF DivModInto
      <4>2. QED
        BY <3>5, <3>6, <4>1
    <3>9. QED
      BY <3>7, <3>8
  <2>5. QED
    BY <2>2, <2>3, <2>4 DEF ArithmeticRight
<1>2. QED
  BY <1>1, Inductive, PTL

-----------------------------------------------------------------------------
(* Digits of numbers, in any width.                                        *)

(* Division by a product is one division after the other.                  *)
DividesTwice(a, b, c) ==
  /\ b * c \in Nat \ {0} /\ a \div b \in Nat
  /\ (a \div b) \div c = a \div (b * c)

LEMMA QuotientTwice ==
  ASSUME NEW a \in Nat, NEW b \in Nat \ {0}, NEW c \in Nat \ {0}
  PROVE  DividesTwice(a, b, c)
<1>1. PICK q \in Int, v \in 0..(b-1) : q = a \div b /\ a = v + q * b
  <2>1. a \in Int
    OBVIOUS
  <2>2. QED
    BY <2>1, Division
<1>2. PICK h \in Int, u \in 0..(c-1) : h = q \div c /\ q = u + h * c
  BY Division
<1>3. b * c \in Nat \ {0}
  OBVIOUS
<1>4. a \div b \in Nat
  OBVIOUS
<1>5. a = h * (b * c) + (u * b + v)
  <2>1. q * b = u * b + (h * c) * b
    <3>1. PICK y \in Int : y = h * c
      OBVIOUS
    <3>2. q = u + y
      BY <1>2, <3>1
    <3>3. (u + y) * b = u * b + y * b
      OBVIOUS
    <3>4. QED
      BY <3>1, <3>2, <3>3
  <2>2. (h * c) * b = h * (b * c)
    OBVIOUS
  <2>3. u * b \in Int /\ h * (b * c) \in Int
    OBVIOUS
  <2>4. QED
    BY <1>1, <2>1, <2>2, <2>3
<1>6. u * b + v \in 0..(b * c - 1)
  <2>1. u \in Nat /\ c - 1 \in Nat /\ u <= c - 1 /\ b \in Nat
    OBVIOUS
  <2>2. u * b \in Nat /\ u * b <= (c - 1) * b
    BY <2>1, TimesMono
  <2>3. (c - 1) * b = b * c - b
    OBVIOUS
  <2>4. PICK y \in Nat, w \in Nat : y = u * b /\ w = b * c
    BY <1>3, <2>2
  <2>5. QED
    BY <2>2, <2>3, <2>4
<1>7. a \div (b * c) = h
  <2>1. PICK n \in Nat \ {0}, y \in Int : n = b * c /\ y = u * b + v
    BY <1>3, <1>6
  <2>2. a = h * n + y /\ y \in 0..(n-1) /\ a \in Int
    BY <1>5, <1>6, <2>1
  <2>3. a \div n = h
    BY <2>2, TheQuotient
  <2>4. QED
    BY <2>1, <2>3
<1>8. (a \div b) \div c = h
  BY <1>1, <1>2
<1>9. QED
  BY <1>3, <1>4, <1>7, <1>8 DEF DividesTwice

(* A digit is what the next place up leaves of the number.                 *)
LEMMA DigitBelow ==
  ASSUME NEW v \in Nat, NEW w \in Nat, NEW k \in Nat
  PROVE  /\ v \div Pow2[w * k] \in Nat /\ v \div Pow2[w * (k+1)] \in Nat
         /\ (v \div Pow2[w * k]) % Pow2[w] \in 0..(Pow2[w] - 1)
         /\ v \div Pow2[w * k]
              = (v \div Pow2[w * (k+1)]) * Pow2[w] + ((v \div Pow2[w * k]) % Pow2[w])
<1>1. PICK p \in Nat \ {0}, m \in Nat \ {0} :
        p = Pow2[w * k] /\ m = Pow2[w] /\ Pow2[w * (k+1)] = p * m
  <2>1. /\ Pow2[w * k] \in Nat \ {0} /\ Pow2[w] \in Nat \ {0}
        /\ Pow2[w * (k+1)] = Pow2[w * k] * Pow2[w]
    BY NextWeight
  <2>2. QED
    BY <2>1, Zenon
<1>2. /\ p * m \in Nat \ {0} /\ v \div p \in Nat
      /\ (v \div p) \div m = v \div (p * m)
  <2>1. DividesTwice(v, p, m)
    BY QuotientTwice
  <2>2. QED
    BY <2>1 DEF DividesTwice
<1>3. PICK low \in Nat : low = v \div p
  BY <1>2
<1>4. PICK high \in Int, d \in 0..(m-1) : high = low \div m /\ d = low % m /\ low = d + high * m
  <2>1. low \in Int
    BY <1>3
  <2>2. QED
    BY <2>1, Division
<1>5. high \in Nat
  BY <1>3, <1>4
<1>6. v \div Pow2[w * (k+1)] = high
  BY <1>1, <1>2, <1>3, <1>4, Zenon
<1>7. v \div Pow2[w * k] = low
  BY <1>1, <1>3, Zenon
<1>8. low = high * m + d /\ d = low % m
  BY <1>4
<1>9. (v \div Pow2[w * k]) % Pow2[w] = d
  BY <1>1, <1>7, <1>8, Zenon
<1>10. QED
  BY <1>1, <1>3, <1>5, <1>6, <1>7, <1>8, <1>9

(* A number that is not 0 has a highest digit that is not 0.               *)
LEMMA TopPlace ==
  ASSUME NEW v \in Nat, NEW w \in Nat, NEW n \in Nat, v > 0, v < Pow2[w * n]
  PROVE  \E m \in 0..(n-1) :
           /\ v < Pow2[w * (m+1)]
           /\ (v \div Pow2[w * m]) % Pow2[w] # 0
           /\ \A k \in Nat : k > m => (v \div Pow2[w * k]) % Pow2[w] = 0
<1> DEFINE P == {k \in 0..n : v < Pow2[w * k]}
<1>1. P \subseteq Nat /\ P # {}
  <2>1. n \in P
    OBVIOUS
  <2>2. QED
    BY <2>1
<1>2. PICK t \in P : \A y \in P : t <= y
  <2> HIDE DEF P
  <2>1. QED
    BY <1>1, LeastExists
<1>3. t # 0
  <2> SUFFICES ASSUME t = 0 PROVE FALSE
    OBVIOUS
  <2>1. w * 0 = 0
    OBVIOUS
  <2>2. v < Pow2[w * 0]
    BY <1>2
  <2>3. Pow2[w * 0] = 1
    BY <2>1, Pow2Def, Zenon
  <2>4. QED
    BY <2>2, <2>3
<1>4. PICK m \in 0..(n-1) : t = m + 1
  <2>1. t - 1 \in 0..(n-1) /\ t = (t - 1) + 1
    BY <1>2, <1>3
  <2>2. QED
    BY <2>1
<1>5. m \in Nat /\ v < Pow2[w * (m+1)] /\ ~(v < Pow2[w * m])
  <2>1. v < Pow2[w * (m+1)]
    BY <1>2, <1>4
  <2>2. m \notin P
    BY <1>2, <1>4
  <2>3. QED
    BY <2>1, <2>2
<1>6. ASSUME NEW k \in Nat, k > m PROVE v \div Pow2[w * k] = 0
  <2>1. w * k \in Nat /\ w * (m+1) \in Nat /\ w * (m+1) <= w * k
    <3>1. w * k \in Nat /\ w * (m+1) \in Nat
      BY <1>5
    <3>2. (m+1) * w <= k * w
      BY <1>5, <1>6, TimesMono
    <3>3. QED
      BY <3>1, <3>2
  <2>2. Pow2[w * (m+1)] <= Pow2[w * k]
    BY <2>1, Pow2Grows
  <2>3. Pow2[w * k] \in Nat /\ Pow2[w * (m+1)] \in Nat
    BY <2>1, Pow2Def
  <2>4. v < Pow2[w * k]
    BY <1>5, <2>2, <2>3
  <2>5. QED
    BY <2>1, <2>4, NothingLeft
<1>7. ASSUME NEW k \in Nat, k > m PROVE (v \div Pow2[w * k]) % Pow2[w] = 0
  <2>1. Pow2[w] \in Nat \ {0}
    BY Pow2Def
  <2>2. 0 % Pow2[w] = 0
    BY <2>1
  <2>3. QED
    BY <1>6, <1>7, <2>2
<1>8. (v \div Pow2[w * m]) % Pow2[w] # 0
  <2>1. /\ v \div Pow2[w * m] \in Nat
        /\ v \div Pow2[w * m]
              = (v \div Pow2[w * (m+1)]) * Pow2[w] + ((v \div Pow2[w * m]) % Pow2[w])
    BY <1>5, DigitBelow
  <2>2. v \div Pow2[w * (m+1)] = 0
    BY <1>5, <1>6
  <2>3. Pow2[w] \in Nat
    BY Pow2Def
  <2>4. PICK p \in Nat \ {0} : p = Pow2[w * m] /\ v >= p
    <3>1. w * m \in Nat
      BY <1>5
    <3>2. Pow2[w * m] \in Nat \ {0}
      BY <3>1, Pow2Def
    <3>3. QED
      BY <1>5, <3>2
  <2>5. v \div p # 0
    <3>1. PICK q \in Int, u \in 0..(p-1) : q = v \div p /\ v = u + q * p
      <4>1. v \in Int
        OBVIOUS
      <4>2. QED
        BY <4>1, Division
    <3>2. QED
      BY <2>4, <3>1
  <2>6. PICK d \in Int : d = (v \div Pow2[w * m]) % Pow2[w]
    BY <2>1, <2>3, Pow2Def
  <2>7. 0 * Pow2[w] + d = d
    BY <2>3, <2>6
  <2>8. QED
    BY <2>1, <2>2, <2>4, <2>5, <2>6, <2>7
<1>9. QED
  BY <1>4, <1>5, <1>7, <1>8

-----------------------------------------------------------------------------
(* Digits of limb vectors.                                                 *)

(* A limb is Per digits wide.                                              *)
LEMMA DigitProduct == W = DigitBits * Per /\ W \in Nat \ {0} /\ DigitBits \in Nat \ {0}
<1>1. W \in Nat \ {0}
  BY WordAssumption
<1>2. Per \in Nat \ {0} /\ W % Per = 0 /\ DigitBits \in Nat
  BY DigitAssumption, DigitWidth
<1>3. W = (W % Per) + (W \div Per) * Per
  BY <1>1, <1>2, QuotientResidue
<1>4. W = DigitBits * Per
  BY <1>2, <1>3 DEF DigitBits
<1>5. DigitBits # 0
  BY <1>1, <1>2, <1>4
<1>6. QED
  BY <1>1, <1>2, <1>4, <1>5

(* Where a digit stands: its limb, and its place in the limb.              *)
LEMMA PlaceCount ==
  ASSUME NEW p \in Nat
  PROVE  /\ p \div Per \in Nat /\ p % Per \in Nat
         /\ Pow2[DigitBits * p] = BPow[p \div Per] * Pow2[DigitBits * (p % Per)]
         /\ \E h \in Nat \ {0} : Pow2[DigitBits * (p % Per)] * (X * h) = B
<1> DEFINE w == DigitBits
           l == p \div Per
           j == p % Per
<1>1. w \in Nat /\ Per \in Nat \ {0} /\ Pow2[w * Per] = B /\ X = Pow2[w]
  BY DigitWidth DEF X
<1>2. W = w * Per /\ W \in Nat
  BY DigitProduct
<1>3. l \in Nat /\ j \in 0..(Per-1) /\ p = j + l * Per
  <2>1. p \in Int
    OBVIOUS
  <2>2. p % Per \in 0..(Per-1) /\ p = (p % Per) + (p \div Per) * Per
    BY <1>1, <2>1, QuotientResidue
  <2>3. p \div Per \in Nat
    BY <1>1
  <2>4. QED
    BY <2>2, <2>3
<1> HIDE DEF w, l, j
<1>4. Pow2[w * p] = BPow[l] * Pow2[w * j]
  <2>1. W * l \in Nat /\ BPow[l] = Pow2[W * l]
    BY <1>3, BPowPow2
  <2>2. j \in Nat /\ w * j \in Nat
    BY <1>1, <1>3
  <2>3. w * p = W * l + w * j
    <3>1. w * (j + l * Per) = w * j + (w * Per) * l
      BY <1>1, <1>3
    <3>2. w * j \in Int /\ (w * Per) * l \in Int
      BY <1>1, <1>3
    <3>3. QED
      BY <1>2, <1>3, <3>1, <3>2
  <2>4. Pow2[W * l + w * j] = Pow2[W * l] * Pow2[w * j]
    BY <2>1, <2>2, Pow2Sum
  <2>5. QED
    BY <2>1, <2>3, <2>4
<1>5. \E h \in Nat \ {0} : Pow2[w * j] * (X * h) = B
  <2>1. PICK i \in Nat : Per = j + (i + 1)
    <3>1. Per - j - 1 \in Nat /\ Per = j + ((Per - j - 1) + 1)
      BY <1>1, <1>3
    <3>2. QED
      BY <3>1
  <2>2. j \in Nat /\ w * j \in Nat /\ w * i \in Nat /\ w * (i+1) \in Nat
    BY <1>1, <1>3
  <2>3. w * Per = w * j + w * (i+1)
    BY <1>1, <1>3, <2>1
  <2>4. Pow2[w * j + w * (i+1)] = Pow2[w * j] * Pow2[w * (i+1)]
    BY <2>2, Pow2Sum
  <2>5. Pow2[w * (i+1)] = Pow2[w * i] * Pow2[w] /\ Pow2[w * i] \in Nat \ {0} /\ Pow2[w] \in Nat \ {0}
    BY <1>1, NextWeight
  <2>6. Pow2[w * i] * Pow2[w] = X * Pow2[w * i]
    BY <1>1, <2>5
  <2>7. Pow2[w * j] * (X * Pow2[w * i]) = B
    BY <1>1, <2>3, <2>4, <2>5, <2>6
  <2>8. QED
    BY <2>5, <2>7
<1>6. QED
  BY <1>3, <1>4, <1>5 DEF w, l, j

(* What a division leaves of a number around one of its limbs.             *)
LEMMA InsideQuotient ==
  ASSUME NEW m \in Nat \ {0}, NEW p \in Nat \ {0}, NEW q \in Nat \ {0}, NEW a \in 0..(m-1),
         NEW u \in Nat, NEW t \in Int, NEW v \in Nat, v = a + m * (u + (p * q) * t)
  PROVE  v \div (m * p) = (u \div p) + q * t
<1>1. PICK d \in Int, e \in 0..(p-1) : d = u \div p /\ u = e + d * p
  <2>1. u \in Int
    OBVIOUS
  <2>2. QED
    BY <2>1, Division
<1>2. v = (d + q * t) * (m * p) + (m * e + a)
  <2>1. m * ((e + d * p) + (p * q) * t) = m * e + m * (d * p) + m * ((p * q) * t)
    OBVIOUS
  <2>2. m * ((p * q) * t) = (q * t) * (m * p) /\ m * (d * p) = d * (m * p)
    OBVIOUS
  <2>3. (d + q * t) * (m * p) = d * (m * p) + (q * t) * (m * p)
    OBVIOUS
  <2>4. m * e \in Int /\ d * (m * p) \in Int /\ (q * t) * (m * p) \in Int
    OBVIOUS
  <2>5. a + m * ((e + d * p) + (p * q) * t) = (d + q * t) * (m * p) + (m * e + a)
    BY <2>1, <2>2, <2>3, <2>4
  <2>6. QED
    BY <1>1, <2>5, Zenon
<1>3. m * e + a \in 0..(m * p - 1)
  <2>1. e \in Nat /\ p - 1 \in Nat /\ e <= p - 1
    OBVIOUS
  <2>2. e * m <= (p - 1) * m
    BY <2>1, TimesMono
  <2>3. (p - 1) * m = m * p - m /\ e * m = m * e /\ m * p \in Int /\ m * e \in Nat
    BY <2>1
  <2>4. QED
    BY <2>2, <2>3
<1>4. PICK y \in Int, n \in Nat \ {0}, z \in Int : y = d + q * t /\ n = m * p /\ z = m * e + a
  <2>1. d + q * t \in Int /\ m * e + a \in Int /\ m * p \in Nat \ {0}
    OBVIOUS
  <2>2. QED
    BY <2>1
<1>5. v = y * n + z /\ z \in 0..(n-1) /\ v \in Int
  <2>1. v \in Int
    OBVIOUS
  <2>2. QED
    BY <1>2, <1>3, <1>4, <2>1, Zenon
<1>6. v \div n = y
  BY <1>5, TheQuotient
<1>7. QED
  BY <1>1, <1>4, <1>6, Zenon

(* A digit of the vector is a digit of the number.                         *)
LEMMA DigitNumber ==
  ASSUME NEW x \in Seq(Word), NEW p \in Nat
  PROVE  /\ DigitOf(x, p) = (Number(x) \div Pow2[DigitBits * p]) % X
         /\ DigitOf(x, p) \in 0..(X-1)
<1> DEFINE l == p \div Per
           low == DigitBits * (p % Per)
<1>1. PICK h \in Nat \ {0} :
        /\ l \in Nat /\ low \in Nat /\ X \in Nat \ {0} /\ X = Pow2[DigitBits]
        /\ Pow2[DigitBits * p] = BPow[l] * Pow2[low] /\ Pow2[low] * (X * h) = B
  <2>1. DigitBits \in Nat /\ X \in Nat \ {0} /\ X = Pow2[DigitBits]
    BY DigitWidth DEF X
  <2>2. /\ p \div Per \in Nat /\ p % Per \in Nat
        /\ Pow2[DigitBits * p] = BPow[p \div Per] * Pow2[DigitBits * (p % Per)]
        /\ \E h \in Nat \ {0} : Pow2[DigitBits * (p % Per)] * (X * h) = B
    BY PlaceCount
  <2>3. low \in Nat
    BY <2>1, <2>2
  <2>4. QED
    BY <2>1, <2>2, <2>3, Zenon
<1> HIDE DEF l, low
<1>2. PICK m \in Nat \ {0}, c \in Nat \ {0}, u \in Nat, q \in Nat \ {0} :
        /\ m = BPow[l] /\ c = Pow2[low] /\ u = LimbAt(x, l) /\ q = X * h
  <2>1. LimbAt(x, l) \in Nat
    BY <1>1, VectorLimbs, BaseAssumption DEF Word
  <2>2. X * h \in Nat \ {0}
    BY <1>1
  <2>3. QED
    BY <1>1, <2>1, <2>2, BPowDef, Pow2Def
<1>3. PICK a \in 0..(m-1), t \in Int : Number(x) = a + m * (u + B * t)
  <2>1. \E a \in 0..(BPow[l]-1), t \in Int : Number(x) = a + BPow[l] * (LimbAt(x, l) + B * t)
    BY <1>1, AroundLimb
  <2>2. QED
    BY <1>2, <2>1
<1>4. PICK v \in Nat : v = Number(x)
  BY VectorNumber
<1>5. v = a + m * (u + (c * q) * t)
  <2>1. B = c * q
    BY <1>1, <1>2, Zenon
  <2>2. QED
    BY <1>3, <1>4, <2>1, Zenon
<1>6. v \div (m * c) = (u \div c) + q * t
  BY <1>5, InsideQuotient
<1>7. PICK d \in Int : d = u \div c
  OBVIOUS
<1>8. (d + q * t) % X = d % X
  <2>1. q * t = X * (h * t) /\ h * t \in Int
    BY <1>1, <1>2
  <2>2. \A b \in Nat \ {0} : \A y, z \in Int : (y + b * z) % b = y % b
    <3> SUFFICES ASSUME NEW b \in Nat \ {0}, NEW y \in Int, NEW z \in Int
                 PROVE  (y + b * z) % b = y % b
      OBVIOUS
    <3>1. PICK g \in Int, f \in 0..(b-1) : f = y % b /\ y = f + g * b
      BY Division
    <3>2. y + b * z = f + (g + z) * b /\ g + z \in Int
      BY <3>1
    <3>3. (f + (g + z) * b) % b = f
      BY <3>2, Residue
    <3>4. QED
      BY <3>1, <3>2, <3>3
  <2>3. QED
    BY <1>1, <2>1, <2>2
<1>9. DigitOf(x, p) = d % X
  BY <1>1, <1>2, <1>7 DEF DigitOf, l, low
<1>10. Number(x) \div Pow2[DigitBits * p] = d + q * t
  BY <1>1, <1>2, <1>4, <1>6, <1>7, Zenon
<1>11. d % X \in 0..(X-1)
  BY <1>1
<1>12. QED
  BY <1>8, <1>9, <1>10, <1>11

-----------------------------------------------------------------------------
(* Strings of digits.                                                      *)

(* The number a string denotes: its recursion.                             *)
LEMMA ValueRec ==
  ASSUME NEW ds \in Seq(Nat), NEW base \in Nat
  PROVE  \E v \in [Nat -> Nat] :
           /\ v[0] = 0 /\ DigitValue(ds, base) = v[Len(ds)]
           /\ \A k \in 0..(Len(ds)-1) : v[k+1] = v[k] * base + ds[k+1]
<1> DEFINE step == [k \in Nat |-> [u \in Nat |->
                      IF k+1 \in DOMAIN ds THEN u * base + ds[k+1] ELSE 0]]
           value == CHOOSE c : c = [k \in Nat |->
                      IF k \in DOMAIN ds THEN c[k-1] * base + ds[k] ELSE 0]
<1>1. Len(ds) \in Nat /\ DOMAIN ds = 1..Len(ds) /\ \A k \in 1..Len(ds) : ds[k] \in Nat
  BY SequenceParts
<1>2. \A k, u \in Nat : k \in 1..Len(ds) => u * base + ds[k] \in Nat
  <2> SUFFICES ASSUME NEW k \in 1..Len(ds), NEW u \in Nat PROVE u * base + ds[k] \in Nat
    OBVIOUS
  <2>1. u * base \in Nat /\ ds[k] \in Nat
    BY <1>1
  <2>2. QED
    BY <2>1
<1>3. step \in [Nat -> [Nat -> Nat]]
  BY <1>1, <1>2
<1>4. PICK g : Follows(Nat, 0, step, g)
  <2> HIDE DEF step
  <2>1. 0 \in Nat
    OBVIOUS
  <2>2. QED
    BY <1>3, <2>1, RecursionForm
<1>5. g = [k \in Nat |-> IF k \in DOMAIN ds THEN g[k-1] * base + ds[k] ELSE 0]
  <2>1. ASSUME NEW k \in Nat
        PROVE  (IF k = 0 THEN 0 ELSE step[k-1][g[k-1]])
                 = IF k \in DOMAIN ds THEN g[k-1] * base + ds[k] ELSE 0
    <3>1. CASE k = 0
      BY <1>1, <3>1
    <3>2. CASE k # 0
      <4>1. k-1 \in Nat /\ (k-1)+1 = k
        BY <3>2
      <4>2. g[k-1] \in Nat
        BY <1>4, <4>1 DEF Follows
      <4>3. QED
        BY <3>2, <4>1, <4>2
    <3>3. QED
      BY <3>1, <3>2
  <2> HIDE DEF step
  <2>2. QED
    BY <1>4, <2>1 DEF Follows
<1>6. value = [k \in Nat |-> IF k \in DOMAIN ds THEN value[k-1] * base + ds[k] ELSE 0]
  BY <1>5, Zenon
<1>7. DigitValue(ds, base) = value[Len(ds)]
  BY DEF DigitValue
<1> HIDE DEF value
<1>8. \A k \in Nat : value[k] = IF k \in DOMAIN ds THEN value[k-1] * base + ds[k] ELSE 0
  BY <1>6, Zenon
<1>9. value[0] = 0 /\ \A k \in 0..(Len(ds)-1) : value[k+1] = value[k] * base + ds[k+1]
  <2>1. value[0] = 0
    BY <1>1, <1>8
  <2>2. ASSUME NEW k \in 0..(Len(ds)-1) PROVE value[k+1] = value[k] * base + ds[k+1]
    <3>1. k+1 \in Nat /\ k+1 \in 1..Len(ds) /\ (k+1)-1 = k
      BY <1>1
    <3>2. QED
      BY <1>1, <1>8, <3>1
  <2>3. QED
    BY <2>1, <2>2
<1>10. value \in [Nat -> Nat]
  <2> DEFINE P == {k \in Nat : value[k] \in Nat}
  <2>1. 0 \in P
    BY <1>9
  <2>2. \A k \in P : k+1 \in P
    <3> SUFFICES ASSUME NEW k \in Nat, value[k] \in Nat PROVE value[k+1] \in Nat
      OBVIOUS
    <3>1. CASE k+1 \in 1..Len(ds)
      <4>1. k \in 0..(Len(ds)-1)
        BY <1>1, <3>1
      <4>2. value[k+1] = value[k] * base + ds[k+1]
        BY <1>9, <4>1
      <4>3. k+1 \in Nat
        OBVIOUS
      <4>4. value[k] * base + ds[k+1] \in Nat
        BY <1>2, <3>1, <4>3
      <4>5. QED
        BY <4>2, <4>4, Zenon
    <3>2. CASE k+1 \notin 1..Len(ds)
      <4>1. k+1 \in Nat
        OBVIOUS
      <4>2. QED
        BY <1>1, <1>8, <3>2, <4>1
    <3>3. QED
      BY <3>1, <3>2
  <2>3. P = Nat
    BY <2>1, <2>2, SetInduction
  <2>4. \A k \in Nat : value[k] \in Nat
    BY <2>3
  <2>5. value = [k \in Nat |-> value[k]]
    BY <1>6
  <2>6. QED
    BY <2>4, <2>5
<1>11. QED
  BY <1>7, <1>9, <1>10

(* One digit.                                                              *)
LEMMA OneDigit ==
  ASSUME NEW d \in Nat, NEW base \in Nat
  PROVE  DigitValue(<<d>>, base) = d
<1>1. <<d>> \in Seq(Nat) /\ Len(<<d>>) = 1 /\ <<d>>[1] = d
  OBVIOUS
<1>2. PICK v \in [Nat -> Nat] :
        /\ v[0] = 0 /\ DigitValue(<<d>>, base) = v[Len(<<d>>)]
        /\ \A k \in 0..(Len(<<d>>)-1) : v[k+1] = v[k] * base + <<d>>[k+1]
  BY <1>1, ValueRec
<1>3. v[0+1] = v[0] * base + <<d>>[0+1]
  BY <1>1, <1>2
<1>4. 0 * base + d = d /\ 0 + 1 = 1
  OBVIOUS
<1>5. v[1] = d
  BY <1>1, <1>2, <1>3, <1>4
<1>6. QED
  BY <1>1, <1>2, <1>5

(* The digits of a number, highest first, denote it if there are enough.   *)
LEMMA DigitsDenote ==
  ASSUME NEW n \in Nat, NEW w \in Nat, NEW ds \in Seq(Nat), NEW v \in Nat,
         Len(ds) = n, v < Pow2[w * n],
         \A k \in 1..n : ds[k] = (v \div Pow2[w * (n-k)]) % Pow2[w]
  PROVE  DigitValue(ds, Pow2[w]) = v
<1>1. Pow2[w] \in Nat \ {0}
  BY Pow2Def
<1>2. PICK f \in [Nat -> Nat] :
        /\ f[0] = 0 /\ DigitValue(ds, Pow2[w]) = f[n]
        /\ \A k \in 0..(n-1) : f[k+1] = f[k] * Pow2[w] + ds[k+1]
  <2>1. Pow2[w] \in Nat
    BY <1>1
  <2>2. QED
    BY <2>1, ValueRec
<1> DEFINE P == {k \in Nat : k <= n => f[k] = v \div Pow2[w * (n-k)]}
<1>3. 0 \in P
  <2>1. n - 0 = n /\ w * n \in Nat
    OBVIOUS
  <2>2. v \div Pow2[w * n] = 0
    BY <2>1, NothingLeft
  <2>3. QED
    BY <1>2, <2>1, <2>2
<1>4. \A k \in P : k+1 \in P
  <2> SUFFICES ASSUME NEW k \in Nat, k+1 <= n, f[k] = v \div Pow2[w * (n-k)]
               PROVE  f[k+1] = v \div Pow2[w * (n-(k+1))]
    OBVIOUS
  <2>1. PICK i \in Nat : i = n - (k+1) /\ n - k = i + 1
    <3>1. n - (k+1) \in Nat /\ n - k = (n - (k+1)) + 1
      OBVIOUS
    <3>2. QED
      BY <3>1
  <2>2. k \in 0..(n-1) /\ k+1 \in 1..n
    OBVIOUS
  <2>3. f[k+1] = f[k] * Pow2[w] + ds[k+1]
    BY <1>2, <2>2
  <2>4. ds[k+1] = (v \div Pow2[w * i]) % Pow2[w]
    BY <2>1, <2>2
  <2>5. v \div Pow2[w * i] = (v \div Pow2[w * (i+1)]) * Pow2[w] + ((v \div Pow2[w * i]) % Pow2[w])
    BY DigitBelow
  <2>6. f[k] = v \div Pow2[w * (i+1)]
    BY <2>1
  <2>7. QED
    BY <2>1, <2>3, <2>4, <2>5, <2>6, Zenon
<1>5. P = Nat
  <2>1. P \subseteq Nat
    OBVIOUS
  <2> HIDE DEF P
  <2>2. QED
    BY <1>3, <1>4, <2>1, SetInduction
<1>6. f[n] = v \div Pow2[w * (n-n)]
  <2>1. n \in P
    BY <1>5, Zenon
  <2>2. n <= n
    OBVIOUS
  <2>3. QED
    BY <2>1, <2>2, Zenon
<1>7. v \div Pow2[w * (n-n)] = v
  <2>1. w * (n-n) = 0
    OBVIOUS
  <2>2. Pow2[0] = 1
    BY Pow2Def
  <2>3. Pow2[w * (n-n)] = 1
    BY <2>1, <2>2, Zenon
  <2>4. QED
    BY <2>3
<1>8. QED
  BY <1>2, <1>6, <1>7

(* The digits of a vector are those of its number.                         *)
LEMMA DigitsRight ==
  ASSUME NEW x \in Seq(Word), NEW size \in Nat
  PROVE  /\ Digits(x, size) \in Seq(0..(X-1)) /\ Len(Digits(x, size)) = size
         /\ \A k \in 1..size : Digits(x, size)[k] = DigitOf(x, size - k)
         /\ Number(x) < Pow2[DigitBits * size] => DigitValue(Digits(x, size), X) = Number(x)
<1>1. X \in Nat \ {0} /\ X = Pow2[DigitBits] /\ DigitBits \in Nat
  BY DigitWidth DEF X
<1>2. \A k \in 1..size : size - k \in Nat
  OBVIOUS
<1>3. \A k \in 1..size : DigitOf(x, size - k) \in 0..(X-1)
  BY <1>2, DigitNumber
<1>4. Digits(x, size) = [k \in 1..size |-> DigitOf(x, size - k)]
  BY DEF Digits
<1>5. Digits(x, size) \in [1..size -> 0..(X-1)]
  BY <1>3, <1>4
<1>6. /\ Digits(x, size) \in Seq(0..(X-1)) /\ Len(Digits(x, size)) = size
      /\ Digits(x, size) \in Seq(Nat)
  <2>1. Digits(x, size) \in [1..size -> Nat]
    BY <1>1, <1>5
  <2>2. Digits(x, size) \in Seq(0..(X-1)) /\ Digits(x, size) \in Seq(Nat)
    BY <1>5, <2>1, SequenceMade
  <2>3. DOMAIN Digits(x, size) = 1..size
    BY <1>4
  <2>4. QED
    BY <2>2, <2>3
<1>7. ASSUME Number(x) < Pow2[DigitBits * size]
      PROVE  DigitValue(Digits(x, size), X) = Number(x)
  <2>1. Number(x) \in Nat
    BY VectorNumber
  <2>2. \A k \in 1..size : Digits(x, size)[k]
                              = (Number(x) \div Pow2[DigitBits * (size-k)]) % Pow2[DigitBits]
    BY <1>1, <1>2, <1>4, DigitNumber
  <2>3. DigitValue(Digits(x, size), Pow2[DigitBits]) = Number(x)
    BY <1>1, <1>6, <1>7, <2>1, <2>2, DigitsDenote
  <2>4. QED
    BY <1>1, <2>3
<1>8. QED
  BY <1>4, <1>6, <1>7

(* What the text of a number must be: digits below the base, at least one, *)
(* no leading zero, and the number.                                        *)
Text(ds, base, v) ==
  /\ ds \in Seq(0..(base-1)) /\ Len(ds) \in Nat /\ Len(ds) >= 1 /\ Shortest(ds)
  /\ DigitValue(ds, base) = v

(* to_hex starts at the highest digit that is not 0, and has all below.    *)
LEMMA HexText ==
  ASSUME NEW x, Canonical(x)
  PROVE  Text(ToHex(x), X, Number(x))
<1>1. x \in Seq(Word) /\ Len(x) \in Nat /\ Number(x) \in Nat /\ Number(x) < BPow[Len(x)]
  BY VectorNumber, VectorLimbs DEF Canonical
<1>2. /\ DigitBits \in Nat /\ Per \in Nat \ {0} /\ W = DigitBits * Per
      /\ X \in Nat \ {0} /\ X = Pow2[DigitBits]
  BY DigitWidth, DigitProduct DEF X
<1>3. IsZero(x) <=> Number(x) = 0
  BY CanonicalBound
<1>4. CASE IsZero(x)
  <2>1. ToHex(x) = <<0>>
    BY <1>4 DEF ToHex
  <2>2. <<0>> \in Seq(0..(X-1)) /\ Len(<<0>>) = 1
    <3>1. 0 \in 0..(X-1)
      BY <1>2
    <3>2. QED
      BY <3>1
  <2>3. DigitValue(<<0>>, X) = 0
    BY <1>2, OneDigit
  <2>4. QED
    BY <1>3, <1>4, <2>1, <2>2, <2>3 DEF Text, Shortest
<1>5. CASE ~IsZero(x)
  <2> DEFINE n == Len(x) * Per
             P == {p \in 0..(n-1) : DigitOf(x, p) # 0}
  <2>1. n \in Nat /\ Number(x) < Pow2[DigitBits * n]
    <3>1. BPow[Len(x)] = Pow2[W * Len(x)]
      BY <1>1, BPowPow2
    <3>2. (DigitBits * Per) * Len(x) = DigitBits * (Len(x) * Per)
      BY <1>1, <1>2
    <3>3. QED
      BY <1>1, <1>2, <3>1, <3>2
  <2> HIDE DEF n
  <2>2. PICK m \in 0..(n-1) :
          /\ Number(x) < Pow2[DigitBits * (m+1)]
          /\ (Number(x) \div Pow2[DigitBits * m]) % Pow2[DigitBits] # 0
          /\ \A k \in Nat : k > m => (Number(x) \div Pow2[DigitBits * k]) % Pow2[DigitBits] = 0
    <3>1. Number(x) > 0
      BY <1>1, <1>3, <1>5
    <3>2. QED
      BY <1>1, <1>2, <2>1, <3>1, TopPlace
  <2>3. m \in Nat /\ DigitOf(x, m) # 0
    <3>1. m \in Nat
      BY <2>1
    <3>2. QED
      BY <1>1, <1>2, <2>2, <3>1, DigitNumber
  <2>4. \A k \in Nat : k > m => DigitOf(x, k) = 0
    BY <1>1, <1>2, <2>2, DigitNumber
  <2>5. Max(P) = m
    <3>1. m \in P /\ P \subseteq Nat /\ P # {}
      BY <2>1, <2>3
    <3>2. \A k \in P : k <= m
      BY <2>1, <2>3, <2>4
    <3> HIDE DEF P
    <3>3. Max(P) \in P /\ \A k \in P : k <= Max(P)
      BY <2>3, <3>1, <3>2, MaxBounded
    <3>4. Max(P) <= m /\ m <= Max(P) /\ Max(P) \in Nat
      BY <3>1, <3>2, <3>3
    <3>5. QED
      BY <2>3, <3>4
  <2>6. ToHex(x) = Digits(x, 1 + m)
    BY <1>5, <2>5 DEF ToHex, n
  <2>7. 1 + m = m + 1 /\ m + 1 \in Nat /\ 1 \in 1..(m+1) /\ (m + 1) - 1 = m
    BY <2>3
  <2>8. /\ Digits(x, m+1) \in Seq(0..(X-1)) /\ Len(Digits(x, m+1)) = m+1
        /\ Digits(x, m+1)[1] = DigitOf(x, (m+1) - 1)
        /\ DigitValue(Digits(x, m+1), X) = Number(x)
    BY <1>1, <2>2, <2>7, DigitsRight
  <2>9. ToHex(x) = Digits(x, m+1) /\ Digits(x, m+1)[1] # 0 /\ m + 1 >= 1
    BY <2>3, <2>6, <2>7, <2>8
  <2>10. QED
    BY <2>7, <2>8, <2>9 DEF Text, Shortest
<1>6. QED
  BY <1>4, <1>5

-----------------------------------------------------------------------------
(* The number of a string of digits.                                       *)

(* Digits put together in two parts.                                       *)
LEMMA JoinedSplit ==
  ASSUME NEW w \in Nat, NEW f \in DigitArrays(w), NEW g \in DigitArrays(w), NEW a \in Nat,
         NEW n \in Nat, \A p \in 0..(n-1) : g[p] = f[a + p]
  PROVE  Joined(f, w, a + n) = Joined(f, w, a) + Pow2[w * a] * Joined(g, w, n)
<1> DEFINE P == {j \in Nat : j <= n => Joined(f, w, a + j) = Joined(f, w, a) + Pow2[w * a] * Joined(g, w, j)}
<1>1. /\ \A k \in Nat : Joined(f, w, k) \in Nat /\ Joined(g, w, k) \in Nat
      /\ Joined(g, w, 0) = 0
      /\ \A k \in Nat : Joined(f, w, k+1) = Joined(f, w, k) + f[k] * Pow2[w * k]
      /\ \A k \in Nat : Joined(g, w, k+1) = Joined(g, w, k) + g[k] * Pow2[w * k]
  BY JoinedRec
<1>2. 0 \in P
  <2>1. a + 0 = a /\ Joined(f, w, a) \in Nat
    BY <1>1
  <2>2. Pow2[w * a] * 0 = 0
    <3>1. Pow2[w * a] \in Nat
      BY NextWeight
    <3>2. QED
      BY <3>1
  <2>3. Joined(f, w, a) + 0 = Joined(f, w, a)
    BY <2>1
  <2>4. Joined(f, w, a + 0) = Joined(f, w, a) + Pow2[w * a] * Joined(g, w, 0)
    BY <1>1, <2>1, <2>2, <2>3
  <2>5. QED
    BY <2>4
<1>3. \A j \in P : j+1 \in P
  <2> SUFFICES ASSUME NEW j \in Nat, j+1 <= n,
                      Joined(f, w, a + j) = Joined(f, w, a) + Pow2[w * a] * Joined(g, w, j)
               PROVE  Joined(f, w, a + (j+1)) = Joined(f, w, a) + Pow2[w * a] * Joined(g, w, j+1)
    OBVIOUS
  <2>1. a + j \in Nat /\ a + (j+1) = (a + j) + 1 /\ j \in 0..(n-1)
    OBVIOUS
  <2>2. g[j] = f[a + j]
    BY <2>1
  <2>3. Joined(f, w, (a + j) + 1) = Joined(f, w, a + j) + f[a + j] * Pow2[w * (a + j)]
    BY <1>1, <2>1
  <2>4. Joined(g, w, j+1) = Joined(g, w, j) + g[j] * Pow2[w * j]
    BY <1>1
  <2>5. Pow2[w * (a + j)] = Pow2[w * a] * Pow2[w * j]
    <3>1. w * (a + j) = w * a + w * j /\ w * a \in Nat /\ w * j \in Nat
      OBVIOUS
    <3>2. QED
      BY <3>1, Pow2Sum
  <2>6. PICK u \in Nat, v \in Nat, d \in Nat, p \in Nat, q \in Nat :
          /\ u = Joined(f, w, a) /\ v = Joined(g, w, j) /\ d = g[j]
          /\ p = Pow2[w * a] /\ q = Pow2[w * j]
    <3>1. g[j] \in Nat
      <4>1. g[j] \in 0..(Pow2[w] - 1)
        BY DEF DigitArrays
      <4>2. Pow2[w] \in Nat
        BY Pow2Def
      <4>3. QED
        BY <4>1, <4>2
    <3>2. QED
      BY <1>1, <3>1, NextWeight
  <2>7. (u + p * v) + d * (p * q) = u + p * (v + d * q)
    <3>1. p * (v + d * q) = p * v + d * (p * q)
      OBVIOUS
    <3>2. p * v \in Int /\ d * (p * q) \in Int
      OBVIOUS
    <3>3. QED
      BY <3>1, <3>2
  <2>8. QED
    BY <2>1, <2>2, <2>3, <2>4, <2>5, <2>6, <2>7, Zenon
<1>4. P = Nat
  <2>1. P \subseteq Nat
    OBVIOUS
  <2> HIDE DEF P
  <2>2. QED
    BY <1>2, <1>3, <2>1, SetInduction
<1>5. n \in P
  BY <1>4, Zenon
<1>6. QED
  BY <1>5

(* Zeros above add nothing.                                                *)
LEMMA JoinedZeros ==
  ASSUME NEW w \in Nat, NEW f \in DigitArrays(w), NEW n \in Nat, NEW m \in Nat,
         \A p \in Nat : p >= n => f[p] = 0
  PROVE  Joined(f, w, n + m) = Joined(f, w, n)
<1> DEFINE P == {j \in Nat : Joined(f, w, n + j) = Joined(f, w, n)}
<1>1. 0 \in P
  OBVIOUS
<1>2. \A j \in P : j+1 \in P
  <2> SUFFICES ASSUME NEW j \in Nat, Joined(f, w, n + j) = Joined(f, w, n)
               PROVE  Joined(f, w, n + (j+1)) = Joined(f, w, n)
    OBVIOUS
  <2>1. n + j \in Nat /\ n + (j+1) = (n + j) + 1 /\ n + j >= n
    OBVIOUS
  <2>2. f[n + j] = 0
    BY <2>1
  <2>3. /\ Joined(f, w, (n + j) + 1) = Joined(f, w, n + j) + f[n + j] * Pow2[w * (n + j)]
        /\ Joined(f, w, n + j) \in Nat
    BY <2>1, JoinedRec
  <2>4. Pow2[w * (n + j)] \in Nat
    BY <2>1, NextWeight
  <2>5. 0 * Pow2[w * (n + j)] = 0
    BY <2>4
  <2>6. QED
    BY <2>1, <2>2, <2>3, <2>5
<1>3. P = Nat
  <2>1. P \subseteq Nat
    OBVIOUS
  <2> HIDE DEF P
  <2>2. QED
    BY <1>1, <1>2, <2>1, SetInduction
<1>4. m \in P
  BY <1>3, Zenon
<1>5. QED
  BY <1>4

(* Limbs of some digits each: the number of the limbs is that of all the   *)
(* digits.                                                                 *)
LEMMA LimbsOfDigits ==
  ASSUME NEW f \in DigitArrays(DigitBits), NEW g \in [Nat -> Word],
         \A k \in Nat : g[k] = Joined([p \in Nat |-> f[k * Per + p]], DigitBits, Per)
  PROVE  \A k \in Nat : k * Per \in Nat /\ LimbSum(g, k) = Joined(f, DigitBits, k * Per)
<1> DEFINE P == {k \in Nat : LimbSum(g, k) = Joined(f, DigitBits, k * Per)}
<1>1. DigitBits \in Nat /\ Per \in Nat \ {0} /\ W = DigitBits * Per /\ W \in Nat
  BY DigitWidth, DigitProduct
<1>2. g \in [Nat -> Int] /\ \A k \in Nat : k * Per \in Nat
  BY <1>1, WordSum
<1>3. 0 \in P
  <2>1. 0 * Per = 0
    BY <1>1
  <2>2. LimbSum(g, 0) = 0 /\ Joined(f, DigitBits, 0) = 0
    BY <1>1, <1>2, TermSum, JoinedRec
  <2>3. LimbSum(g, 0) = Joined(f, DigitBits, 0 * Per)
    BY <2>1, <2>2, Zenon
  <2>4. QED
    BY <2>3
<1>4. \A k \in P : k+1 \in P
  <2> SUFFICES ASSUME NEW k \in Nat, LimbSum(g, k) = Joined(f, DigitBits, k * Per)
               PROVE  LimbSum(g, k+1) = Joined(f, DigitBits, (k+1) * Per)
    OBVIOUS
  <2> DEFINE h == [p \in Nat |-> f[k * Per + p]]
  <2>1. k * Per \in Nat /\ (k+1) * Per = k * Per + Per
    BY <1>1
  <2>2. h \in DigitArrays(DigitBits)
    <3>1. \A p \in Nat : k * Per + p \in Nat
      BY <2>1
    <3>2. QED
      BY <3>1 DEF DigitArrays
  <2>3. \A p \in 0..(Per-1) : h[p] = f[k * Per + p]
    OBVIOUS
  <2>4. g[k] = Joined(h, DigitBits, Per)
    OBVIOUS
  <2> HIDE DEF h
  <2>5. Joined(f, DigitBits, k * Per + Per)
          = Joined(f, DigitBits, k * Per) + Pow2[DigitBits * (k * Per)] * Joined(h, DigitBits, Per)
    <3>1. PICK a \in Nat : a = k * Per
      BY <2>1
    <3>2. \A p \in 0..(Per-1) : h[p] = f[a + p]
      BY <2>3, <3>1
    <3>3. DigitBits \in Nat /\ Per \in Nat
      BY <1>1
    <3>4. Joined(f, DigitBits, a + Per) = Joined(f, DigitBits, a) + Pow2[DigitBits * a] * Joined(h, DigitBits, Per)
      BY <2>2, <3>2, <3>3, JoinedSplit
    <3>5. QED
      BY <3>1, <3>4, Zenon
  <2>6. LimbSum(g, k+1) = LimbSum(g, k) + g[k] * BPow[k]
    BY <1>2, TermSum
  <2>7. Pow2[DigitBits * (k * Per)] = BPow[k]
    <3>1. W * k = DigitBits * (k * Per)
      BY <1>1
    <3>2. QED
      BY <3>1, BPowPow2
  <2>8. PICK u \in Int, v \in Int : u = g[k] /\ v = BPow[k]
    BY <1>2, BPowDef
  <2>9. v * u = u * v
    OBVIOUS
  <2>10. QED
    BY <2>1, <2>4, <2>5, <2>6, <2>7, <2>8, <2>9, Zenon
<1>5. P = Nat
  <2>1. P \subseteq Nat
    OBVIOUS
  <2> HIDE DEF P
  <2>2. QED
    BY <1>3, <1>4, <2>1, SetInduction
<1>6. ASSUME NEW k \in Nat PROVE LimbSum(g, k) = Joined(f, DigitBits, k * Per)
  <2>1. k \in P
    BY <1>5, Zenon
  <2>2. QED
    BY <2>1
<1>7. QED
  BY <1>2, <1>6

(* The value of a string is the number its digits add up to from the low   *)
(* end.                                                                    *)
LEMMA ValueJoined ==
  ASSUME NEW w \in Nat, NEW ds \in Seq(Nat), NEW f \in DigitArrays(w),
         \A p \in 0..(Len(ds)-1) : f[p] = ds[Len(ds) - p]
  PROVE  DigitValue(ds, Pow2[w]) = Joined(f, w, Len(ds))
<1> DEFINE n == Len(ds)
<1>1. n \in Nat /\ Pow2[w] \in Nat \ {0}
  BY SequenceParts, Pow2Def
<1> HIDE DEF n
<1>2. PICK v \in [Nat -> Nat] :
        /\ v[0] = 0 /\ DigitValue(ds, Pow2[w]) = v[n]
        /\ \A k \in 0..(n-1) : v[k+1] = v[k] * Pow2[w] + ds[k+1]
  <2>1. Pow2[w] \in Nat
    BY <1>1
  <2>2. QED
    BY <2>1, ValueRec DEF n
<1>3. /\ Joined(f, w, 0) = 0 /\ \A k \in Nat : Joined(f, w, k) \in Nat
      /\ \A k \in Nat : Joined(f, w, k+1) = Joined(f, w, k) + f[k] * Pow2[w * k]
  BY JoinedRec
<1> DEFINE Same(k) == v[k] * Pow2[w * (n-k)] + Joined(f, w, n-k) = Joined(f, w, n)
           P == {k \in Nat : k <= n => Same(k)}
<1>4. 0 \in P
  <2>1. n - 0 = n
    BY <1>1
  <2>2. 0 * Pow2[w * n] + Joined(f, w, n) = Joined(f, w, n)
    <3>1. PICK p \in Nat : p = Pow2[w * n]
      BY <1>1, NextWeight
    <3>2. PICK u \in Nat : u = Joined(f, w, n)
      BY <1>1, <1>3
    <3>3. 0 * p + u = u
      OBVIOUS
    <3>4. QED
      BY <3>1, <3>2, <3>3, Zenon
  <2>3. v[0] * Pow2[w * (n-0)] + Joined(f, w, n-0) = Joined(f, w, n)
    BY <1>2, <2>1, <2>2, Zenon
  <2>4. QED
    BY <2>3
<1>5. \A k \in P : k+1 \in P
  <2> HIDE DEF Same
  <2> SUFFICES ASSUME NEW k \in P PROVE k+1 \in P
    OBVIOUS
  <2>1. k \in Nat
    OBVIOUS
  <2> SUFFICES ASSUME k+1 <= n PROVE Same(k+1)
    BY <2>1
  <2>2. Same(k)
    BY <1>1, <2>1
  <2> USE DEF Same
  <2>3. PICK i \in Nat : i = n - (k+1) /\ n - k = i + 1 /\ n - i = k + 1 /\ i \in 0..(n-1) /\ k \in 0..(n-1)
    <3>1. n - (k+1) \in Nat /\ n - k = (n - (k+1)) + 1 /\ n - (n - (k+1)) = k + 1
      BY <1>1, <2>1
    <3>2. QED
      BY <1>1, <2>1, <3>1
  <2>4. v[k+1] = v[k] * Pow2[w] + f[i]
    <3>1. f[i] = ds[n - i]
      BY <2>3 DEF n
    <3>2. QED
      BY <1>2, <2>3, <3>1
  <2>5. Joined(f, w, i+1) = Joined(f, w, i) + f[i] * Pow2[w * i]
    BY <1>3
  <2>6. Pow2[w * (i+1)] = Pow2[w * i] * Pow2[w]
    BY NextWeight
  <2>7. PICK a \in Nat, d \in Nat, p \in Nat, q \in Nat, u \in Nat :
          a = v[k] /\ d = f[i] /\ p = Pow2[w * i] /\ q = Pow2[w] /\ u = Joined(f, w, i)
    <3>1. f[i] \in Nat
      <4>1. f[i] \in 0..(Pow2[w] - 1)
        BY DEF DigitArrays
      <4>2. QED
        BY <1>1, <4>1
    <3>2. v[k] \in Nat /\ Pow2[w * i] \in Nat /\ Pow2[w] \in Nat
      BY <1>1, <2>1, NextWeight
    <3>3. QED
      BY <1>3, <3>1, <3>2
  <2>8. (a * q + d) * p + u = a * (p * q) + (u + d * p)
    <3>1. (a * q + d) * p = a * (p * q) + d * p
      OBVIOUS
    <3>2. a * (p * q) \in Int /\ d * p \in Int /\ (a * q + d) * p \in Int
      OBVIOUS
    <3>3. QED
      BY <3>1, <3>2
  <2>9. v[k+1] * Pow2[w * i] + Joined(f, w, i) = v[k] * Pow2[w * (i+1)] + Joined(f, w, i+1)
    BY <2>4, <2>5, <2>6, <2>7, <2>8, Zenon
  <2>10. QED
    BY <2>3, <2>9, <2>2
<1>6. P = Nat
  <2>1. P \subseteq Nat
    OBVIOUS
  <2> HIDE DEF P
  <2>2. QED
    BY <1>4, <1>5, <2>1, SetInduction
<1>7. v[n] * Pow2[w * (n-n)] + Joined(f, w, n-n) = Joined(f, w, n)
  <2>1. n \in P
    BY <1>1, <1>6, Zenon
  <2>2. n <= n
    BY <1>1
  <2>3. QED
    BY <2>1, <2>2, Zenon
<1>8. v[n] * Pow2[w * (n-n)] + Joined(f, w, n-n) = v[n]
  <2>1. n - n = 0 /\ w * 0 = 0
    BY <1>1
  <2>2. Pow2[w * (n-n)] = 1 /\ Joined(f, w, n-n) = 0
    BY <1>3, <2>1, Pow2Def, Zenon
  <2>3. PICK y \in Nat : y = v[n]
    BY <1>1
  <2>4. y * 1 + 0 = y
    OBVIOUS
  <2>5. QED
    BY <2>2, <2>3, <2>4, Zenon
<1>9. QED
  BY <1>2, <1>7, <1>8, Zenon DEF n

(* Rounding up.                                                            *)
LEMMA CeilBound ==
  ASSUME NEW u \in Nat, NEW v \in Nat \ {0}
  PROVE  /\ CeilDiv(u, v) \in Nat /\ u <= CeilDiv(u, v) * v
         /\ \A k \in Nat : k < CeilDiv(u, v) => k * v < u
<1>1. u + v - 1 \in Nat
  OBVIOUS
<1>2. PICK q \in Int, e \in 0..(v-1) : q = (u + v - 1) \div v /\ u + v - 1 = e + q * v
  <2>1. u + v - 1 \in Int
    BY <1>1
  <2>2. QED
    BY <2>1, Division
<1>3. q \in Nat
  BY <1>1, <1>2
<1>4. u <= q * v
  <2>1. q * v \in Int
    OBVIOUS
  <2>2. QED
    BY <1>2, <2>1
<1>5. ASSUME NEW k \in Nat, k < q PROVE k * v < u
  <2>1. (k+1) * v <= q * v
    <3>1. k+1 \in Nat /\ k+1 <= q
      BY <1>3, <1>5
    <3>2. QED
      BY <1>3, <3>1, TimesMono
  <2>2. (k+1) * v = k * v + v /\ k * v \in Int /\ q * v \in Int
    OBVIOUS
  <2>3. QED
    BY <1>2, <2>1, <2>2
<1>6. QED
  BY <1>2, <1>3, <1>4, <1>5 DEF CeilDiv

(* The constructors from text and from bytes: the number the digits name.  *)
LEMMA DigitsNumber ==
  ASSUME NEW ds \in Seq(0..(X-1))
  PROVE  Canonical(FromDigits(ds)) /\ Number(FromDigits(ds)) = DigitValue(ds, X)
<1> DEFINE n == Len(ds)
           words == Max({1, CeilDiv(Len(ds), Per)})
           digit(p) == IF p < Len(ds) THEN ds[Len(ds) - p] ELSE 0
           row(k) == [p \in Nat |-> digit((k-1) * Per + p)]
           x == [k \in 1..words |-> Joined(row(k), DigitBits, Per)]
           f == [p \in Nat |-> digit(p)]
           g == [k \in Nat |-> Joined([p \in Nat |-> f[k * Per + p]], DigitBits, Per)]
<1>1. /\ DigitBits \in Nat /\ Per \in Nat \ {0} /\ Pow2[DigitBits * Per] = B
      /\ X \in Nat \ {0} /\ X = Pow2[DigitBits]
  BY DigitWidth DEF X
<1>2. n \in Nat /\ \A k \in 1..n : ds[k] \in 0..(X-1)
  BY SequenceParts
<1>3. words \in Nat /\ n <= words * Per
  <2>1. CeilDiv(n, Per) \in Nat /\ n <= CeilDiv(n, Per) * Per
    BY <1>1, <1>2, CeilBound
  <2>2. words \in Nat /\ CeilDiv(n, Per) <= words
    BY <2>1, MaxPair
  <2> HIDE DEF words
  <2>3. CeilDiv(n, Per) * Per <= words * Per
    BY <1>1, <2>1, <2>2, TimesMono
  <2>4. PICK u \in Nat, v \in Nat : u = CeilDiv(n, Per) * Per /\ v = words * Per
    BY <1>1, <2>1, <2>2
  <2>5. QED
    BY <1>2, <2>1, <2>2, <2>3, <2>4
<1> HIDE DEF words
<1>4. f \in DigitArrays(DigitBits)
  <2>1. ASSUME NEW p \in Nat PROVE digit(p) \in 0..(X-1)
    <3>1. CASE p < n
      <4>1. n - p \in 1..n
        BY <1>2, <3>1
      <4>2. QED
        BY <1>2, <3>1, <4>1
    <3>2. CASE ~(p < n)
      BY <1>1, <3>2
    <3>3. QED
      BY <3>1, <3>2
  <2> HIDE DEF digit
  <2>2. QED
    BY <1>1, <2>1 DEF DigitArrays
<1>5. ASSUME NEW k \in Nat PROVE g[k] \in Word
  <2> DEFINE h == [p \in Nat |-> f[k * Per + p]]
  <2>1. \A p \in Nat : k * Per + p \in Nat
    BY <1>1
  <2>2. h \in DigitArrays(DigitBits)
    <3> HIDE DEF f
    <3>1. QED
      BY <1>4, <2>1 DEF DigitArrays
  <2>3. g[k] = Joined(h, DigitBits, Per)
    OBVIOUS
  <2> HIDE DEF h, g
  <2>4. Joined(h, DigitBits, Per) \in 0..(Pow2[DigitBits * Per] - 1)
    BY <1>1, <2>2, JoinedBound
  <2>5. QED
    BY <1>1, <2>3, <2>4 DEF Word
<1>6. g \in [Nat -> Word]
  BY <1>5
<1>7. x = [k \in 1..words |-> g[k-1]]
  <2>1. ASSUME NEW k \in 1..words PROVE Joined(row(k), DigitBits, Per) = g[k-1]
    <3>1. k-1 \in Nat /\ \A p \in Nat : (k-1) * Per + p \in Nat
      BY <1>1, <1>3
    <3>2. row(k) = [p \in Nat |-> f[(k-1) * Per + p]]
      <4> HIDE DEF digit
      <4>1. QED
        BY <3>1
    <3>3. g[k-1] = Joined([p \in Nat |-> f[(k-1) * Per + p]], DigitBits, Per)
      <4> HIDE DEF f
      <4>1. QED
        BY <3>1
    <3>4. QED
      BY <3>2, <3>3, Zenon
  <2> HIDE DEF row, g
  <2>2. QED
    BY <2>1
<1>8. FromDigits(ds) = Normal(x)
  BY DEF FromDigits, words, digit
<1>9. \A k \in Nat : g[k] = Joined([p \in Nat |-> f[k * Per + p]], DigitBits, Per)
  <2> HIDE DEF f
  <2>1. QED
    OBVIOUS
<1>10. \A p \in Nat : p >= n => f[p] = 0
  BY <1>2
<1>11. \A p \in 0..(n-1) : f[p] = ds[n - p]
  BY <1>2
<1> HIDE DEF x, f, g, digit, row
<1>12. x \in Seq(Word) /\ Number(x) = LimbSum(g, words)
  BY <1>3, <1>6, <1>7, MadeVector
<1>13. words * Per \in Nat /\ LimbSum(g, words) = Joined(f, DigitBits, words * Per)
  BY <1>3, <1>4, <1>6, <1>9, LimbsOfDigits
<1>14. Joined(f, DigitBits, words * Per) = Joined(f, DigitBits, n)
  <2>1. PICK m \in Nat : words * Per = n + m
    <3>1. PICK v \in Nat : v = words * Per
      BY <1>13
    <3>2. v - n \in Nat /\ v = n + (v - n)
      BY <1>2, <1>3, <3>1
    <3>3. QED
      BY <3>1, <3>2
  <2>2. Joined(f, DigitBits, n + m) = Joined(f, DigitBits, n)
    <3>1. PICK l \in Nat, w \in Nat : l = n /\ w = DigitBits
      BY <1>1, <1>2
    <3>2. f \in DigitArrays(w) /\ \A p \in Nat : p >= l => f[p] = 0
      BY <1>4, <1>10, <3>1
    <3>3. Joined(f, w, l + m) = Joined(f, w, l)
      BY <3>2, JoinedZeros
    <3>4. QED
      BY <3>1, <3>3
  <2>3. QED
    BY <2>1, <2>2, Zenon
<1>15. DigitValue(ds, X) = Joined(f, DigitBits, n)
  <2>1. ds \in Seq(Nat)
    <3>1. ds \in [1..n -> Nat]
      <4>1. ds \in [1..n -> 0..(X-1)]
        BY SequenceParts
      <4>2. QED
        BY <1>1, <4>1
    <3>2. QED
      BY <1>2, <3>1, SequenceMade
  <2>2. QED
    BY <1>1, <1>4, <1>11, <2>1, ValueJoined DEF n
<1>16. QED
  BY <1>8, <1>12, <1>13, <1>14, <1>15, NormalVector

(* What was written reads back.                                            *)
LEMMA ReadsBack ==
  ASSUME NEW x, Canonical(x), NEW ds \in Seq(0..(X-1)), DigitValue(ds, X) = Number(x)
  PROVE  FromDigits(ds) = x
<1>1. Canonical(FromDigits(ds)) /\ Number(FromDigits(ds)) = Number(x)
  BY DigitsNumber
<1>2. QED
  BY <1>1, CompareNumbers

LEMMA TextReadsBack ==
  ASSUME NEW x, Canonical(x)
  PROVE  /\ FromHex(ToHex(x)) = x
         /\ FromHex(<<0, X>> \o ToHex(x)) = x /\ FromHex(<<0, X>>) = <<>>
<1> DEFINE u == ToHex(x)
           t == <<0, X>> \o u
<1>1. u \in Seq(0..(X-1)) /\ Len(u) \in Nat /\ Len(u) >= 1 /\ DigitValue(u, X) = Number(x)
  BY HexText DEF Text
<1>2. X \in Nat \ {0}
  BY DigitWidth
<1>3. FromDigits(u) = x
  BY <1>1, ReadsBack
<1> HIDE DEF u
<1>4. DOMAIN u = 1..Len(u) /\ \A k \in 1..Len(u) : u[k] \in 0..(X-1)
  BY <1>1, SequenceParts
<1>5. \A k \in DOMAIN u : u[k] # X
  BY <1>2, <1>4
<1>6. u # <<>>
  BY <1>1
<1>7. FromHex(u) = x
  <2>1. Stripped(u) = u
    <3>1. Len(u) > 2 => u[2] # X
      BY <1>1, <1>4, <1>5
    <3>2. QED
      BY <3>1 DEF Stripped
  <2>2. QED
    BY <1>3, <1>5, <1>6, <2>1 DEF FromHex
<1>8. FromHex(t) = x
  <2>1. Len(t) > 2 /\ t[1] = 0 /\ t[2] = X /\ t # <<>>
    <3>1. <<0, X>> \in Seq(0..X) /\ u \in Seq(0..X)
      <4>1. u \in [1..Len(u) -> 0..X]
        <5>1. u \in [1..Len(u) -> 0..(X-1)]
          BY <1>1, SequenceParts
        <5>2. QED
          BY <1>2, <5>1
      <4>2. u \in Seq(0..X)
        BY <1>1, <4>1, SequenceMade
      <4>3. 0 \in 0..X /\ X \in 0..X
        BY <1>2
      <4>4. QED
        BY <4>2, <4>3
    <3>2. QED
      BY <1>1, <3>1
  <2>2. SubSeq(t, 3, Len(t)) = u
    BY <1>1
  <2> HIDE DEF t
  <2>3. Stripped(t) = u
    BY <2>1, <2>2 DEF Stripped
  <2>4. QED
    BY <1>3, <1>5, <2>1, <2>3 DEF FromHex
<1>9. FromHex(<<0, X>>) = <<>>
  <2>1. Stripped(<<0, X>>) = <<0, X>>
    BY DEF Stripped
  <2>2. 2 \in DOMAIN <<0, X>> /\ <<0, X>>[2] = X
    OBVIOUS
  <2>3. QED
    BY <2>1, <2>2 DEF FromHex
<1>10. QED
  BY <1>7, <1>8, <1>9 DEF u

(* to_bytes_be: the bytes asked for, or as many as the number needs; an    *)
(* exception exactly when it needs more than were asked for.               *)
LEMMA BytesNumber ==
  ASSUME NEW x, Canonical(x), NEW size \in Nat
  PROVE  IF size > 0 /\ Number(x) >= Pow2[DigitBits * size] THEN ToBytes(x, size) = <<>>
         ELSE /\ ToBytes(x, size) \in Seq(0..(X-1)) /\ Len(ToBytes(x, size)) > 0
              /\ size > 0 => Len(ToBytes(x, size)) = size
              /\ DigitValue(ToBytes(x, size), X) = Number(x)
<1> DEFINE need == ByteNeed(x)
<1>1. x \in Seq(Word) /\ Number(x) \in Nat
  BY VectorNumber DEF Canonical
<1>2. DigitBits \in Nat \ {0}
  BY DigitProduct
<1>3. /\ NumBits(x) \in Nat /\ Number(x) < Pow2[NumBits(x)]
      /\ NumBits(x) > 0 => Number(x) >= Pow2[NumBits(x) - 1]
  BY NumBitsBound
<1>4. /\ need \in Nat /\ NumBits(x) <= need * DigitBits
      /\ \A k \in Nat : k < need => k * DigitBits < NumBits(x)
  BY <1>2, <1>3, CeilBound DEF ByteNeed
<1> HIDE DEF need
<1>5. ASSUME NEW k \in Nat, k < need PROVE Number(x) >= Pow2[DigitBits * k]
  <2>1. PICK p \in Nat, n \in Nat : p = DigitBits * k /\ n = NumBits(x) /\ p < n
    <3>1. DigitBits * k = k * DigitBits /\ k * DigitBits \in Nat
      BY <1>2
    <3>2. k * DigitBits < NumBits(x)
      BY <1>4, <1>5
    <3>3. QED
      BY <1>3, <3>1, <3>2
  <2>2. p <= n - 1 /\ n - 1 \in Nat /\ n > 0
    BY <2>1
  <2>3. Pow2[p] <= Pow2[n - 1] /\ Pow2[p] \in Nat /\ Pow2[n - 1] \in Nat
    BY <2>2, Pow2Grows, Pow2Def
  <2>4. Number(x) >= Pow2[n - 1]
    BY <1>3, <2>1, <2>2
  <2>5. Number(x) >= Pow2[p]
    BY <1>1, <2>3, <2>4
  <2>6. QED
    BY <2>1, <2>5
<1>6. ASSUME NEW k \in Nat, k >= need PROVE Number(x) < Pow2[DigitBits * k]
  <2>1. PICK p \in Nat, n \in Nat : p = DigitBits * k /\ n = NumBits(x) /\ n <= p
    <3>1. need * DigitBits <= k * DigitBits /\ need * DigitBits \in Nat
      BY <1>2, <1>4, <1>6, TimesMono
    <3>2. DigitBits * k = k * DigitBits /\ k * DigitBits \in Nat
      BY <1>2
    <3>3. QED
      BY <1>3, <1>4, <3>1, <3>2
  <2>2. Pow2[n] <= Pow2[p] /\ Pow2[n] \in Nat /\ Pow2[p] \in Nat
    BY <2>1, Pow2Grows, Pow2Def
  <2>3. Number(x) < Pow2[p]
    BY <1>1, <1>3, <2>1, <2>2
  <2>4. QED
    BY <2>1, <2>3
<1>7. CASE size > 0 /\ size < need
  <2>1. Number(x) >= Pow2[DigitBits * size]
    BY <1>5, <1>7
  <2>2. ToBytes(x, size) = <<>>
    BY <1>7 DEF ToBytes, need
  <2>3. QED
    BY <1>7, <2>1, <2>2
<1>8. CASE size > 0 /\ ~(size < need)
  <2>1. Number(x) < Pow2[DigitBits * size] /\ Pow2[DigitBits * size] \in Nat
    <3>1. Number(x) < Pow2[DigitBits * size]
      BY <1>4, <1>6, <1>8
    <3>2. DigitBits * size \in Nat
      BY <1>2
    <3>3. QED
      BY <3>1, <3>2, Pow2Def
  <2>2. ~(Number(x) >= Pow2[DigitBits * size])
    BY <1>1, <2>1
  <2>3. ToBytes(x, size) = Digits(x, size)
    BY <1>8 DEF ToBytes, need
  <2>4. /\ Digits(x, size) \in Seq(0..(X-1)) /\ Len(Digits(x, size)) = size
        /\ DigitValue(Digits(x, size), X) = Number(x)
    BY <1>1, <2>1, DigitsRight
  <2>5. QED
    BY <1>8, <2>2, <2>3, <2>4
<1>9. CASE ~(size > 0)
  <2> DEFINE n == Max({1, need})
  <2>1. n \in Nat /\ n >= 1 /\ n >= need
    BY <1>4, MaxPair
  <2>2. ToBytes(x, size) = Digits(x, n)
    <3>1. size = 0
      BY <1>9
    <3>2. QED
      BY <3>1 DEF ToBytes, need
  <2> HIDE DEF n
  <2>3. Number(x) < Pow2[DigitBits * n]
    BY <1>6, <2>1
  <2>4. /\ Digits(x, n) \in Seq(0..(X-1)) /\ Len(Digits(x, n)) = n
        /\ DigitValue(Digits(x, n), X) = Number(x)
    BY <1>1, <2>1, <2>3, DigitsRight
  <2>5. QED
    BY <1>9, <2>1, <2>2, <2>4
<1>10. QED
  BY <1>7, <1>8, <1>9

(* to_u64: the number if it has two limbs at most.                         *)
LEMMA TwoLimbs ==
  ASSUME NEW x, Canonical(x)
  PROVE  ToU64(x) = IF Number(x) < B * B THEN Number(x) ELSE -1
<1>1. /\ x \in Seq(Word) /\ Len(x) \in Nat /\ Len(x) >= 1
      /\ Number(x) \in Nat /\ Number(x) < BPow[Len(x)]
      /\ Len(x) > 1 => Number(x) >= BPow[Len(x) - 1]
  BY VectorNumber, VectorLimbs, CanonicalBound DEF Canonical
<1>2. BPow[0] = 1 /\ BPow[1] = B /\ BPow[2] = B * B /\ B \in Nat
  <2>1. BPow[0+1] = B * BPow[0] /\ BPow[1+1] = B * BPow[1] /\ BPow[0] = 1
    BY BPowDef
  <2>2. B \in Nat
    BY BaseAssumption
  <2>3. 0 + 1 = 1 /\ 1 + 1 = 2 /\ B * 1 = B
    BY <2>2
  <2>4. QED
    BY <2>1, <2>2, <2>3
<1>3. CASE Len(x) > 2
  <2>1. BPow[2] <= BPow[Len(x) - 1] /\ BPow[2] \in Nat /\ BPow[Len(x) - 1] \in Nat
    <3>1. Len(x) - 1 \in Nat /\ 2 <= Len(x) - 1
      BY <1>1, <1>3
    <3>2. QED
      BY <3>1, BPowGrows
  <2>2. ~(Number(x) < BPow[2])
    BY <1>1, <1>3, <2>1
  <2>3. QED
    BY <1>2, <1>3, <2>2 DEF ToU64
<1>4. CASE ~(Len(x) > 2)
  <2>1. Number(x) < BPow[2]
    <3>1. BPow[Len(x)] <= BPow[2] /\ BPow[2] \in Nat /\ BPow[Len(x)] \in Nat
      BY <1>1, <1>4, BPowGrows
    <3>2. QED
      BY <1>1, <3>1
  <2>2. Number(x) = LimbAt(x, 0) + LimbAt(x, 1) * B
    <3>1. Array(x) \in [Nat -> Int] /\ LimbSum(Array(x), 2) = Number(x)
      BY <1>1, <1>4, VectorNumber
    <3>2. /\ LimbSum(Array(x), 0) = 0
          /\ LimbSum(Array(x), 0+1) = LimbSum(Array(x), 0) + Array(x)[0] * BPow[0]
          /\ LimbSum(Array(x), 1+1) = LimbSum(Array(x), 1) + Array(x)[1] * BPow[1]
      BY <3>1, TermSum
    <3>3. PICK u \in Nat, v \in Nat : u = LimbAt(x, 0) /\ v = LimbAt(x, 1) /\ Array(x)[0] = u /\ Array(x)[1] = v
      <4>1. /\ LimbAt(x, 0) \in Word /\ LimbAt(x, 1) \in Word
            /\ Array(x)[0] = LimbAt(x, 0) /\ Array(x)[1] = LimbAt(x, 1)
        BY <1>1, VectorLimbs
      <4>2. LimbAt(x, 0) \in Nat /\ LimbAt(x, 1) \in Nat
        BY <4>1, BaseAssumption DEF Word
      <4>3. QED
        BY <4>1, <4>2
    <3>4. 0 + 1 = 1 /\ 1 + 1 = 2 /\ 0 + u * 1 = u
      OBVIOUS
    <3>5. QED
      BY <1>2, <3>1, <3>2, <3>3, <3>4
  <2>3. QED
    BY <1>2, <1>4, <2>1, <2>2 DEF ToU64
<1>5. QED
  BY <1>3, <1>4

-----------------------------------------------------------------------------
(* Decimal text.                                                           *)

(* The remainders of the short division.                                   *)
LEMMA RestsRec ==
  ASSUME NEW x \in Seq(Word)
  PROVE  /\ Rests(x) \in [Nat -> 0..(Ten-1)] /\ Rests(x)[0] = 0
         /\ \A k \in 0..(Len(x)-1) :
              Rests(x)[k+1] = (Rests(x)[k] * B + LimbAt(x, Len(x) - (k+1))) % Ten
<1> DEFINE D == 0..(Ten-1)
           step == [k \in Nat |-> [u \in D |->
                      IF k+1 \in DOMAIN x THEN (u * B + LimbAt(x, Len(x) - (k+1))) % Ten ELSE 0]]
           rest == CHOOSE c : c = [k \in Nat |->
                      IF k \in DOMAIN x THEN (c[k-1] * B + LimbAt(x, Len(x) - k)) % Ten ELSE 0]
<1>1. /\ Len(x) \in Nat /\ DOMAIN x = 1..Len(x) /\ Ten \in Nat \ {0} /\ B \in Nat
      /\ \A k \in Nat : LimbAt(x, k) \in Nat
  <2>1. Len(x) \in Nat /\ DOMAIN x = 1..Len(x)
    BY SequenceParts
  <2>2. \A k \in Nat : LimbAt(x, k) \in Word
    BY VectorLimbs
  <2>3. Word \subseteq Nat
    BY BaseAssumption DEF Word
  <2>4. Ten \in Nat \ {0}
    BY DigitAssumption
  <2>5. \A k \in Nat : LimbAt(x, k) \in Nat
    BY <2>2, <2>3
  <2>6. B \in Nat
    BY BaseAssumption
  <2>7. QED
    BY <2>1, <2>4, <2>5, <2>6
<1>2. 0 \in D
  BY <1>1
<1>3. ASSUME NEW k \in 1..Len(x), NEW u \in D
      PROVE  (u * B + LimbAt(x, Len(x) - k)) % Ten \in D
  <2>1. Len(x) - k \in Nat /\ u \in Nat
    BY <1>1
  <2>2. PICK v \in Nat, p \in Nat : v = LimbAt(x, Len(x) - k) /\ p = u * B
    <3>1. u * B \in Nat
      BY <1>1, <2>1
    <3>2. QED
      BY <1>1, <2>1, <3>1
  <2>3. (p + v) % Ten \in D
    <3>1. p + v \in Int /\ Ten \in Nat \ {0}
      BY <1>1
    <3>2. QED
      BY <3>1, QuotientResidue
  <2>4. QED
    BY <2>2, <2>3
<1>4. step \in [Nat -> [D -> D]]
  <2>1. ASSUME NEW k \in Nat, NEW u \in D
        PROVE  (IF k+1 \in DOMAIN x THEN (u * B + LimbAt(x, Len(x) - (k+1))) % Ten ELSE 0) \in D
    <3> HIDE DEF D
    <3>1. QED
      BY <1>1, <1>2, <1>3
  <2> HIDE DEF D
  <2>2. QED
    BY <2>1
<1>5. PICK g : Follows(D, 0, step, g)
  <2> HIDE DEF step, D
  <2>1. QED
    BY <1>2, <1>4, RecursionForm
<1>6. g \in [Nat -> D]
  <2> HIDE DEF step, D
  <2>1. QED
    BY <1>5 DEF Follows
<1>7. g = [k \in Nat |-> IF k \in DOMAIN x THEN (g[k-1] * B + LimbAt(x, Len(x) - k)) % Ten ELSE 0]
  <2>1. ASSUME NEW k \in Nat
        PROVE  (IF k = 0 THEN 0 ELSE step[k-1][g[k-1]])
                 = IF k \in DOMAIN x THEN (g[k-1] * B + LimbAt(x, Len(x) - k)) % Ten ELSE 0
    <3>1. CASE k = 0
      BY <1>1, <3>1
    <3>2. CASE k # 0
      <4>1. PICK i \in Nat : k = i + 1 /\ k - 1 = i
        <5>1. k-1 \in Nat /\ k = (k-1) + 1
          BY <3>2
        <5>2. QED
          BY <5>1
      <4>2. g[i] \in D
        <5> HIDE DEF D
        <5>1. QED
          BY <1>6
      <4>3. step[i][g[i]] = IF i+1 \in DOMAIN x THEN (g[i] * B + LimbAt(x, Len(x) - (i+1))) % Ten ELSE 0
        <5> HIDE DEF D
        <5>1. QED
          BY <4>2, Zenon
      <4>4. QED
        BY <3>2, <4>1, <4>3, Zenon
    <3>3. QED
      BY <3>1, <3>2
  <2> HIDE DEF step
  <2>2. QED
    BY <1>5, <2>1 DEF Follows
<1>8. rest = [k \in Nat |-> IF k \in DOMAIN x THEN (rest[k-1] * B + LimbAt(x, Len(x) - k)) % Ten ELSE 0]
  BY <1>7, Zenon
<1>9. Rests(x) = rest
  BY DEF Rests
<1> HIDE DEF rest
<1>10. \A k \in Nat : rest[k] = IF k \in DOMAIN x THEN (rest[k-1] * B + LimbAt(x, Len(x) - k)) % Ten ELSE 0
  BY <1>8, Zenon
<1>11. rest[0] = 0
  BY <1>1, <1>10
<1>12. ASSUME NEW k \in 0..(Len(x)-1)
       PROVE  rest[k+1] = (rest[k] * B + LimbAt(x, Len(x) - (k+1))) % Ten
  <2>1. k+1 \in Nat /\ k+1 \in DOMAIN x /\ (k+1)-1 = k
    BY <1>1
  <2>2. QED
    BY <1>10, <2>1
<1>13. \A k \in Nat : rest[k] \in D
  <2> DEFINE P == {k \in Nat : rest[k] \in D}
  <2> HIDE DEF D
  <2>1. 0 \in P
    BY <1>2, <1>11
  <2>2. \A k \in P : k+1 \in P
    <3> SUFFICES ASSUME NEW k \in Nat, rest[k] \in D PROVE rest[k+1] \in D
      OBVIOUS
    <3>1. CASE k+1 \in 1..Len(x)
      <4>1. k \in 0..(Len(x)-1)
        BY <1>1, <3>1
      <4>2. rest[k+1] = (rest[k] * B + LimbAt(x, Len(x) - (k+1))) % Ten
        BY <1>12, <4>1
      <4>3. QED
        BY <1>3, <3>1, <4>2
    <3>2. CASE k+1 \notin 1..Len(x)
      <4>1. k+1 \in Nat
        OBVIOUS
      <4>2. rest[k+1] = 0
        BY <1>1, <1>10, <3>2, <4>1
      <4>3. QED
        BY <1>2, <4>2
    <3>3. QED
      BY <3>1, <3>2
  <2>3. P = Nat
    <3>1. P \subseteq Nat
      OBVIOUS
    <3> HIDE DEF P
    <3>2. QED
      BY <2>1, <2>2, <3>1, SetInduction
  <2>4. QED
    BY <2>3
<1>14. rest \in [Nat -> D]
  <2>1. rest = [k \in Nat |-> rest[k]]
    BY <1>8
  <2> HIDE DEF D
  <2>2. QED
    BY <1>13, <2>1
<1>15. QED
  BY <1>9, <1>11, <1>12, <1>14

(* One limb of the short division: the quotient is a word.                 *)
LEMMA ShortLimb ==
  ASSUME NEW m \in Nat \ {0}, NEW b \in Nat \ {0}, NEW rem \in 0..(m-1), NEW v \in 0..(b-1)
  PROVE  /\ (rem * b + v) \div m \in 0..(b-1)
         /\ rem * b + v = ((rem * b + v) \div m) * m + ((rem * b + v) % m)
<1>1. PICK y \in Nat : y = rem * b + v
  <2>1. rem * b \in Nat
    OBVIOUS
  <2>2. QED
    BY <2>1
<1>2. PICK q \in Int, e \in 0..(m-1) : q = y \div m /\ e = y % m /\ y = e + q * m
  <2>1. y \in Int
    OBVIOUS
  <2>2. QED
    BY <2>1, Division
<1>3. y < m * b
  <2>1. rem * b <= (m-1) * b
    <3>1. rem \in Nat /\ m-1 \in Nat /\ rem <= m-1 /\ b \in Nat
      OBVIOUS
    <3>2. QED
      BY <3>1, TimesMono
  <2>2. (m-1) * b = m * b - b /\ m * b \in Int /\ rem * b \in Int
    OBVIOUS
  <2>3. QED
    BY <1>1, <2>1, <2>2
<1>4. q \in Nat
  BY <1>2
<1>5. q < b
  <2> SUFFICES ASSUME b <= q PROVE FALSE
    BY <1>4
  <2>1. b * m <= q * m
    <3>1. b \in Nat /\ q \in Nat /\ m \in Nat
      BY <1>4
    <3>2. QED
      BY <3>1, TimesMono
  <2>2. b * m = m * b /\ b * m \in Int /\ q * m \in Int
    OBVIOUS
  <2>3. QED
    BY <1>2, <1>3, <2>1, <2>2
<1>6. y = q * m + e /\ q \in 0..(b-1)
  <2>1. q * m \in Int
    OBVIOUS
  <2>2. QED
    BY <1>2, <1>4, <1>5, <2>1
<1>7. QED
  BY <1>1, <1>2, <1>6, Zenon

(* Dividing in place by ten, from the highest limb down: the quotient,     *)
(* normalised, and the digit that remains.                                 *)
LEMMA ShortDivNumber ==
  ASSUME NEW x \in Seq(Word)
  PROVE  /\ Canonical(ShortDiv(x).q) /\ ShortDiv(x).r \in 0..(Ten-1)
         /\ Number(x) = Ten * Number(ShortDiv(x).q) + ShortDiv(x).r
<1> DEFINE n == Len(x)
           rest == Rests(x)
           low(k) == IF k <= n THEN rest[n - k] ELSE 0
           c == [k \in Nat |-> low(k)]
           quo(k) == IF k < n THEN (rest[n - (k+1)] * B + LimbAt(x, k)) \div Ten ELSE 0
           g == [k \in Nat |-> quo(k)]
           h == [k \in Nat |-> Ten * g[k]]
           z == [k \in DOMAIN x |-> U32((Rests(x)[Len(x)-k] * B + x[k]) \div Ten)]
<1>1. /\ n \in Nat /\ DOMAIN x = 1..n
      /\ \A k \in Nat : LimbAt(x, k) \in Word
      /\ \A k \in 0..(n-1) : LimbAt(x, k) = x[k+1]
  BY SequenceParts, VectorLimbs
<1>2. /\ rest \in [Nat -> 0..(Ten-1)] /\ rest[0] = 0
      /\ \A k \in 0..(n-1) : rest[k+1] = (rest[k] * B + LimbAt(x, n - (k+1))) % Ten
  BY RestsRec
<1>3. Ten \in Nat \ {0} /\ B \in Nat \ {0} /\ Word = 0..(B-1)
  <2>1. Ten \in Nat \ {0}
    BY DigitAssumption
  <2>2. B \in Nat \ {0}
    BY BaseAssumption
  <2>3. QED
    BY <2>1, <2>2 DEF Word
<1> HIDE DEF n, rest
<1>4. ASSUME NEW k \in 0..(n-1)
      PROVE  /\ quo(k) \in Word /\ low(k) \in 0..(Ten-1) /\ low(k+1) \in 0..(Ten-1)
             /\ Ten * quo(k) + low(k) = LimbAt(x, k) + low(k+1) * B
  <2>1. PICK i \in Nat : i = n - (k+1) /\ i + 1 = n - k /\ i \in 0..(n-1) /\ k = n - (i+1) /\ k \in Nat
    <3>1. n - (k+1) \in Nat /\ (n - (k+1)) + 1 = n - k /\ k \in Nat /\ k = n - ((n - (k+1)) + 1)
      BY <1>1
    <3>2. QED
      BY <1>1, <3>1
  <2>2. PICK u \in 0..(Ten-1), v \in 0..(B-1), e \in 0..(Ten-1) :
          u = rest[i] /\ v = LimbAt(x, k) /\ e = rest[i+1]
    <3>1. rest[i] \in 0..(Ten-1) /\ rest[i+1] \in 0..(Ten-1)
      <4>1. rest \in [Nat -> 0..(Ten-1)] /\ i+1 \in Nat
        BY <1>2
      <4>2. QED
        BY <4>1
    <3>2. LimbAt(x, k) \in 0..(B-1)
      BY <1>1, <1>3, <2>1
    <3>3. QED
      BY <3>1, <3>2
  <2>3. e = (u * B + v) % Ten
    <3>1. rest[i+1] = (rest[i] * B + LimbAt(x, n - (i+1))) % Ten
      BY <1>2, <2>1
    <3>2. QED
      BY <2>1, <2>2, <3>1, Zenon
  <2>4. PICK q \in 0..(B-1) : q = (u * B + v) \div Ten /\ u * B + v = q * Ten + e
    <3>1. /\ (u * B + v) \div Ten \in 0..(B-1)
          /\ u * B + v = ((u * B + v) \div Ten) * Ten + ((u * B + v) % Ten)
      BY <1>3, ShortLimb
    <3>2. QED
      BY <2>3, <3>1, Zenon
  <2>5. low(k) = e /\ low(k+1) = u
    <3>1. k <= n /\ k+1 <= n
      BY <1>1
    <3>2. QED
      BY <2>1, <2>2, <3>1
  <2>6. quo(k) = q
    <3>1. k < n
      BY <1>1
    <3>2. QED
      BY <2>1, <2>2, <2>4, <3>1, Zenon
  <2>7. Ten * q + e = v + u * B
    <3>1. Ten * q = q * Ten /\ q * Ten \in Int /\ u * B \in Int
      BY <1>3
    <3>2. QED
      BY <2>4, <3>1
  <2>8. QED
    BY <1>3, <2>2, <2>5, <2>6, <2>7, Zenon
<1>5. g \in [Nat -> Word]
  <2>1. ASSUME NEW k \in Nat PROVE quo(k) \in Word
    <3>1. CASE k < n
      <4>1. k \in 0..(n-1)
        BY <1>1, <3>1
      <4> HIDE DEF quo, low
      <4>2. QED
        BY <1>4, <4>1
    <3>2. CASE ~(k < n)
      BY <1>3, <3>2
    <3>3. QED
      BY <3>1, <3>2
  <2> HIDE DEF quo
  <2>2. QED
    BY <2>1
<1>6. c \in [Nat -> Int]
  <2>1. ASSUME NEW k \in Nat PROVE low(k) \in Int
    <3>1. CASE k <= n
      <4>1. n - k \in Nat
        BY <1>1, <3>1
      <4>2. rest[n - k] \in 0..(Ten-1)
        BY <1>2, <4>1
      <4>3. rest[n - k] \in Int
        BY <1>3, <4>2
      <4>4. QED
        BY <3>1, <4>3
    <3>2. CASE ~(k <= n)
      BY <3>2
    <3>3. QED
      BY <3>1, <3>2
  <2> HIDE DEF low
  <2>2. QED
    BY <2>1
<1>7. z = [k \in 1..n |-> g[k-1]]
  <2>1. ASSUME NEW k \in 1..n
        PROVE  U32((Rests(x)[Len(x)-k] * B + x[k]) \div Ten) = g[k-1]
    <3>1. PICK i \in 0..(n-1) : k = i + 1 /\ k - 1 = i /\ i \in Nat
      <4>1. k - 1 \in 0..(n-1) /\ k = (k-1) + 1 /\ k - 1 \in Nat
        BY <1>1
      <4>2. QED
        BY <4>1
    <3>2. quo(i) = (Rests(x)[Len(x)-k] * B + x[k]) \div Ten
      <4>1. LimbAt(x, i) = x[k] /\ i < n
        BY <1>1, <3>1
      <4>2. QED
        BY <3>1, <4>1, Zenon DEF n, rest
    <3>3. quo(i) \in Word
      <4> HIDE DEF quo, low
      <4>1. QED
        BY <1>4
    <3> HIDE DEF quo
    <3>4. U32(quo(i)) = quo(i)
      <4>1. \A v \in 0..(B-1) : v % B = v
        BY <1>3
      <4>2. QED
        BY <1>3, <3>3, <4>1 DEF U32
    <3>5. g[i] = quo(i)
      BY <3>1
    <3>6. QED
      BY <3>1, <3>2, <3>4, <3>5
  <2>2. DOMAIN x = 1..n
    BY <1>1
  <2> HIDE DEF g
  <2>3. QED
    BY <2>1, <2>2
<1> HIDE DEF z
<1>8. z \in Seq(Word) /\ Number(z) = LimbSum(g, n)
  BY <1>1, <1>5, <1>7, MadeVector
<1>9. g \in [Nat -> Int]
  BY <1>5, WordSum
<1>10. h \in [Nat -> Int] /\ LimbSum(h, n) = Ten * LimbSum(g, n)
  <2> HIDE DEF g
  <2>1. h \in [Nat -> Int]
    BY <1>3, <1>9
  <2>2. \A k \in 0..(n-1) : h[k] = Ten * g[k]
    OBVIOUS
  <2> HIDE DEF h
  <2>3. Ten \in Int
    BY <1>3
  <2>4. QED
    BY <1>1, <1>9, <2>1, <2>2, <2>3, SumTimes
<1>11. LimbSum(h, n) + c[0] = LimbSum(Array(x), n) + c[n] * BPow[n]
  <2>1. \A k \in 0..(n-1) : h[k] + c[k] = Array(x)[k] + c[k+1] * B
    <3> SUFFICES ASSUME NEW k \in 0..(n-1) PROVE h[k] + c[k] = Array(x)[k] + c[k+1] * B
      OBVIOUS
    <3>1. k \in Nat /\ k+1 \in Nat
      OBVIOUS
    <3> HIDE DEF quo, low
    <3>2. h[k] = Ten * quo(k) /\ c[k] = low(k) /\ c[k+1] = low(k+1)
      BY <3>1
    <3>3. Array(x)[k] = LimbAt(x, k)
      BY <3>1 DEF Array
    <3> HIDE DEF h, c
    <3>4. Ten * quo(k) + low(k) = LimbAt(x, k) + low(k+1) * B
      BY <1>4
    <3>5. QED
      BY <3>2, <3>3, <3>4, Zenon
  <2> HIDE DEF h, c
  <2>2. Array(x) \in [Nat -> Int]
    BY VectorNumber
  <2>3. QED
    BY <1>1, <1>6, <1>10, <2>1, <2>2, CarryChain
<1>12. c[0] = rest[n] /\ c[n] = 0
  <2>1. n - 0 = n /\ n - n = 0 /\ 0 <= n /\ n <= n
    BY <1>1
  <2>2. QED
    BY <1>1, <1>2, <2>1
<1> HIDE DEF h, c, g
<1>13. Number(x) = Ten * Number(z) + rest[n]
  <2>1. LimbSum(Array(x), n) = Number(x) /\ Number(x) \in Nat /\ Number(z) \in Nat
    BY <1>8, VectorNumber DEF n
  <2>2. 0 * BPow[n] = 0
    <3>1. BPow[n] \in Int
      BY <1>1, BPowDef
    <3>2. QED
      BY <3>1
  <2>3. LimbSum(h, n) + rest[n] = Number(x) + 0
    BY <1>11, <1>12, <2>1, <2>2, Zenon
  <2>4. Number(x) + 0 = Number(x)
    BY <2>1
  <2>5. QED
    BY <1>8, <1>10, <2>3, <2>4, Zenon
<1>14. ShortDiv(x).q = Normal(z) /\ ShortDiv(x).r = rest[n]
  BY DEF ShortDiv, z, rest, n
<1>15. rest[n] \in 0..(Ten-1)
  BY <1>1, <1>2
<1>16. QED
  BY <1>8, <1>13, <1>14, <1>15, NormalVector

(* The digits still to come, put before those already written: v goes from *)
(* what is left to the number, one digit at a time.                        *)
Continues(v, rest, ds, base, n) ==
  /\ v \in [Nat -> Nat] /\ v[0] = rest /\ v[Len(ds)] = n
  /\ \A k \in 0..(Len(ds)-1) : v[k+1] = v[k] * base + ds[k+1]

(* Nothing left: the digits denote the number.                             *)
LEMMA NothingToCome ==
  ASSUME NEW ds \in Seq(Nat), NEW base \in Nat, NEW n, NEW v, Continues(v, 0, ds, base, n)
  PROVE  DigitValue(ds, base) = n
<1>1. Len(ds) \in Nat
  BY SequenceParts
<1>2. PICK f \in [Nat -> Nat] :
        /\ f[0] = 0 /\ DigitValue(ds, base) = f[Len(ds)]
        /\ \A k \in 0..(Len(ds)-1) : f[k+1] = f[k] * base + ds[k+1]
  BY ValueRec
<1> DEFINE P == {k \in Nat : k <= Len(ds) => f[k] = v[k]}
<1>3. 0 \in P
  BY <1>2 DEF Continues
<1>4. \A k \in P : k+1 \in P
  <2> SUFFICES ASSUME NEW k \in P PROVE k+1 \in P
    OBVIOUS
  <2>1. k \in Nat
    OBVIOUS
  <2> SUFFICES ASSUME k+1 <= Len(ds) PROVE f[k+1] = v[k+1]
    BY <2>1
  <2>2. k \in 0..(Len(ds)-1) /\ f[k] = v[k]
    BY <1>1, <2>1
  <2>3. f[k+1] = f[k] * base + ds[k+1]
    BY <1>2, <2>2
  <2>4. v[k+1] = v[k] * base + ds[k+1]
    BY <2>2 DEF Continues
  <2>5. QED
    BY <2>2, <2>3, <2>4, Zenon
<1>5. P = Nat
  <2>1. P \subseteq Nat
    OBVIOUS
  <2> HIDE DEF P
  <2>2. QED
    BY <1>3, <1>4, <2>1, SetInduction
<1>6. f[Len(ds)] = v[Len(ds)]
  <2>1. Len(ds) \in P
    BY <1>1, <1>5, Zenon
  <2>2. Len(ds) <= Len(ds)
    BY <1>1
  <2>3. QED
    BY <2>1, <2>2, Zenon
<1>7. QED
  BY <1>2, <1>6 DEF Continues

(* One digit more in front.                                                *)
LEMMA OneMore ==
  ASSUME NEW ds \in Seq(Nat), NEW base \in Nat, NEW n, NEW v, NEW d \in Nat, NEW rest \in Nat,
         Continues(v, rest * base + d, ds, base, n)
  PROVE  \E v2 : Continues(v2, rest, <<d>> \o ds, base, n)
<1> DEFINE more == <<d>> \o ds
           v2 == [k \in Nat |-> IF k = 0 THEN rest ELSE v[k-1]]
<1>1. /\ Len(ds) \in Nat /\ Len(more) = Len(ds) + 1 /\ more[1] = d
      /\ \A k \in 1..Len(ds) : more[k+1] = ds[k]
  OBVIOUS
<1>2. v2 \in [Nat -> Nat]
  <2>1. v \in [Nat -> Nat]
    BY DEF Continues
  <2>2. QED
    BY <2>1
<1>3. v2[0] = rest /\ v2[Len(more)] = n
  <2>1. v2[Len(ds) + 1] = v[Len(ds)]
    <3>1. Len(ds) + 1 \in Nat /\ Len(ds) + 1 # 0 /\ (Len(ds) + 1) - 1 = Len(ds)
      BY <1>1
    <3>2. QED
      BY <3>1
  <2>2. QED
    BY <1>1, <2>1 DEF Continues
<1> HIDE DEF more
<1>4. ASSUME NEW k \in 0..(Len(more)-1)
      PROVE  v2[k+1] = v2[k] * base + more[k+1]
  <2>1. k \in Nat /\ k+1 \in Nat /\ k+1 # 0 /\ (k+1) - 1 = k /\ k <= Len(ds)
    BY <1>1
  <2>2. v2[k+1] = v[k]
    BY <2>1
  <2>3. CASE k = 0
    <3>1. v2[k] = rest /\ more[k+1] = d /\ v[k] = rest * base + d
      BY <1>1, <2>3 DEF Continues
    <3>2. QED
      BY <2>2, <3>1, Zenon
  <2>4. CASE k # 0
    <3>1. PICK i \in Nat : k = i + 1 /\ k - 1 = i /\ i \in 0..(Len(ds)-1)
      <4>1. k - 1 \in Nat /\ k = (k-1) + 1 /\ k - 1 \in 0..(Len(ds)-1)
        BY <1>1, <2>1, <2>4
      <4>2. QED
        BY <4>1
    <3>2. v2[k] = v[i]
      BY <2>1, <2>4, <3>1
    <3>3. v[i+1] = v[i] * base + ds[i+1]
      BY <3>1 DEF Continues
    <3>4. more[k+1] = ds[i+1]
      <4>1. k \in 1..Len(ds)
        BY <1>1, <2>1, <2>4
      <4>2. more[k+1] = ds[k]
        BY <1>1, <4>1
      <4>3. QED
        BY <3>1, <4>2
    <3>5. QED
      BY <2>2, <3>1, <3>2, <3>3, <3>4, Zenon
  <2>5. QED
    BY <2>3, <2>4
<1> HIDE DEF v2
<1>5. Continues(v2, rest, more, base, n)
  BY <1>2, <1>3, <1>4 DEF Continues
<1>6. QED
  BY <1>5 DEF more

(* Each step of to_dec takes the lowest digit off and writes it in front.  *)
LEMMA DecimalsRec ==
  ASSUME NEW x \in Seq(Word)
  PROVE  \E after \in [Nat -> Decimals] :
           /\ after[0] = [t |-> x, out |-> <<>>]
           /\ \A k \in Nat : after[k+1] = Shortened[after[k]]
           /\ ToDec(x) = IF IsZero(x) THEN <<0>> ELSE after[NumBits(x)].out
<1> DEFINE start == [t |-> x, out |-> <<>>]
           step == [k \in Nat |-> Shortened]
           after == CHOOSE c : c = [k \in Nat |-> IF k = 0 THEN start ELSE Shortened[c[k-1]]]
<1>1. start \in Decimals
  BY DEF Decimals
<1>2. Shortened \in [Decimals -> Decimals]
  <2>1. ASSUME NEW d \in Decimals, ~IsZero(d.t)
        PROVE  [t |-> ShortDiv(d.t).q, out |-> <<ShortDiv(d.t).r>> \o d.out] \in Decimals
    <3>1. d.t \in Seq(Word) /\ d.out \in Seq(Nat)
      BY DEF Decimals
    <3>2. ShortDiv(d.t).q \in Seq(Word) /\ ShortDiv(d.t).r \in 0..(Ten-1)
      BY <3>1, ShortDivNumber DEF Canonical
    <3>3. ShortDiv(d.t).r \in Nat
      <4>1. Ten \in Nat
        BY DigitAssumption
      <4>2. QED
        BY <3>2, <4>1
    <3>4. <<ShortDiv(d.t).r>> \o d.out \in Seq(Nat)
      BY <3>1, <3>3
    <3>5. QED
      BY <3>2, <3>4 DEF Decimals
  <2>2. QED
    BY <2>1 DEF Shortened
<1> HIDE DEF start
<1>3. step \in [Nat -> [Decimals -> Decimals]]
  BY <1>2
<1>4. PICK g : Follows(Decimals, start, step, g)
  <2> HIDE DEF step
  <2>1. QED
    BY <1>1, <1>3, RecursionForm
<1>5. g = [k \in Nat |-> IF k = 0 THEN start ELSE Shortened[g[k-1]]]
  <2>1. ASSUME NEW k \in Nat
        PROVE  (IF k = 0 THEN start ELSE step[k-1][g[k-1]]) = IF k = 0 THEN start ELSE Shortened[g[k-1]]
    <3>1. k # 0 => k-1 \in Nat
      OBVIOUS
    <3>2. QED
      BY <3>1
  <2> HIDE DEF step
  <2>2. QED
    BY <1>4, <2>1 DEF Follows
<1>6. after = [k \in Nat |-> IF k = 0 THEN start ELSE Shortened[after[k-1]]]
  BY <1>5, Zenon
<1>7. ToDec(x) = IF IsZero(x) THEN <<0>> ELSE after[NumBits(x)].out
  BY DEF ToDec, start
<1> HIDE DEF after
<1>8. after[0] = start /\ \A k \in Nat : after[k+1] = Shortened[after[k]]
  <2>1. \A k \in Nat : after[k] = IF k = 0 THEN start ELSE Shortened[after[k-1]]
    BY <1>6, Zenon
  <2>2. ASSUME NEW k \in Nat PROVE after[k+1] = Shortened[after[k]]
    <3>1. k+1 \in Nat /\ k+1 # 0 /\ (k+1)-1 = k
      OBVIOUS
    <3>2. QED
      BY <2>1, <3>1
  <2>3. QED
    BY <2>1, <2>2
<1>9. after \in [Nat -> Decimals]
  <2> DEFINE P == {k \in Nat : after[k] \in Decimals}
  <2>1. 0 \in P
    BY <1>1, <1>8
  <2>2. \A k \in P : k+1 \in P
    <3> SUFFICES ASSUME NEW k \in Nat, after[k] \in Decimals PROVE after[k+1] \in Decimals
      OBVIOUS
    <3>1. after[k+1] = Shortened[after[k]]
      BY <1>8
    <3>2. QED
      BY <1>2, <3>1
  <2>3. P = Nat
    <3>1. P \subseteq Nat
      OBVIOUS
    <3> HIDE DEF P
    <3>2. QED
      BY <2>1, <2>2, <3>1, SetInduction
  <2>4. \A k \in Nat : after[k] \in Decimals
    BY <2>3
  <2>5. after = [k \in Nat |-> after[k]]
    BY <1>6
  <2>6. QED
    BY <2>4, <2>5
<1>10. QED
  BY <1>7, <1>8, <1>9 DEF start

(* After k steps: what is left and the digits written make up the number,  *)
(* what is left has k bits less at least, and the highest digit is not 0   *)
(* once nothing is left.                                                   *)
WrittenDown(d, x, k) ==
  /\ d \in Decimals /\ Canonical(d.t) /\ d.out \in Seq(0..(Ten-1))
  /\ \E v : Continues(v, Number(d.t), d.out, Ten, Number(x))
  /\ Number(d.t) < Pow2[NumBits(x) - k]
  /\ IsZero(d.t) => Len(d.out) >= 1 /\ d.out[1] # 0

LEMMA DecimalStart ==
  ASSUME NEW x, Canonical(x), ~IsZero(x)
  PROVE  WrittenDown([t |-> x, out |-> <<>>], x, 0)
<1> DEFINE d == [t |-> x, out |-> <<>>]
           v == [k \in Nat |-> Number(x)]
<1>1. x \in Seq(Word) /\ Number(x) \in Nat
  BY VectorNumber DEF Canonical
<1>2. d \in Decimals /\ d.t = x /\ d.out = <<>> /\ d.out \in Seq(0..(Ten-1)) /\ Len(d.out) = 0
  BY <1>1 DEF Decimals
<1>3. Continues(v, Number(x), <<>>, Ten, Number(x))
  <2>1. v \in [Nat -> Nat] /\ v[0] = Number(x) /\ Len(<<>>) = 0 /\ 0..(0-1) = {}
    BY <1>1
  <2>2. QED
    BY <2>1 DEF Continues
<1>4. Number(x) < Pow2[NumBits(x) - 0]
  <2>1. NumBits(x) - 0 = NumBits(x) /\ Number(x) < Pow2[NumBits(x)]
    BY NumBitsBound
  <2>2. QED
    BY <2>1
<1> HIDE DEF v, d
<1>5. QED
  BY <1>2, <1>3, <1>4 DEF WrittenDown, d

LEMMA DecimalStep ==
  ASSUME NEW x, Canonical(x), NEW k \in Nat, k < NumBits(x), NEW d, WrittenDown(d, x, k)
  PROVE  WrittenDown(Shortened[d], x, k+1)
<1>1. /\ d \in Decimals /\ Canonical(d.t) /\ d.out \in Seq(0..(Ten-1))
      /\ Number(d.t) < Pow2[NumBits(x) - k]
      /\ IsZero(d.t) => Len(d.out) >= 1 /\ d.out[1] # 0
  BY DEF WrittenDown
<1>2. PICK v : Continues(v, Number(d.t), d.out, Ten, Number(x))
  BY DEF WrittenDown
<1>3. d.t \in Seq(Word) /\ Number(d.t) \in Nat /\ (IsZero(d.t) <=> Number(d.t) = 0)
  BY <1>1, CanonicalBound DEF Canonical
<1>4. PICK n \in Nat : NumBits(x) - k = n + 1 /\ NumBits(x) - (k+1) = n
  <2>1. NumBits(x) \in Nat
    BY NumBitsBound
  <2>2. NumBits(x) - (k+1) \in Nat /\ NumBits(x) - k = (NumBits(x) - (k+1)) + 1
    BY <2>1
  <2>3. QED
    BY <2>2
<1>5. Ten \in Nat /\ Ten >= 2
  BY DigitAssumption
<1>6. Pow2[n+1] = 2 * Pow2[n] /\ Pow2[n] \in Nat \ {0}
  BY Pow2Def
<1>7. CASE IsZero(d.t)
  <2>1. Shortened[d] = d
    BY <1>1, <1>7 DEF Shortened
  <2>2. Number(d.t) < Pow2[NumBits(x) - (k+1)]
    BY <1>3, <1>4, <1>6, <1>7
  <2>3. QED
    BY <1>1, <1>2, <2>1, <2>2 DEF WrittenDown
<1>8. CASE ~IsZero(d.t)
  <2> DEFINE q == ShortDiv(d.t).q
             e == ShortDiv(d.t).r
             d2 == [t |-> q, out |-> <<e>> \o d.out]
  <2>1. Canonical(q) /\ e \in 0..(Ten-1) /\ Number(d.t) = Ten * Number(q) + e
    BY <1>3, ShortDivNumber
  <2>2. Shortened[d] = d2
    BY <1>1, <1>8 DEF Shortened
  <2> HIDE DEF q, e
  <2>3. q \in Seq(Word) /\ Number(q) \in Nat /\ (IsZero(q) <=> Number(q) = 0) /\ e \in Nat
    BY <1>5, <2>1, CanonicalBound DEF Canonical
  <2>4. d.out \in Seq(Nat)
    BY <1>1 DEF Decimals
  <2>5. /\ <<e>> \o d.out \in Seq(0..(Ten-1)) /\ <<e>> \o d.out \in Seq(Nat)
        /\ Len(<<e>> \o d.out) >= 1 /\ (<<e>> \o d.out)[1] = e
    BY <1>1, <2>1, <2>3, <2>4
  <2>6. d2 \in Decimals /\ d2.t = q /\ d2.out = <<e>> \o d.out
    BY <2>3, <2>5 DEF Decimals
  <2>7. PICK y \in Nat : y = Number(q) /\ Number(d.t) = y * Ten + e
    <3>1. Ten * Number(q) = Number(q) * Ten
      BY <1>5, <2>3
    <3>2. QED
      BY <2>1, <2>3, <3>1
  <2>8. \E v2 : Continues(v2, y, <<e>> \o d.out, Ten, Number(x))
    <3>1. Continues(v, y * Ten + e, d.out, Ten, Number(x))
      BY <1>2, <2>7
    <3>2. QED
      BY <1>5, <2>3, <2>4, <3>1, OneMore
  <2>9. Number(q) < Pow2[NumBits(x) - (k+1)]
    <3>1. y * 2 <= y * Ten
      <4>1. 2 * y <= Ten * y
        BY <1>5, TimesMono
      <4>2. 2 * y = y * 2 /\ Ten * y = y * Ten
        BY <1>5
      <4>3. QED
        BY <4>1, <4>2
    <3>2. PICK z \in Nat : z = y * Ten
      BY <1>5
    <3>3. z + e < 2 * Pow2[n]
      BY <1>1, <1>4, <1>6, <2>7, <3>2
    <3>4. y < Pow2[n]
      BY <1>6, <2>3, <3>1, <3>2, <3>3
    <3>5. QED
      BY <1>4, <2>7, <3>4
  <2>10. IsZero(q) => e # 0
    <3> SUFFICES ASSUME IsZero(q), e = 0 PROVE FALSE
      OBVIOUS
    <3>1. y = 0
      BY <2>3, <2>7
    <3>2. 0 * Ten + 0 = 0
      BY <1>5
    <3>3. Number(d.t) = 0
      BY <2>7, <3>1, <3>2
    <3>4. QED
      BY <1>3, <1>8, <3>3
  <2> HIDE DEF d2
  <2>11. QED
    BY <2>1, <2>2, <2>5, <2>6, <2>7, <2>8, <2>9, <2>10 DEF WrittenDown
<1>9. QED
  BY <1>7, <1>8

LEMMA DecimalText ==
  ASSUME NEW x, Canonical(x)
  PROVE  Text(ToDec(x), Ten, Number(x))
<1>1. x \in Seq(Word) /\ (IsZero(x) <=> Number(x) = 0) /\ Number(x) \in Nat
  BY CanonicalBound DEF Canonical
<1>2. Ten \in Nat /\ Ten >= 2
  BY DigitAssumption
<1>3. PICK after \in [Nat -> Decimals] :
        /\ after[0] = [t |-> x, out |-> <<>>]
        /\ \A k \in Nat : after[k+1] = Shortened[after[k]]
        /\ ToDec(x) = IF IsZero(x) THEN <<0>> ELSE after[NumBits(x)].out
  BY <1>1, DecimalsRec
<1>4. CASE IsZero(x)
  <2>1. ToDec(x) = <<0>>
    BY <1>3, <1>4
  <2>2. <<0>> \in Seq(0..(Ten-1)) /\ Len(<<0>>) = 1
    <3>1. 0 \in 0..(Ten-1)
      BY <1>2
    <3>2. QED
      BY <3>1
  <2>3. DigitValue(<<0>>, Ten) = 0
    BY <1>2, OneDigit
  <2>4. QED
    BY <1>1, <1>4, <2>1, <2>2, <2>3 DEF Text, Shortest
<1>5. CASE ~IsZero(x)
  <2> DEFINE P == {k \in Nat : k <= NumBits(x) => WrittenDown(after[k], x, k)}
  <2>1. NumBits(x) \in Nat
    BY NumBitsBound
  <2>2. 0 \in P
    <3>1. WrittenDown(after[0], x, 0)
      BY <1>3, <1>5, DecimalStart
    <3>2. QED
      BY <3>1
  <2>3. \A k \in P : k+1 \in P
    <3> SUFFICES ASSUME NEW k \in P PROVE k+1 \in P
      OBVIOUS
    <3>1. k \in Nat
      OBVIOUS
    <3> SUFFICES ASSUME k+1 <= NumBits(x) PROVE WrittenDown(after[k+1], x, k+1)
      BY <3>1
    <3>2. k < NumBits(x) /\ WrittenDown(after[k], x, k)
      BY <2>1, <3>1
    <3>3. WrittenDown(Shortened[after[k]], x, k+1)
      BY <3>1, <3>2, DecimalStep
    <3>4. QED
      BY <1>3, <3>1, <3>3
  <2>4. P = Nat
    <3>1. P \subseteq Nat
      OBVIOUS
    <3> HIDE DEF P
    <3>2. QED
      BY <2>2, <2>3, <3>1, SetInduction
  <2>5. WrittenDown(after[NumBits(x)], x, NumBits(x))
    <3>1. NumBits(x) \in P
      BY <2>1, <2>4, Zenon
    <3>2. NumBits(x) <= NumBits(x)
      BY <2>1
    <3>3. QED
      BY <3>1, <3>2
  <2> DEFINE d == after[NumBits(x)]
  <2>6. /\ Canonical(d.t) /\ d.out \in Seq(0..(Ten-1))
        /\ Number(d.t) < Pow2[NumBits(x) - NumBits(x)]
        /\ IsZero(d.t) => Len(d.out) >= 1 /\ d.out[1] # 0
    BY <2>5 DEF WrittenDown
  <2>7. PICK v : Continues(v, Number(d.t), d.out, Ten, Number(x))
    BY <2>5 DEF WrittenDown
  <2>8. d.out \in Seq(Nat)
    <3>1. d \in Decimals
      BY <2>1
    <3>2. QED
      BY <3>1 DEF Decimals
  <2>9. ToDec(x) = d.out
    BY <1>3, <1>5
  <2> HIDE DEF d
  <2>10. Number(d.t) = 0 /\ IsZero(d.t)
    <3>1. NumBits(x) - NumBits(x) = 0 /\ Pow2[0] = 1
      BY <2>1, Pow2Def
    <3>2. Number(d.t) \in Nat /\ (IsZero(d.t) <=> Number(d.t) = 0)
      BY <2>6, CanonicalBound
    <3>3. QED
      BY <2>6, <3>1, <3>2
  <2>11. DigitValue(d.out, Ten) = Number(x)
    BY <1>2, <2>7, <2>8, <2>10, NothingToCome
  <2>12. Len(d.out) \in Nat
    BY <2>8, SequenceParts
  <2>13. QED
    BY <2>6, <2>9, <2>10, <2>11, <2>12 DEF Text, Shortest
<1>6. QED
  BY <1>4, <1>5

-----------------------------------------------------------------------------
(* Text and bytes of every number, and back.                               *)
LEMMA TextNumbers ==
  ASSUME NEW x, Canonical(x)
  PROVE  TextRight(x)
<1>1. X = Pow2[DigitBits] /\ DigitBits \in Nat
  BY DigitWidth DEF X
<1>2. Shortest(ToHex(x)) /\ DigitValue(ToHex(x), Pow2[DigitBits]) = Number(x)
  BY <1>1, HexText DEF Text
<1>3. Shortest(ToDec(x)) /\ DigitValue(ToDec(x), Ten) = Number(x) /\ ToDec(x) \in Seq(0..(Ten-1))
  BY DecimalText DEF Text
<1>4. \A k \in DOMAIN ToDec(x) : ToDec(x)[k] \in 0..(Ten-1)
  <2>1. /\ DOMAIN ToDec(x) = 1..Len(ToDec(x))
        /\ \A k \in 1..Len(ToDec(x)) : ToDec(x)[k] \in 0..(Ten-1)
    BY <1>3, SequenceParts
  <2>2. QED
    BY <2>1
<1>5. ASSUME NEW size \in 0..(S * Per)
      PROVE  IF size > 0 /\ Number(x) >= Pow2[DigitBits * size] THEN ToBytes(x, size) = <<>>
             ELSE /\ DigitValue(ToBytes(x, size), Pow2[DigitBits]) = Number(x)
                  /\ Len(ToBytes(x, size)) > 0 /\ (size > 0 => Len(ToBytes(x, size)) = size)
  <2>1. size \in Nat
    OBVIOUS
  <2>2. QED
    BY <1>1, <2>1, BytesNumber
<1>6. FromHex(ToHex(x)) = x /\ FromHex(<<0, X>> \o ToHex(x)) = x /\ FromHex(<<0, X>>) = <<>>
  BY TextReadsBack
<1>7. FromDigits(ToBytes(x, 0)) = x
  <2>1. 0 \in Nat /\ ~(0 > 0)
    OBVIOUS
  <2>2. ToBytes(x, 0) \in Seq(0..(X-1)) /\ DigitValue(ToBytes(x, 0), X) = Number(x)
    BY <2>1, BytesNumber
  <2>3. QED
    BY <2>2, ReadsBack
<1>8. ToU64(x) = IF Number(x) < B * B THEN Number(x) ELSE -1
  BY TwoLimbs
<1>9. QED
  BY <1>2, <1>3, <1>4, <1>5, <1>6, <1>7, <1>8 DEF TextRight

-----------------------------------------------------------------------------
(* What the constant operations report.                                    *)

(* compare, bit_length and bit, text, bytes and 64-bit integers say what   *)
(* the numbers in the variables say, for every two variables, every bit    *)
(* and every padding; text and bytes read back as the vector they were     *)
(* made of (bigint.cpp:33-145).                                            *)
THEOREM ObserversCorrect == Spec => []ObserversRight
<1>1. IInv => ObserversRight
  <2> SUFFICES ASSUME IInv, NEW x \in Regs, NEW y \in Regs
               PROVE  CompareRight(reg[x], reg[y]) /\ BitsRight(reg[x]) /\ TextRight(reg[x])
    BY DEF ObserversRight
  <2>1. Canonical(reg[x]) /\ Canonical(reg[y]) /\ reg[x] \in Seq(Word)
    BY InvRegs, RegisterFacts
  <2>2. CompareRight(reg[x], reg[y])
    BY <2>1, CompareNumbers DEF CompareRight
  <2>3. W * S \in Nat
    BY WordAssumption, SizeAssumption
  <2>4. \A k \in 0..(W * S) : TestBit(reg[x], k) <=> (Number(reg[x]) \div Pow2[k]) % 2 = 1
    BY <2>1, <2>3, BitNumber
  <2>5. BitsRight(reg[x])
    BY <2>1, <2>4, NumBitsBound DEF BitsRight
  <2>6. TextRight(reg[x])
    BY <2>1, TextNumbers
  <2>7. QED
    BY <2>2, <2>5, <2>6
<1>2. QED
  BY <1>1, Inductive, PTL
=============================================================================
