----------------------------- MODULE PrimesProofs ------------------------------
(***************************************************************************)
(* Proofs about Primes for every set of small primes with 2 and 3 in it,   *)
(* every number of rounds and every number tested: a prime is never        *)
(* rejected, a rejected number has a reason, an accepted one was excused   *)
(* by every witness; each witness can be drawn; a generated number is odd, *)
(* of the width asked for and without small factor.                        *)
(* Then about the sources it draws from (RandomSource), for bytes, limbs   *)
(* and generator words of any size: random_bits gives exactly the numbers  *)
(* of the width asked for, calls on a seeded source take consecutive words *)
(* of its generator, and equal seeds asked the same give the same.         *)
(***************************************************************************)
EXTENDS Primes, RandomSource, NumberLemmas

-----------------------------------------------------------------------------
(* Powers of two in a number.                                              *)
LEMMA TwosInFacts ==
  ASSUME NEW v \in Nat \ {0}
  PROVE  /\ TwosIn(v) \in Nat
         /\ v \div Pow2[TwosIn(v)] \in Nat
         /\ (v \div Pow2[TwosIn(v)]) % 2 = 1
         /\ v = (v \div Pow2[TwosIn(v)]) * Pow2[TwosIn(v)]
<1> DEFINE Q == {k \in Nat : v % Pow2[k+1] # 0}
           Right(k) == v % Pow2[k] = 0 /\ (v \div Pow2[k]) % 2 = 1
<1>0. \A k \in Nat : Pow2[k] \in Nat \ {0} /\ Pow2[k+1] = 2 * Pow2[k]
  BY Pow2Def
<1>1. \A k \in Nat : v < Pow2[k] => v % Pow2[k] # 0
  <2> SUFFICES ASSUME NEW k \in Nat, v < Pow2[k] PROVE v % Pow2[k] # 0
    OBVIOUS
  <2>1. PICK b \in Nat \ {0} : b = Pow2[k]
    BY <1>0
  <2>2. v % b = v
    BY <2>1
  <2>3. QED
    BY <2>1, <2>2
<1>2. v \in Q
  <2>1. v < Pow2[v]
    BY Pow2Above
  <2>2. v < Pow2[v+1]
    BY <1>0, <2>1
  <2>3. QED
    BY <1>1, <2>2
<1>3. PICK k \in Nat : k \in Q /\ \A i \in Q : k <= i
  <2>1. Q \subseteq Nat /\ Q # {}
    BY <1>2
  <2> HIDE DEF Q
  <2>2. QED
    BY <2>1, LeastExists
<1>4. k <= v
  BY <1>2, <1>3
<1>5. v % Pow2[k] = 0
  <2>1. CASE k = 0
    <3>1. v % 1 = 0
      OBVIOUS
    <3>2. QED
      BY <2>1, <3>1, Pow2Def
  <2>2. CASE k # 0
    <3>1. k - 1 \in Nat /\ (k - 1) + 1 = k /\ ~(k <= k - 1)
      BY <2>2
    <3>2. k - 1 \notin Q
      BY <1>3, <3>1
    <3>3. QED
      BY <3>1, <3>2
  <2>3. QED
    BY <2>1, <2>2
<1>6. PICK b \in Nat \ {0} : b = Pow2[k] /\ Pow2[k+1] = 2 * b
  BY <1>0
<1>7. PICK q \in Int, z \in 0..(b-1) : q = v \div b /\ z = v % b /\ v = z + q * b
  <2>1. v \in Int
    OBVIOUS
  <2>2. QED
    BY <2>1, Division, Zenon
<1>8. q \in Nat /\ v = q * b
  <2>1. v = q * b
    BY <1>5, <1>6, <1>7
  <2>2. ASSUME q <= -1 PROVE FALSE
    <3>1. q * b <= -b
      BY <2>2
    <3>2. QED
      BY <2>1, <3>1
  <2>3. QED
    BY <2>1, <2>2
<1>9. q % 2 = 1
  <2>1. PICK h \in Int, y \in {0, 1} : y = q % 2 /\ q = 2 * h + y
    BY Halves
  <2>2. ASSUME y = 0 PROVE FALSE
    <3>1. v = h * (2 * b)
      <4>1. (2 * h) * b = h * (2 * b)
        OBVIOUS
      <4>2. QED
        BY <1>8, <2>1, <2>2, <4>1
    <3>2. PICK c \in Nat \ {0} : c = 2 * b
      OBVIOUS
    <3>3. v % c = 0
      <4>1. v = h * c /\ v \in Int
        BY <3>1, <3>2
      <4>2. QED
        BY <4>1, Multiple, Zenon
    <3>4. QED
      BY <1>3, <1>6, <3>2, <3>3
  <2>3. QED
    BY <2>1, <2>2
<1>10. k \in 0..v /\ Right(k)
  BY <1>4, <1>5, <1>6, <1>7, <1>9
<1>11. TwosIn(v) \in 0..v /\ Right(TwosIn(v))
  <2> DEFINE c == CHOOSE i \in 0..v : Right(i)
  <2>1. c \in 0..v /\ Right(c)
    BY <1>10, Zenon
  <2>2. TwosIn(v) = c
    BY Zenon DEF TwosIn
  <2> HIDE DEF c, Right
  <2>3. QED
    BY <2>1, <2>2
<1>12. PICK t \in Nat : t = TwosIn(v) /\ Right(t)
  BY <1>11
<1>13. PICK c \in Nat \ {0} : c = Pow2[t]
  BY <1>0
<1>14. PICK s \in Int, z2 \in 0..(c-1) : s = v \div c /\ z2 = v % c /\ v = z2 + s * c
  <2>1. v \in Int
    OBVIOUS
  <2>2. QED
    BY <2>1, Division, Zenon
<1>15. v = s * c /\ s % 2 = 1
  BY <1>12, <1>13, <1>14
<1>16. s \in Nat
  <2>1. ASSUME s <= -1 PROVE FALSE
    <3>1. s * c <= -c
      BY <2>1
    <3>2. QED
      BY <1>15, <3>1
  <2>2. QED
    BY <2>1
<1>17. QED
  BY <1>12, <1>13, <1>14, <1>15, <1>16

(* Squaring doubles the exponent.                                          *)
LEMMA NextSquare ==
  ASSUME NEW w \in Nat, NEW m \in Nat \ {0}, NEW o \in Nat, NEW e \in Nat
  PROVE  LET y == Power(w, o * Pow2[e], m)
         IN  /\ y \in 0..(m-1)
             /\ Power(w, o * Pow2[e+1], m) = (y * y) % m
<1>1. PICK b \in Nat : b = Pow2[e] /\ Pow2[e+1] = 2 * b
  BY Pow2Def
<1>2. PICK f \in Nat : f = o * b /\ o * (2 * b) = f + f
  <2>1. o * b \in Nat /\ o * (2 * b) = o * b + o * b
    OBVIOUS
  <2>2. QED
    BY <2>1, Zenon
<1>3. Power(w, f + f, m) = (Power(w, f, m) * Power(w, f, m)) % m
  BY PowerSum
<1>4. Power(w, f, m) \in 0..(m-1)
  BY PowerRec
<1>5. o * Pow2[e+1] = f + f /\ o * Pow2[e] = f
  BY <1>1, <1>2
<1>6. QED
  BY <1>3, <1>4, <1>5

(* A prime excuses itself before every witness: w^(n-1) = 1 by Fermat, and *)
(* the first square that is 1 is the square of 1 or of n-1.                *)
LEMMA PrimeExcused ==
  ASSUME NEW v \in Nat, IsPrime(v), v > 2, NEW w \in 1..(v-1)
  PROVE  StrongLiar(w, v)
<1>0. v \in Nat \ {0} /\ w \in Nat /\ v - 1 \in Nat \ {0}
  OBVIOUS
<1>1. PICK k \in Nat, o \in Nat : k = TwosIn(v - 1) /\ o = (v - 1) \div Pow2[k] /\ v - 1 = o * Pow2[k]
  BY <1>0, TwosInFacts
<1> DEFINE y(e) == Power(w, o * Pow2[e], v)
           Q == {e \in Nat : y(e) = 1}
<1>2. y(k) = 1
  <2>1. w % v # 0
    OBVIOUS
  <2>2. Power(w, v - 1, v) = 1
    BY <1>0, <2>1, Fermat
  <2>3. QED
    BY <1>1, <2>2
<1>3. \A e \in Nat : y(e) \in 0..(v-1) /\ y(e + 1) = (y(e) * y(e)) % v
  BY <1>0, NextSquare
<1>4. y(0) = Power(w, o, v)
  <2>1. o * 1 = o
    OBVIOUS
  <2>2. QED
    BY <2>1, Pow2Def
<1> HIDE DEF y
<1>5. PICK e \in Nat : y(e) = 1 /\ \A i \in Q : e <= i
  <2>1. Q \subseteq Nat /\ Q # {}
    BY <1>1, <1>2
  <2>2. \A i : i \in Q <=> i \in Nat /\ y(i) = 1
    OBVIOUS
  <2> HIDE DEF Q
  <2>3. QED
    BY <2>1, <2>2, LeastExists
<1>6. e <= k
  BY <1>1, <1>2, <1>5
<1>7. CASE e = 0
  <2>1. Power(w, o, v) = 1
    BY <1>4, <1>5, <1>7
  <2>2. QED
    BY <1>1, <2>1 DEF StrongLiar
<1>8. CASE e # 0
  <2>1. e - 1 \in Nat /\ (e - 1) + 1 = e /\ ~(e <= e - 1) /\ e - 1 \in 0..(k-1)
    BY <1>6, <1>8
  <2>2. PICK z \in 0..(v-1) : z = y(e - 1)
    BY <1>3, <2>1
  <2>3. (z * z) % v = 1
    BY <1>3, <1>5, <2>1, <2>2
  <2>4. z # 1
    BY <1>5, <2>1, <2>2
  <2>5. z = v - 1
    BY <2>3, <2>4, RootsOfOne
  <2>6. Power(w, o * Pow2[e - 1], v) = v - 1
    BY <2>2, <2>5 DEF y
  <2>7. \E i \in 0..(k-1) : Power(w, o * Pow2[i], v) = v - 1
    BY <2>1, <2>6
  <2>8. QED
    BY <1>1, <2>7 DEF StrongLiar
<1>9. QED
  BY <1>7, <1>8

(* A small factor shows that a number is composite.                        *)
LEMMA FactorMeansComposite ==
  ASSUME NEW v \in Nat \ {0}, HasSmallFactor(v)
  PROVE  ~IsPrime(v)
<1>1. PICK f \in SmallPrimes : f # v /\ v % f = 0
  BY DEF HasSmallFactor
<1>2. f \in Nat \ {0, 1}
  BY PrimesAssumption
<1>3. f <= v
  <2>1. f \in Nat \ {0}
    BY <1>2
  <2>2. QED
    BY <1>1, <2>1, DivisorBelow
<1>4. f \in 2..(v-1)
  BY <1>1, <1>2, <1>3
<1>5. QED
  BY <1>1, <1>4 DEF IsPrime

(* A number without small factor that is no small prime is odd and above 3. *)
LEMMA Survivor ==
  ASSUME NEW v \in Nat, v >= 2, ~HasSmallFactor(v), v \notin SmallPrimes
  PROVE  v % 2 = 1 /\ v > 3
<1>1. 2 \in SmallPrimes /\ 3 \in SmallPrimes
  BY PrimesAssumption
<1>2. v # 2 /\ v # 3
  BY <1>1
<1>3. v % 2 # 0
  BY <1>1, <1>2 DEF HasSmallFactor
<1>4. QED
  BY <1>2, <1>3

-----------------------------------------------------------------------------
(* Draws.                                                                  *)
LEMMA DrawsAreNumbers ==
  ASSUME NEW b \in Nat
  PROVE  /\ \A v \in RandomBits(b) : v \in Nat
         /\ \A v \in Draws(b) : v \in Nat
<1>1. ASSUME NEW c \in Nat, NEW v \in RandomBits(c) PROVE v \in Nat
  <2>1. CASE c = 0
    BY <1>1, <2>1 DEF RandomBits
  <2>2. CASE c # 0
    <3>1. c - 1 \in Nat
      BY <2>2
    <3>2. PICK l \in Nat, h \in Nat : l = Pow2[c-1] /\ h = Pow2[c]
      BY <3>1, Pow2Def
    <3>3. v \in l..(h-1)
      BY <1>1, <2>2, <3>2 DEF RandomBits
    <3>4. QED
      BY <3>3
  <2>3. QED
    BY <2>1, <2>2
<1>2. ASSUME NEW v \in Draws(b) PROVE v \in Nat
  <2>1. BitLength(b) \in Nat
    BY BitLengthBound
  <2>2. PICK u \in RandomBits(BitLength(b)) : v = Masked(u, BitLength(b))
    BY <1>2 DEF Draws
  <2>3. PICK m \in Nat \ {0} : m = Pow2[BitLength(b)]
    BY <2>1, Pow2Def
  <2>4. u \in Nat
    BY <1>1, <2>1
  <2>5. u % m \in Nat
    BY <2>4
  <2>6. QED
    BY <2>2, <2>3, <2>5 DEF Masked
<1>3. QED
  BY <1>1, <1>2

(* An odd bound above 1 accepts the draw 2^(bits-1): it is not that power. *)
LEMMA OddBoundDrawable ==
  ASSUME NEW b \in Nat, b > 1, b % 2 = 1
  PROVE  Accepted(b) # {}
<1>1. PICK c \in Nat : c = BitLength(b) /\ b < Pow2[c] /\ (c = 0 \/ b >= Pow2[c-1])
  BY BitLengthBound
<1>2. c > 1
  <2>1. Pow2[0] = 1 /\ Pow2[1] = 2
    <3>1. 0 \in Nat /\ 0 + 1 = 1
      OBVIOUS
    <3>2. QED
      BY <3>1, Pow2Def
  <2>2. QED
    BY <1>1, <2>1
<1>3. PICK i \in Nat : i = c - 2 /\ i + 1 = c - 1 /\ (i + 1) + 1 = c
  BY <1>2
<1>4. PICK l \in Nat \ {0} : l = Pow2[i]
  BY Pow2Def
<1>5. Pow2[c-1] = 2 * l /\ Pow2[c] = 4 * l
  <2>1. Pow2[i+1] = 2 * l /\ Pow2[(i+1)+1] = 2 * Pow2[i+1]
    BY <1>4, Pow2Def
  <2>2. QED
    BY <1>3, <2>1
<1>6. PICK v \in Nat : v = 2 * l
  OBVIOUS
<1>7. v \in RandomBits(c)
  BY <1>2, <1>5, <1>6 DEF RandomBits
<1>8. Masked(v, c) = v
  <2>1. v % (4 * l) = v
    BY <1>6
  <2>2. QED
    BY <1>5, <2>1 DEF Masked
<1>9. v \in Draws(b)
  BY <1>1, <1>7, <1>8 DEF Draws
<1>10. v < b
  <2>1. v # b
    BY <1>6
  <2>2. QED
    BY <1>1, <1>2, <1>5, <1>6, <2>1
<1>11. QED
  BY <1>9, <1>10 DEF Accepted

-----------------------------------------------------------------------------
(* The state, one number at a time.                                        *)
Numbered ==
  /\ below \in Nat /\ drawn \in Nat /\ cand \in Nat /\ step \in Nat /\ n \in Nat
  /\ d \in Nat /\ r \in Nat /\ round \in Nat /\ a \in Nat /\ x \in Nat /\ j \in Nat
  /\ result \in Nat

LEMMA TypeParts ==
  TypeOK <=> /\ pc \in {"below", "test", "generate", "scan", "round", "witness", "square", "done"}
             /\ task \in Tasks
             /\ Numbered
             /\ step <= Scan /\ round <= Rounds
BY DEF TypeOK, Numbered

LEMMA TaskParts ==
  ASSUME NEW t \in Tasks
  PROVE  t.kind \in {"below", "test", "generate"} /\ t.arg \in Nat
BY PrimesAssumption

(* The first state.                                                        *)
LEMMA InitInv == Init => IInv
<1> SUFFICES ASSUME Init PROVE IInv
  OBVIOUS
<1> USE DEF Init
<1>1. task.kind \in {"below", "test", "generate"} /\ task.arg \in Nat
  BY TaskParts
<1>2. TypeOK
  <2>1. Numbered
    BY <1>1 DEF Numbered
  <2>2. 0 <= Scan /\ 0 <= Rounds
    BY PrimesAssumption
  <2>3. QED
    BY <1>1, <2>1, <2>2, TypeParts
<1>3. SquaringChain /\ VerdictSound /\ GeneratedWidth
  BY <1>1 DEF SquaringChain, VerdictSound, Accepts, Rejects, GeneratedWidth
<1>4. ~InTest
  BY <1>1 DEF InTest
<1>5. SearchInv
  BY <1>1, <1>4 DEF SearchInv
<1>6. WitnessInv
  BY <1>4 DEF WitnessInv
<1>7. QED
  BY <1>2, <1>3, <1>5, <1>6 DEF IInv, LoopInv

(* Only a step that ends the task can say anything of a verdict.           *)
LEMMA NoVerdict ==
  ASSUME pc' # "done"
  PROVE  VerdictSound' /\ GeneratedWidth'
BY DEF VerdictSound, Accepts, Rejects, GeneratedWidth

LEMMA UnchangedInv ==
  ASSUME IInv, UNCHANGED vars
  PROVE  IInv'
BY DEF IInv, LoopInv, TypeOK, SquaringChain, SearchInv, InTest, WorthTesting, WitnessInv,
       VerdictSound, Accepts, Rejects, GeneratedWidth, HasSmallFactor, vars, tested

-----------------------------------------------------------------------------
(* The draws.                                                              *)
LEMMA StepDraw ==
  ASSUME IInv, NEW v \in Draws(below), Draw(v)
  PROVE  IInv'
<1> USE DEF Draw, tested
<1>0. TypeOK /\ Numbered /\ SearchInv /\ WitnessInv
  BY TypeParts DEF IInv, LoopInv
<1>1. v \in Nat
  BY <1>0, DrawsAreNumbers DEF Numbered
<1>2. CASE v < below /\ task.kind = "below"
  <2>1. pc' = "done" /\ task' = task
    BY <1>2
  <2>2. TypeOK'
    BY <1>0, <1>1, <1>2, TypeParts DEF Numbered, TypeOK
  <2>3. VerdictSound' /\ GeneratedWidth' /\ SquaringChain' /\ SearchInv' /\ WitnessInv'
    BY <1>2, <2>1 DEF VerdictSound, Accepts, Rejects, GeneratedWidth, SquaringChain, SearchInv, WitnessInv, InTest
  <2>4. QED
    BY <2>2, <2>3 DEF IInv, LoopInv
<1>3. CASE v < below /\ task.kind # "below"
  <2>1. pc' = "witness" /\ InTest /\ InTest' /\ drawn' = v /\ UNCHANGED <<task, below, cand, step, n, d, r, round, a, x, j, witnesses, result>>
    BY <1>3 DEF InTest
  <2>2. TypeOK'
    BY <1>0, <1>1, <2>1, TypeParts DEF Numbered, TypeOK
  <2>3. SquaringChain'
    BY <2>1 DEF SquaringChain
  <2>4. SearchInv'
    BY <1>0, <1>3, <2>1 DEF SearchInv
  <2>5. WitnessInv'
    BY <1>0, <1>3, <2>1 DEF WitnessInv, HasSmallFactor
  <2>6. QED
    BY <2>1, <2>2, <2>3, <2>4, <2>5, NoVerdict DEF IInv, LoopInv
<1>4. CASE ~(v < below)
  <2>1. UNCHANGED vars
    BY <1>4 DEF vars
  <2>2. QED
    BY <2>1, UnchangedInv
<1>5. QED
  BY <1>0, <1>2, <1>3, <1>4

LEMMA StepDrawCandidate ==
  ASSUME IInv, NEW v \in RandomBits(task.arg), DrawCandidate(v)
  PROVE  IInv'
<1> USE DEF DrawCandidate, tested
<1>0. TypeOK /\ Numbered /\ SearchInv
  BY TypeParts DEF IInv, LoopInv
<1>1. task \in Tasks /\ v \in Nat
  BY <1>0, TaskParts, DrawsAreNumbers DEF TypeOK
<1>2. pc' = "scan" /\ task.kind = "generate" /\ UNCHANGED <<task, below, drawn, n, d, r, round, a, x, j, witnesses, result>>
  BY <1>0 DEF SearchInv
<1>3. cand' \in Nat /\ cand' % 2 = 1
  <2>1. CASE v % 2 = 0
    BY <1>1, <2>1
  <2>2. CASE v % 2 # 0
    BY <1>1, <2>2
  <2>3. QED
    BY <2>1, <2>2
<1>4. TypeOK'
  <2>1. 0 <= Scan
    BY PrimesAssumption
  <2>2. QED
    BY <1>0, <1>2, <1>3, <2>1, TypeParts DEF Numbered, TypeOK
<1>5. SquaringChain' /\ SearchInv' /\ WitnessInv'
  BY <1>2, <1>3 DEF SquaringChain, SearchInv, WitnessInv, InTest
<1>6. QED
  BY <1>2, <1>4, <1>5, NoVerdict DEF IInv, LoopInv

-----------------------------------------------------------------------------
(* The scan.                                                               *)
LEMMA StepScanSkip ==
  ASSUME IInv, ScanSkip
  PROVE  IInv'
<1> USE DEF ScanSkip, tested
<1>0. TypeOK /\ Numbered /\ SearchInv
  BY TypeParts DEF IInv, LoopInv
<1>1. pc' = "scan" /\ task.kind = "generate" /\ UNCHANGED <<task, below, drawn, n, d, r, round, a, x, j, witnesses, result>>
  BY <1>0 DEF SearchInv
<1>2. cand' \in Nat /\ cand' % 2 = 1 /\ step' \in Nat /\ step' <= Scan
  BY <1>0, PrimesAssumption DEF SearchInv, Numbered
<1>3. TypeOK'
  BY <1>0, <1>1, <1>2, TypeParts DEF Numbered, TypeOK
<1>4. SquaringChain' /\ SearchInv' /\ WitnessInv'
  BY <1>1, <1>2 DEF SquaringChain, SearchInv, WitnessInv, InTest
<1>5. QED
  BY <1>1, <1>3, <1>4, NoVerdict DEF IInv, LoopInv

LEMMA StepScanTest ==
  ASSUME IInv, ScanTest
  PROVE  IInv'
<1> USE DEF ScanTest
<1>0. TypeOK /\ Numbered /\ SearchInv
  BY TypeParts DEF IInv, LoopInv
<1>1. pc' = "test" /\ ~InTest' /\ task.kind = "generate" /\ n' = cand /\ cand % 2 = 1
  BY <1>0 DEF SearchInv, InTest
<1>2. TypeOK'
  BY <1>0, <1>1, TypeParts DEF Numbered, TypeOK
<1>3. SquaringChain' /\ WitnessInv'
  BY <1>1 DEF SquaringChain, WitnessInv
<1>4. SearchInv'
  BY <1>1 DEF SearchInv, WorthTesting, HasSmallFactor
<1>5. QED
  BY <1>1, <1>2, <1>3, <1>4, NoVerdict DEF IInv, LoopInv

LEMMA StepScanExhausted ==
  ASSUME IInv, ScanExhausted
  PROVE  IInv'
<1> USE DEF ScanExhausted, tested
<1>0. TypeOK /\ Numbered /\ SearchInv
  BY TypeParts DEF IInv, LoopInv
<1>1. pc' = "generate" /\ task.kind = "generate" /\ task' = task
  BY <1>0 DEF SearchInv
<1>2. TypeOK'
  BY <1>0, <1>1, TypeParts DEF Numbered, TypeOK
<1>3. SquaringChain' /\ SearchInv' /\ WitnessInv'
  BY <1>1 DEF SquaringChain, SearchInv, WitnessInv, InTest
<1>4. QED
  BY <1>1, <1>2, <1>3, NoVerdict DEF IInv, LoopInv

-----------------------------------------------------------------------------
(* The end of a test: the verdict is sound when it has its reason.         *)
LEMMA StepVerdict ==
  ASSUME IInv, InTest \/ pc = "test", NEW v \in BOOLEAN, Verdict(v),
         UNCHANGED <<task, below, drawn, n, a, x, j>>,
         d' \in Nat, r' \in Nat, round' \in Nat, round' <= Rounds,
         v => \/ n \in SmallPrimes
              \/ round' = Rounds /\ \A w \in witnesses' : StrongLiar(w, n),
         ~v => ~IsPrime(n),
         ~v => \/ n < 2 \/ HasSmallFactor(n)
               \/ \E w \in witnesses' : ~StrongLiar(w, n)
  PROVE  IInv'
<1>0. TypeOK /\ Numbered /\ SearchInv /\ task \in Tasks
  BY TypeParts DEF IInv, LoopInv, TypeOK
<1>1. task.kind \in {"test", "generate"}
  BY <1>0, TaskParts DEF SearchInv
<1>2. CASE task.kind = "generate"
  <2>1. n = cand /\ cand % 2 = 1 /\ WorthTesting(cand, task.arg) /\ step < Scan
    BY <1>0, <1>2 DEF SearchInv
  <2>2. CASE v
    <3>1. pc' = "done" /\ result' = cand /\ UNCHANGED <<cand, step>>
      BY <1>2, <2>2 DEF Verdict
    <3>2. TypeOK'
      BY <1>0, <3>1, TypeParts DEF Numbered, TypeOK
    <3>3. SquaringChain' /\ SearchInv' /\ WitnessInv'
      BY <3>1 DEF SquaringChain, SearchInv, WitnessInv, InTest
    <3>4. VerdictSound'
      BY <1>2 DEF VerdictSound, Accepts, Rejects
    <3>5. GeneratedWidth'
      BY <2>1, <3>1 DEF GeneratedWidth, WorthTesting, HasSmallFactor
    <3>6. QED
      BY <3>2, <3>3, <3>4, <3>5 DEF IInv, LoopInv
  <2>3. CASE ~v
    <3>1. pc' = "scan" /\ cand' = cand + 2 /\ step' = step + 1 /\ result' = result
      BY <1>2, <2>3 DEF Verdict
    <3>2. cand' \in Nat /\ cand' % 2 = 1 /\ step' \in Nat /\ step' <= Scan
      BY <1>0, <2>1, <3>1, PrimesAssumption DEF Numbered
    <3>3. TypeOK'
      BY <1>0, <3>1, <3>2, TypeParts DEF Numbered, TypeOK
    <3>4. SquaringChain' /\ SearchInv' /\ WitnessInv'
      BY <1>2, <3>1, <3>2 DEF SquaringChain, SearchInv, WitnessInv, InTest
    <3>5. QED
      BY <3>1, <3>3, <3>4, NoVerdict DEF IInv, LoopInv
  <2>4. QED
    BY <2>2, <2>3
<1>3. CASE task.kind = "test"
  <2>1. pc' = "done" /\ result' = (IF v THEN 1 ELSE 0) /\ UNCHANGED <<cand, step>>
    BY <1>3 DEF Verdict
  <2>2. result' \in Nat
    BY <2>1
  <2>3. TypeOK'
    BY <1>0, <2>1, <2>2, TypeParts DEF Numbered, TypeOK
  <2>4. SquaringChain' /\ SearchInv' /\ WitnessInv' /\ GeneratedWidth'
    BY <1>3, <2>1 DEF SquaringChain, SearchInv, WitnessInv, InTest, GeneratedWidth
  <2>5. CASE v
    <3>1. result' = 1
      BY <2>1, <2>5
    <3>2. VerdictSound'
      BY <2>5, <3>1 DEF VerdictSound, Accepts, Rejects
    <3>3. QED
      BY <2>3, <2>4, <3>2 DEF IInv, LoopInv
  <2>6. CASE ~v
    <3>1. result' = 0
      BY <2>1, <2>6
    <3>2. VerdictSound'
      BY <2>6, <3>1 DEF VerdictSound, Accepts, Rejects, HasSmallFactor
    <3>3. QED
      BY <2>3, <2>4, <3>2 DEF IInv, LoopInv
  <2>7. QED
    BY <2>5, <2>6
<1>4. QED
  BY <1>1, <1>2, <1>3

LEMMA StepTrialDivision ==
  ASSUME IInv, TrialDivision
  PROVE  IInv'
<1> USE DEF TrialDivision
<1>0. TypeOK /\ Numbered /\ SearchInv
  BY TypeParts DEF IInv, LoopInv
<1>1. CASE n < 2 \/ HasSmallFactor(n) \/ n \in SmallPrimes
  <2> DEFINE v == n \in SmallPrimes
  <2>1. Verdict(v) /\ v \in BOOLEAN /\ pc = "test"
    BY <1>1
  <2>2. UNCHANGED <<task, below, drawn, n, a, x, j>> /\ d' \in Nat /\ r' \in Nat
    BY <1>0, <1>1 DEF Numbered
  <2>3. round' \in Nat /\ round' <= Rounds
    BY PrimesAssumption
  <2>4. ~v => ~IsPrime(n)
    <3>1. n < 2 => ~IsPrime(n)
      BY <1>0 DEF IsPrime, Numbered
    <3>2. n >= 2 /\ HasSmallFactor(n) => ~IsPrime(n)
      BY <1>0, FactorMeansComposite DEF Numbered
    <3>3. QED
      BY <1>0, <1>1, <3>1, <3>2 DEF Numbered
  <2>5. ~v => n < 2 \/ HasSmallFactor(n)
    BY <1>1
  <2> HIDE DEF v, TrialDivision
  <2>6. v => n \in SmallPrimes
    BY DEF v
  <2>7. QED
    BY <2>1, <2>2, <2>3, <2>4, <2>5, <2>6, StepVerdict
<1>2. CASE ~(n < 2 \/ HasSmallFactor(n) \/ n \in SmallPrimes)
  <2>1. pc' = "round" /\ r' = TwosIn(n - 1) /\ d' = (n - 1) \div Pow2[r']
        /\ witnesses' = {} /\ round' = 0
        /\ UNCHANGED <<task, below, drawn, cand, step, n, a, x, j, result>>
    BY <1>2
  <2>2. n % 2 = 1 /\ n > 3
    BY <1>0, <1>2, Survivor DEF Numbered
  <2>3. r' \in Nat /\ d' \in Nat
    <3>1. n - 1 \in Nat \ {0}
      BY <1>0, <2>2 DEF Numbered
    <3>2. QED
      BY <2>1, <3>1, TwosInFacts
  <2>4. TypeOK'
    <3>1. 0 <= Rounds
      BY PrimesAssumption
    <3>2. QED
      BY <1>0, <2>1, <2>3, <3>1, TypeParts DEF Numbered, TypeOK
  <2>5. SquaringChain'
    BY <2>1 DEF SquaringChain
  <2>6. SearchInv'
    BY <1>0, <2>1 DEF SearchInv, InTest, WorthTesting, HasSmallFactor
  <2>7. WitnessInv'
    BY <1>2, <2>1, <2>2 DEF WitnessInv, HasSmallFactor
  <2>8. QED
    BY <2>1, <2>4, <2>5, <2>6, <2>7, NoVerdict DEF IInv, LoopInv
<1>3. QED
  BY <1>1, <1>2

-----------------------------------------------------------------------------
(* The rounds.                                                             *)
LEMMA StepNextRound ==
  ASSUME IInv, NextRound
  PROVE  IInv'
<1> USE DEF NextRound, tested
<1>0. TypeOK /\ Numbered /\ SearchInv /\ WitnessInv /\ InTest
  BY TypeParts DEF IInv, LoopInv, InTest
<1>1. pc' = "below" /\ below' = n - 2 /\ UNCHANGED <<task, drawn, cand, step, n, d, r, round, a, x, j, witnesses, result>>
  BY DEF WitnessHi
<1>2. task.kind # "below" /\ n > 3
  BY <1>0 DEF SearchInv, WitnessInv
<1>3. TypeOK'
  <2>1. below' \in Nat
    BY <1>0, <1>1, <1>2 DEF Numbered
  <2>2. QED
    BY <1>0, <1>1, <2>1, TypeParts DEF Numbered, TypeOK
<1>4. SquaringChain'
  BY <1>1 DEF SquaringChain
<1>5. SearchInv'
  BY <1>0, <1>1, <1>2 DEF SearchInv, InTest
<1>6. WitnessInv'
  BY <1>0, <1>1 DEF WitnessInv, HasSmallFactor
<1>7. QED
  BY <1>1, <1>3, <1>4, <1>5, <1>6, NoVerdict DEF IInv, LoopInv

LEMMA StepRoundsDone ==
  ASSUME IInv, RoundsDone
  PROVE  IInv'
<1> USE DEF RoundsDone, tested
<1>0. TypeOK /\ Numbered /\ WitnessInv /\ InTest
  BY TypeParts DEF IInv, LoopInv, InTest
<1>1. Verdict(TRUE) /\ UNCHANGED <<task, below, drawn, n, a, x, j, d, r, round, witnesses>>
  OBVIOUS
<1>2. round' = Rounds /\ round' <= Rounds
  BY <1>0, PrimesAssumption DEF TypeOK, Numbered
<1>3. \A w \in witnesses' : StrongLiar(w, n)
  BY <1>0 DEF WitnessInv
<1>4. d' \in Nat /\ r' \in Nat /\ round' \in Nat
  BY <1>0 DEF Numbered
<1>5. QED
  BY <1>0, <1>1, <1>2, <1>3, <1>4, StepVerdict

(* n-1 is even, so it is halved at least once and the odd part is left.    *)
LEMMA TestedNumber ==
  ASSUME IInv, InTest
  PROVE  /\ n \in Nat /\ n > 3 /\ r \in Nat \ {0} /\ d \in Nat
         /\ r = TwosIn(n - 1) /\ d = (n - 1) \div Pow2[r]
         /\ \A w : StrongLiar(w, n) <=> \/ Power(w, d, n) = 1
                                        \/ \E e \in 0..(r-1) : Power(w, d * Pow2[e], n) = n - 1
<1>0. Numbered /\ WitnessInv
  BY TypeParts DEF IInv, LoopInv
<1>1. n \in Nat /\ n > 3 /\ n % 2 = 1 /\ r = TwosIn(n - 1) /\ d = (n - 1) \div Pow2[r] /\ r \in Nat /\ d \in Nat
  BY <1>0 DEF Numbered, WitnessInv
<1>2. r # 0
  <2>1. n - 1 \in Nat \ {0}
    BY <1>1
  <2>2. d % 2 = 1 /\ n - 1 = d * Pow2[r]
    BY <1>1, <2>1, TwosInFacts
  <2>3. ASSUME r = 0 PROVE FALSE
    <3>1. n - 1 = d
      BY <1>1, <2>2, <2>3, Pow2Def
    <3>2. QED
      BY <1>1, <2>2, <3>1
  <2>4. QED
    BY <2>3
<1>3. \A w : StrongLiar(w, n) <=> \/ Power(w, d, n) = 1
                                  \/ \E e \in 0..(r-1) : Power(w, d * Pow2[e], n) = n - 1
  BY <1>1 DEF StrongLiar
<1>4. QED
  BY <1>1, <1>2, <1>3

LEMMA StepWitness ==
  ASSUME IInv, Witness
  PROVE  IInv'
<1> USE DEF Witness
<1>0. TypeOK /\ Numbered /\ SearchInv /\ WitnessInv /\ InTest
  BY TypeParts DEF IInv, LoopInv, InTest
<1>1. /\ a' = drawn + 2 /\ x' = Power(a', d, n) /\ witnesses' = witnesses \cup {a'} /\ j' = 0
      /\ UNCHANGED <<task, below, drawn, cand, step, n, d, r, result>>
  OBVIOUS
<1>2. n > 3 /\ drawn < n - 2 /\ round < Rounds
  BY <1>0 DEF WitnessInv
<1>3. a' \in 1..(n-1) /\ a' \in Nat
  BY <1>0, <1>1, <1>2 DEF Numbered
<1>4. x' \in 0..(n-1) /\ x' \in Nat
  <2>1. n \in Nat \ {0} /\ d \in Nat
    BY <1>0, <1>2 DEF Numbered
  <2>2. x' \in 0..(n-1)
    BY <1>1, <1>3, <2>1, PowerRec
  <2>3. QED
    BY <2>2
<1>5. Power(a', d * Pow2[0], n) = x'
  <2>1. d * 1 = d
    BY <1>0 DEF Numbered
  <2>2. QED
    BY <1>1, <2>1, Pow2Def
<1>6. SearchInv' /\ InTest'
  <2>1. pc' \in {"round", "square"}
    OBVIOUS
  <2>2. QED
    BY <1>0, <1>1, <2>1 DEF SearchInv, InTest
<1>7. CASE PassesAtOnce(x')
  <2>1. pc' = "round" /\ round' = round + 1
    BY <1>7
  <2>2. TypeOK'
    <3>1. round' \in Nat /\ round' <= Rounds /\ j' \in Nat
      BY <1>0, <1>1, <1>2, <2>1, PrimesAssumption DEF Numbered
    <3>2. QED
      BY <1>0, <1>1, <1>3, <1>4, <2>1, <3>1, TypeParts DEF Numbered, TypeOK
  <2>3. StrongLiar(a', n)
    <3>1. x' = 1 \/ x' = n - 1
      BY <1>7 DEF PassesAtOnce
    <3>2. 0 \in 0..(r-1)
      BY <1>0, TestedNumber
    <3>3. QED
      BY <1>0, <1>1, <1>5, <3>1, <3>2, TestedNumber
  <2>4. WitnessInv'
    BY <1>0, <1>1, <1>3, <2>1, <2>3 DEF WitnessInv, HasSmallFactor
  <2>5. SquaringChain'
    BY <2>1 DEF SquaringChain
  <2>6. QED
    BY <1>6, <2>1, <2>2, <2>4, <2>5, NoVerdict DEF IInv, LoopInv
<1>8. CASE ~PassesAtOnce(x')
  <2>1. pc' = "square" /\ round' = round /\ x' # 1 /\ x' # n - 1
    BY <1>8 DEF PassesAtOnce
  <2>2. TypeOK'
    BY <1>0, <1>1, <1>3, <1>4, <2>1, TypeParts DEF Numbered, TypeOK
  <2>3. WitnessInv'
    BY <1>0, <1>1, <1>2, <1>3, <2>1 DEF WitnessInv, HasSmallFactor
  <2>4. SquaringChain'
    <3>1. 0 < r /\ r \in Nat
      BY <1>0, TestedNumber
    <3>2. \A e \in 0..0 : e = 0
      OBVIOUS
    <3>3. QED
      BY <1>1, <1>5, <2>1, <3>1, <3>2 DEF SquaringChain
  <2>5. QED
    BY <1>6, <2>1, <2>2, <2>3, <2>4, NoVerdict DEF IInv, LoopInv
<1>9. QED
  BY <1>7, <1>8

LEMMA StepSquare ==
  ASSUME IInv, Square
  PROVE  IInv'
<1> USE DEF Square
<1>0. TypeOK /\ Numbered /\ SearchInv /\ WitnessInv /\ InTest /\ SquaringChain
  BY TypeParts DEF IInv, LoopInv, InTest
<1>1. /\ x' = (x * x) % n /\ j' = j + 1 /\ j + 1 < r
      /\ UNCHANGED <<task, below, drawn, cand, step, n, d, r, a, witnesses, result>>
  BY DEF MoreSquarings
<1>2. n \in Nat \ {0} /\ d \in Nat /\ j \in Nat /\ a \in Nat
  BY <1>0, TestedNumber DEF Numbered
<1>3. x' = Power(a, d * Pow2[j + 1], n) /\ x' \in 0..(n-1) /\ x' \in Nat
  <2>1. x = Power(a, d * Pow2[j], n)
    BY <1>0 DEF SquaringChain
  <2>2. x \in 0..(n-1) /\ Power(a, d * Pow2[j + 1], n) = (x * x) % n
    <3> HIDE DEF Square
    <3> DEFINE y(e) == Power(a, d * Pow2[e], n)
    <3>1. \A e \in Nat : y(e) \in 0..(n-1) /\ y(e + 1) = (y(e) * y(e)) % n
      BY <1>2, NextSquare
    <3>2. x = y(j)
      BY <2>1
    <3>3. y(j) \in 0..(n-1) /\ y(j + 1) = (y(j) * y(j)) % n
      BY <1>2, <3>1, Zenon
    <3> HIDE DEF y
    <3>4. x \in 0..(n-1) /\ y(j + 1) = (x * x) % n
      BY <3>2, <3>3, Zenon
    <3>5. QED
      BY <3>4 DEF y
  <2>3. (x * x) % n \in 0..(n-1)
    <3>1. PICK s \in Int : s = x * x
      BY <2>2
    <3>2. s % n \in 0..(n-1)
      BY <1>2, <3>1
    <3>3. QED
      BY <3>1, <3>2
  <2>4. QED
    BY <1>1, <2>2, <2>3
<1>4. SearchInv' /\ InTest'
  <2>1. pc' \in {"round", "square"}
    OBVIOUS
  <2>2. QED
    BY <1>0, <1>1, <2>1 DEF SearchInv, InTest
<1>5. round < Rounds /\ a \in witnesses
  BY <1>0 DEF WitnessInv
<1>6. CASE x' = n - 1
  <2>1. pc' = "round" /\ round' = round + 1
    BY <1>6
  <2>2. TypeOK'
    <3>1. round' \in Nat /\ round' <= Rounds /\ j' \in Nat
      BY <1>0, <1>1, <1>5, <2>1, PrimesAssumption DEF Numbered
    <3>2. QED
      BY <1>0, <1>1, <1>3, <2>1, <3>1, TypeParts DEF Numbered, TypeOK
  <2>3. StrongLiar(a, n)
    <3>1. j + 1 \in 0..(r-1)
      BY <1>0, <1>1, <1>2, TestedNumber
    <3>2. QED
      BY <1>0, <1>3, <1>6, <3>1, TestedNumber
  <2>4. WitnessInv'
    BY <1>0, <1>1, <2>1, <2>3 DEF WitnessInv, HasSmallFactor
  <2>5. SquaringChain'
    BY <2>1 DEF SquaringChain
  <2>6. QED
    BY <1>4, <2>1, <2>2, <2>4, <2>5, NoVerdict DEF IInv, LoopInv
<1>7. CASE x' # n - 1
  <2>1. pc' = "square" /\ round' = round
    BY <1>7
  <2>2. TypeOK'
    BY <1>0, <1>1, <1>3, <2>1, TypeParts DEF Numbered, TypeOK
  <2>3. WitnessInv'
    BY <1>0, <1>1, <2>1 DEF WitnessInv, HasSmallFactor
  <2>4. SquaringChain'
    <3>1. \A e \in 0..(j+1) : e \in 0..j \/ e = j + 1
      BY <1>2
    <3>2. \A e \in 0..(j+1) : Power(a, d * Pow2[e], n) # n - 1
      BY <1>0, <1>3, <1>7, <3>1 DEF SquaringChain
    <3>3. Power(a, d, n) # 1
      BY <1>0 DEF SquaringChain
    <3>4. QED
      BY <1>1, <1>3, <3>2, <3>3 DEF SquaringChain
  <2>5. QED
    BY <1>4, <2>1, <2>2, <2>3, <2>4, NoVerdict DEF IInv, LoopInv
<1>8. QED
  BY <1>6, <1>7

(* After r-1 squarings without n-1 the witness proves n composite: a prime *)
(* would have excused itself.                                              *)
LEMMA StepComposite ==
  ASSUME IInv, Composite
  PROVE  IInv'
<1> USE DEF Composite, tested
<1>0. Numbered /\ WitnessInv /\ InTest /\ SquaringChain
  BY TypeParts DEF IInv, LoopInv, InTest
<1>1. Verdict(FALSE) /\ UNCHANGED <<task, below, drawn, n, a, x, j, d, r, round, witnesses>>
  OBVIOUS
<1>2. a \in witnesses /\ a \in 1..(n-1) /\ n > 2
  BY <1>0 DEF WitnessInv, Numbered
<1>3. ~StrongLiar(a, n)
  <2>1. j < r /\ ~(j + 1 < r) /\ j \in Nat /\ r \in Nat
    BY <1>0 DEF SquaringChain, MoreSquarings, Numbered
  <2>2. r - 1 = j
    BY <2>1
  <2>3. QED
    BY <1>0, <2>2, TestedNumber DEF SquaringChain
<1>4. ~IsPrime(n)
  BY <1>0, <1>2, <1>3, PrimeExcused DEF Numbered
<1>5. d' \in Nat /\ r' \in Nat /\ round' \in Nat /\ round' <= Rounds
  BY <1>0 DEF Numbered, IInv, LoopInv, TypeOK
<1>6. QED
  BY <1>0, <1>1, <1>2, <1>3, <1>4, <1>5, StepVerdict

-----------------------------------------------------------------------------
(* The theorems.                                                           *)
LEMMA NextInv == IInv /\ [Next]_vars => IInv'
<1> SUFFICES ASSUME IInv, [Next]_vars PROVE IInv'
  OBVIOUS
<1>1. CASE RandomBelow
  BY <1>1, StepDraw DEF RandomBelow
<1>2. CASE RandomCandidate
  BY <1>2, StepDrawCandidate DEF RandomCandidate
<1>3. CASE Compute
  BY <1>3, StepScanSkip, StepScanTest, StepScanExhausted, StepTrialDivision, StepNextRound,
     StepRoundsDone, StepWitness, StepSquare, StepComposite DEF Compute
<1>4. CASE UNCHANGED vars
  BY <1>4, UnchangedInv
<1>5. QED
  BY <1>1, <1>2, <1>3, <1>4 DEF Next

(* The inductive invariant of the search, the test and the draws, for      *)
(* every table of small primes, number of rounds and number tested.        *)
THEOREM Inductive == Spec => []IInv
<1>1. Init => IInv
  BY InitInv
<1>2. IInv /\ [Next]_vars => IInv'
  BY NextInv
<1>3. QED
  BY <1>1, <1>2, PTL DEF Spec

(* is_probable_prime never rejects a prime, whatever is drawn; what it     *)
(* rejects has a small factor or a witness among the drawn, and what it    *)
(* accepts is a small prime or was excused by the witnesses of all rounds. *)
THEOREM VerdictsSound == Spec => []VerdictSound
<1>1. IInv => VerdictSound
  BY DEF IInv
<1>2. QED
  BY <1>1, Inductive, PTL

(* generate_prime returns an odd number of the width asked for that no     *)
(* small prime divides: no carry of the upward scan leaves the width.      *)
THEOREM WidthsRight == Spec => []GeneratedWidth
<1>1. IInv => GeneratedWidth
  BY DEF IInv
<1>2. QED
  BY <1>1, Inductive, PTL

(* Every witness the test asks random_below for can be drawn: the bound    *)
(* n-2 is never the power of two that rejects all draws.                   *)
THEOREM WitnessesDrawable == Spec => []WitnessDrawable
<1>1. IInv => WitnessDrawable
  <2> SUFFICES ASSUME IInv, pc = "below", task.kind # "below" PROVE Accepted(below) # {}
    BY DEF WitnessDrawable
  <2>1. InTest
    BY DEF InTest
  <2>2. below = n - 2 /\ n > 3 /\ n % 2 = 1 /\ n \in Nat
    BY <2>1, TypeParts DEF IInv, LoopInv, WitnessInv, Numbered
  <2>3. below \in Nat /\ below > 1 /\ below % 2 = 1
    BY <2>2
  <2>4. QED
    BY <2>3, OddBoundDrawable
<1>2. QED
  BY <1>1, Inductive, PTL

-----------------------------------------------------------------------------
(* Random draws: digits put together, and taken apart.                     *)

(* Taking v apart by p and then by q is taking it apart by p*q.            *)
DividedTwice(v, p, q) == v \div (p * q) = (v \div p) \div q

LEMMA QuotientParts ==
  ASSUME NEW v \in Nat, NEW p \in Nat \ {0}, NEW q \in Nat \ {0}
  PROVE  /\ p * q \in Nat \ {0} /\ v \div p \in Nat
         /\ DividedTwice(v, p, q)
         /\ v % (p * q) = (v % p) + ((v \div p) % q) * p
<1>1. PICK h \in Int, low \in 0..(p-1) : h = v \div p /\ low = v % p /\ v = low + h * p
  <2>1. v \in Int
    OBVIOUS
  <2>2. QED
    BY <2>1, Division, Zenon
<1>2. h \in Nat
  <2>1. ASSUME h <= -1 PROVE FALSE
    <3>1. h * p <= -p
      BY <2>1
    <3>2. QED
      BY <1>1, <3>1
  <2>2. QED
    BY <2>1
<1>3. PICK e \in Int, g \in 0..(q-1) : e = h \div q /\ g = h % q /\ h = g + e * q
  <2>1. h \in Int
    OBVIOUS
  <2>2. QED
    BY <2>1, Division, Zenon
<1>4. PICK pq \in Nat \ {0}, rest \in Nat : pq = p * q /\ rest = g * p
  <2>1. p * q \in Nat \ {0} /\ g * p \in Nat
    OBVIOUS
  <2>2. QED
    BY <2>1, Zenon
<1>5. low + rest \in 0..(pq - 1)
  <2>1. g \in Nat /\ q - 1 \in Nat /\ g <= q - 1
    OBVIOUS
  <2>2. g * p <= (q - 1) * p
    BY <2>1, TimesMono
  <2>3. (q - 1) * p = p * q - p
    OBVIOUS
  <2>4. QED
    BY <1>4, <2>2, <2>3
<1>6. v = pq * e + (low + rest)
  <2>1. (g + e * q) * p = g * p + (p * q) * e
    OBVIOUS
  <2>2. h * p = rest + pq * e
    BY <1>3, <1>4, <2>1
  <2>3. PICK s \in Int, t \in Int : s = h * p /\ t = pq * e
    OBVIOUS
  <2>4. v = low + s /\ s = rest + t
    BY <1>1, <2>2, <2>3, Zenon
  <2>5. v = t + (low + rest)
    BY <2>4
  <2>6. QED
    BY <2>3, <2>5, Zenon
<1>7. v \div pq = e /\ v % pq = low + rest
  <2>1. PICK c \in 0..(pq - 1) : c = low + rest
    BY <1>5
  <2>2. v = pq * e + c
    BY <1>6, <2>1
  <2>3. QED
    BY <2>1, <2>2
<1>8. v \div (p * q) = e /\ v % (p * q) = low + g * p
  BY <1>4, <1>7, Zenon
<1>9. DividedTwice(v, p, q)
  BY <1>1, <1>3, <1>8 DEF DividedTwice
<1>10. v % (p * q) = (v % p) + ((v \div p) % q) * p
  BY <1>1, <1>3, <1>8, Zenon
<1>11. QED
  BY <1>1, <1>2, <1>4, <1>9, <1>10, Zenon

(* The digits of a number, put together again.                             *)
DigitsOf(v, w) == [k \in Nat |-> (v \div Pow2[w * k]) % Pow2[w]]

LEMMA DigitsJoined ==
  ASSUME NEW w \in Nat, NEW v \in Nat
  PROVE  /\ DigitsOf(v, w) \in DigitArrays(w)
         /\ \A k \in Nat : Joined(DigitsOf(v, w), w, k) = v % Pow2[w * k]
<1> DEFINE f == DigitsOf(v, w)
           P == {k \in Nat : Joined(f, w, k) = v % Pow2[w * k]}
<1>1. \A k \in Nat : f[k] = (v \div Pow2[w * k]) % Pow2[w]
  BY DEF DigitsOf
<1>2. f \in DigitArrays(w)
  <2>1. ASSUME NEW k \in Nat PROVE (v \div Pow2[w * k]) % Pow2[w] \in 0..(Pow2[w] - 1)
    <3>1. PICK p \in Nat \ {0}, q \in Nat \ {0} : p = Pow2[w * k] /\ q = Pow2[w]
      BY NextWeight
    <3>2. v \div p \in Int
      OBVIOUS
    <3>3. (v \div p) % q \in 0..(q - 1)
      BY <3>2
    <3>4. QED
      BY <3>1, <3>3, Zenon
  <2>2. QED
    BY <2>1 DEF DigitsOf, DigitArrays
<1> HIDE DEF f
<1>3. 0 \in P
  <2>1. w * 0 = 0 /\ v % 1 = 0
    OBVIOUS
  <2>2. Joined(f, w, 0) = 0
    BY <1>2, JoinedRec
  <2>3. Pow2[w * 0] = 1
    BY <2>1, Pow2Def, Zenon
  <2>4. Joined(f, w, 0) = v % Pow2[w * 0]
    BY <2>1, <2>2, <2>3, Zenon
  <2>5. 0 \in Nat
    OBVIOUS
  <2>6. QED
    BY <2>4, <2>5, Zenon
<1>4. ASSUME NEW k \in P PROVE k+1 \in P
  <2>1. Joined(f, w, k+1) = Joined(f, w, k) + f[k] * Pow2[w * k]
    BY <1>2, JoinedRec
  <2>2. PICK p \in Nat \ {0}, q \in Nat \ {0} :
          p = Pow2[w * k] /\ q = Pow2[w] /\ Pow2[w * (k+1)] = p * q
    <3>1. k \in Nat
      OBVIOUS
    <3>2. /\ Pow2[w * k] \in Nat \ {0} /\ Pow2[w] \in Nat \ {0}
          /\ Pow2[w * (k+1)] = Pow2[w * k] * Pow2[w]
      BY <3>1, NextWeight
    <3>3. QED
      BY <3>2, Zenon
  <2>3. v % (p * q) = (v % p) + ((v \div p) % q) * p
    BY QuotientParts
  <2>4. Joined(f, w, k) = v % p /\ f[k] = (v \div p) % q
    BY <1>1, <2>2
  <2>5. Joined(f, w, k+1) = v % Pow2[w * (k+1)]
    BY <2>1, <2>2, <2>3, <2>4
  <2>6. QED
    BY <2>5
<1>5. P = Nat
  <2> HIDE DEF P
  <2>1. P \subseteq Nat
    BY DEF P
  <2>2. QED
    BY <1>3, <1>4, <2>1, SetInduction
<1>6. QED
  BY <1>2, <1>5 DEF f

(* A limb has LimbBits bits, and bits of them fill so many limbs.          *)
LEMMA LimbFacts ==
  /\ ByteBits \in Nat \ {0} /\ LimbBytes \in Nat \ {0} /\ WordBytes \in Nat \ {0}
  /\ LimbBits \in Nat \ {0} /\ LimbBits = ByteBits * LimbBytes
<1>1. ByteBits \in Nat \ {0} /\ LimbBytes \in Nat \ {0} /\ WordBytes \in Nat \ {0}
  BY RandomSourceAssumption
<1>2. ByteBits * LimbBytes \in Nat \ {0}
  BY <1>1
<1>3. QED
  BY <1>1, <1>2 DEF LimbBits

(* The width is last whole limbs and top bits of one more.                 *)
Layout(bits, last, top) ==
  /\ LimbsFor(bits) = last + 1 /\ bits = LimbBits * last + top
  /\ (bits - 1) % LimbBits = top - 1
  /\ bits % LimbBits = IF top = LimbBits THEN 0 ELSE top

LEMMA LayoutExists ==
  ASSUME NEW bits \in Nat \ {0}
  PROVE  \E last \in Nat, top \in 1..LimbBits : Layout(bits, last, top)
<1>1. PICK size \in Nat \ {0} : size = LimbBits
  BY LimbFacts
<1>2. PICK q \in Int, t \in 0..(size-1) :
        q = (bits - 1) \div size /\ t = (bits - 1) % size /\ bits - 1 = t + q * size
  <2>1. bits - 1 \in Int
    OBVIOUS
  <2>2. QED
    BY <2>1, Division, Zenon
<1>3. q \in Nat
  <2>1. ASSUME q <= -1 PROVE FALSE
    <3>1. q * size <= -size
      BY <2>1
    <3>2. QED
      BY <1>2, <3>1
  <2>2. QED
    BY <2>1
<1>4. PICK whole \in Nat : whole = q * size /\ size * q = whole /\ (q + 1) * size = whole + size
  <2>1. q * size \in Nat /\ size * q = q * size /\ (q + 1) * size = q * size + size
    BY <1>3
  <2>2. QED
    BY <2>1, Zenon
<1>5. bits = whole + (t + 1)
  BY <1>2, <1>4
<1>6. LimbsFor(bits) = q + 1
  <2>1. bits + size - 1 = size * (q + 1) + t
    <3>1. size * (q + 1) = whole + size
      BY <1>3, <1>4
    <3>2. QED
      BY <1>5, <3>1
  <2>2. PICK e \in Nat, c \in Nat : e = q + 1 /\ c = bits + size - 1
    BY <1>3
  <2>3. c = size * e + t
    BY <2>1, <2>2
  <2>4. c \div size = e
    BY <2>3
  <2>5. QED
    BY <1>1, <2>2, <2>4 DEF LimbsFor
<1>7. bits % size = IF t + 1 = size THEN 0 ELSE t + 1
  <2>1. CASE t + 1 = size
    <3>1. bits = (q + 1) * size
      BY <1>4, <1>5, <2>1
    <3>2. PICK e \in Int : e = q + 1
      BY <1>3
    <3>3. bits = 0 + e * size /\ 0 \in 0..(size-1)
      BY <3>1, <3>2
    <3>4. (0 + e * size) % size = 0
      BY Residue
    <3>5. QED
      BY <2>1, <3>3, <3>4
  <2>2. CASE t + 1 # size
    <3>1. PICK u \in 0..(size-1) : u = t + 1
      BY <2>2
    <3>2. bits = u + q * size
      BY <1>4, <1>5, <3>1
    <3>3. (u + q * size) % size = u
      BY Residue
    <3>4. QED
      BY <2>2, <3>1, <3>2, <3>3, Zenon
  <2>3. QED
    BY <2>1, <2>2
<1>8. PICK top \in 1..size : top = t + 1 /\ t = top - 1
  OBVIOUS
<1>9. Layout(bits, q, top)
  BY <1>1, <1>2, <1>4, <1>5, <1>6, <1>7, <1>8 DEF Layout
<1>10. QED
  BY <1>1, <1>3, <1>8, <1>9, Zenon

Bytewise(bytes) == \A k \in DOMAIN bytes : bytes[k] \in Byte

(* The digits that limb i of a buffer is put together from.                *)
LimbDigits(bytes, i) == [k \in Nat |-> ByteAt(bytes, LimbBytes * i + k + 1)]

LEMMA LimbAtRange ==
  ASSUME NEW bytes, Bytewise(bytes), NEW i \in Nat
  PROVE  /\ LimbDigits(bytes, i) \in DigitArrays(ByteBits)
         /\ LimbAt(bytes, i) = Joined(LimbDigits(bytes, i), ByteBits, LimbBytes)
         /\ LimbAt(bytes, i) \in 0..(Pow2[LimbBits] - 1)
<1>1. \A k : ByteAt(bytes, k) \in 0..(Pow2[ByteBits] - 1)
  <2>1. Pow2[ByteBits] \in Nat \ {0}
    BY LimbFacts, Pow2Def
  <2>2. 0 \in 0..(Pow2[ByteBits] - 1)
    BY <2>1
  <2>3. QED
    BY <2>2 DEF ByteAt, Bytewise, Byte
<1>2. LimbDigits(bytes, i) \in DigitArrays(ByteBits)
  BY <1>1 DEF LimbDigits, DigitArrays
<1>3. LimbAt(bytes, i) = Joined(LimbDigits(bytes, i), ByteBits, LimbBytes)
  BY Zenon DEF LimbAt, LimbDigits
<1>4. ByteBits \in Nat /\ LimbBytes \in Nat
  BY LimbFacts
<1>5. Joined(LimbDigits(bytes, i), ByteBits, LimbBytes) \in 0..(Pow2[ByteBits * LimbBytes] - 1)
  BY <1>2, <1>4, JoinedBound
<1>6. QED
  BY <1>2, <1>3, <1>5, LimbFacts, Zenon

(* The last limb, trimmed and with its top bit forced, has top bits; one   *)
(* that has them already is left alone.                                    *)
LEMMA TopBitForced ==
  ASSUME NEW top \in 1..LimbBits, NEW limb \in 0..(Pow2[LimbBits] - 1)
  PROVE  LET kept == Forced(Trim(limb, IF top = LimbBits THEN 0 ELSE top), top - 1)
         IN  /\ kept \in Pow2[top - 1]..(Pow2[top] - 1)
             /\ limb \in Pow2[top - 1]..(Pow2[top] - 1) => kept = limb
<1> DEFINE trimmed == Trim(limb, IF top = LimbBits THEN 0 ELSE top)
<1>1. LimbBits \in Nat \ {0} /\ top \in Nat /\ top # 0 /\ top - 1 \in Nat /\ (top - 1) + 1 = top
  BY LimbFacts
<1>2. PICK half \in Nat \ {0} : half = Pow2[top - 1] /\ Pow2[top] = 2 * half
  BY <1>1, Pow2Def
<1>3. trimmed \in 0..(2 * half - 1) /\ (limb \in half..(2 * half - 1) => trimmed = limb)
  <2>1. CASE top = LimbBits
    <3>1. trimmed = limb
      BY <2>1 DEF Trim
    <3>2. QED
      BY <1>2, <2>1, <3>1
  <2>2. CASE top # LimbBits
    <3>1. trimmed = limb % Pow2[top]
      BY <1>1, <2>2 DEF Trim
    <3>2. PICK whole \in Nat \ {0} : whole = 2 * half /\ trimmed = limb % whole
      BY <1>2, <3>1
    <3>3. limb \in Nat
      <4>1. Pow2[LimbBits] \in Nat
        BY <1>1, Pow2Def
      <4>2. QED
        BY <4>1
    <3> HIDE DEF trimmed
    <3>4. limb % whole \in 0..(whole - 1) /\ (limb \in 0..(whole - 1) => limb % whole = limb)
      BY <3>3
    <3>5. limb \in half..(2 * half - 1) => limb \in 0..(whole - 1)
      BY <3>2
    <3>6. QED
      BY <3>2, <3>4, <3>5, Zenon
  <2>3. QED
    BY <2>1, <2>2
<1> HIDE DEF trimmed
<1>4. PICK t \in 0..(2 * half - 1) : t = trimmed
  BY <1>3
<1>5. CASE t < half
  <2>1. t \div half = 0
    BY <1>5
  <2>2. Forced(trimmed, top - 1) = t + half
    <3>1. (t \div half) % 2 = 0
      BY <2>1
    <3>2. QED
      BY <1>2, <1>4, <3>1 DEF Forced
  <2>3. t + half \in half..(2 * half - 1) /\ ~(t \in half..(2 * half - 1))
    BY <1>5
  <2>4. QED
    BY <1>2, <1>3, <1>4, <2>2, <2>3, Zenon DEF trimmed
<1>6. CASE t >= half
  <2>1. PICK rest \in 0..(half - 1) : t = half * 1 + rest
    <3>1. t - half \in 0..(half - 1) /\ t = half * 1 + (t - half)
      BY <1>6
    <3>2. QED
      BY <3>1
  <2>2. t \div half = 1
    BY <2>1
  <2>3. Forced(trimmed, top - 1) = t
    <3>1. (t \div half) % 2 = 1
      BY <2>2
    <3>2. QED
      BY <1>2, <1>4, <3>1 DEF Forced
  <2>4. t \in half..(2 * half - 1)
    BY <1>6
  <2>5. QED
    BY <1>2, <1>3, <1>4, <2>3, <2>4, Zenon DEF trimmed
<1>7. QED
  BY <1>5, <1>6

(* The limbs that random_bits returns.                                     *)
DrawnLimbs(bytes, bits) ==
  [i \in Nat |-> IF i = LimbsFor(bits) - 1 THEN LastLimb(bytes, bits) ELSE LimbAt(bytes, i)]

LEMMA DrawnFacts ==
  ASSUME NEW bits \in Nat \ {0}, NEW last \in Nat, NEW top \in 1..LimbBits,
         Layout(bits, last, top), NEW bytes, Bytewise(bytes)
  PROVE  /\ DrawnLimbs(bytes, bits) \in DigitArrays(LimbBits)
         /\ BitsFrom(bytes, bits) = Joined(DrawnLimbs(bytes, bits), LimbBits, last + 1)
         /\ DrawnLimbs(bytes, bits)[last] \in Pow2[top - 1]..(Pow2[top] - 1)
         /\ \A i \in 0..last : (i = last => LimbAt(bytes, last) \in Pow2[top - 1]..(Pow2[top] - 1))
              => DrawnLimbs(bytes, bits)[i] = LimbAt(bytes, i)
<1>1. LimbsFor(bits) = last + 1 /\ LimbsFor(bits) - 1 = last
  BY DEF Layout
<1>2. LimbAt(bytes, last) \in 0..(Pow2[LimbBits] - 1)
  BY LimbAtRange
<1>3. LastLimb(bytes, bits)
        = Forced(Trim(LimbAt(bytes, last), IF top = LimbBits THEN 0 ELSE top), top - 1)
  BY <1>1, Zenon DEF LastLimb, Layout
<1>4. /\ LastLimb(bytes, bits) \in Pow2[top - 1]..(Pow2[top] - 1)
      /\ LimbAt(bytes, last) \in Pow2[top - 1]..(Pow2[top] - 1) =>
           LastLimb(bytes, bits) = LimbAt(bytes, last)
  <2> DEFINE kept == Forced(Trim(LimbAt(bytes, last), IF top = LimbBits THEN 0 ELSE top), top - 1)
  <2>1. kept \in Pow2[top - 1]..(Pow2[top] - 1)
    BY <1>2, TopBitForced
  <2>2. LimbAt(bytes, last) \in Pow2[top - 1]..(Pow2[top] - 1) => kept = LimbAt(bytes, last)
    BY <1>2, TopBitForced
  <2>3. LastLimb(bytes, bits) = kept
    BY <1>3
  <2> HIDE DEF kept
  <2>4. QED
    BY <2>1, <2>2, <2>3
<1>5. Pow2[top - 1]..(Pow2[top] - 1) \subseteq 0..(Pow2[LimbBits] - 1)
  <2>1. top - 1 \in Nat /\ top \in Nat /\ LimbBits \in Nat /\ top <= LimbBits
    BY LimbFacts
  <2>2. Pow2[top] <= Pow2[LimbBits]
    BY <2>1, Pow2Grows
  <2>3. Pow2[top - 1] \in Nat /\ Pow2[top] \in Nat /\ Pow2[LimbBits] \in Nat
    BY <2>1, Pow2Def
  <2>4. QED
    BY <2>2, <2>3
<1>6. DrawnLimbs(bytes, bits) \in DigitArrays(LimbBits)
  <2>1. \A i \in Nat : LimbAt(bytes, i) \in 0..(Pow2[LimbBits] - 1)
    BY LimbAtRange
  <2>2. LastLimb(bytes, bits) \in 0..(Pow2[LimbBits] - 1)
    BY <1>4, <1>5
  <2>3. \A i \in Nat : (IF i = LimbsFor(bits) - 1 THEN LastLimb(bytes, bits) ELSE LimbAt(bytes, i))
                         \in 0..(Pow2[LimbBits] - 1)
    BY <2>1, <2>2, Zenon
  <2>4. QED
    BY <2>3, Zenon DEF DrawnLimbs, DigitArrays
<1>7. BitsFrom(bytes, bits) = Joined(DrawnLimbs(bytes, bits), LimbBits, last + 1)
  BY <1>1, Zenon DEF BitsFrom, DrawnLimbs
<1>8. \A i \in Nat : DrawnLimbs(bytes, bits)[i] =
        IF i = last THEN LastLimb(bytes, bits) ELSE LimbAt(bytes, i)
  BY <1>1 DEF DrawnLimbs
<1>9. \A i \in 0..last : i \in Nat
  OBVIOUS
<1>10. QED
  BY <1>4, <1>6, <1>7, <1>8, <1>9, Zenon

(* Whatever the bytes, the number has exactly the bits asked for.          *)
LEMMA DrawnWidth ==
  ASSUME NEW bits \in Nat \ {0}, NEW bytes, Bytewise(bytes)
  PROVE  BitsFrom(bytes, bits) \in Pow2[bits - 1]..(Pow2[bits] - 1)
<1>1. PICK last \in Nat, top \in 1..LimbBits : Layout(bits, last, top)
  BY LayoutExists
<1> DEFINE limbs == DrawnLimbs(bytes, bits)
<1>2. /\ limbs \in DigitArrays(LimbBits)
      /\ BitsFrom(bytes, bits) = Joined(limbs, LimbBits, last + 1)
      /\ limbs[last] \in Pow2[top - 1]..(Pow2[top] - 1)
  BY <1>1, DrawnFacts, Zenon
<1> HIDE DEF limbs
<1>3. LimbBits \in Nat /\ top \in Nat /\ top - 1 \in Nat /\ (top - 1) + 1 = top
  BY LimbFacts
<1>4. PICK whole \in Nat : whole = LimbBits * last
  BY <1>3
<1>5. PICK p \in Nat \ {0}, half \in Nat \ {0} :
        /\ p = Pow2[whole] /\ half = Pow2[top - 1] /\ Pow2[top] = 2 * half
        /\ Pow2[bits - 1] = p * half /\ Pow2[bits] = p * (2 * half)
  <2>1. bits = whole + top /\ bits - 1 = whole + (top - 1)
    BY <1>1, <1>3, <1>4 DEF Layout
  <2>2. Pow2[whole + top] = Pow2[whole] * Pow2[top]
    BY <1>3, Pow2Sum
  <2>3. Pow2[whole + (top - 1)] = Pow2[whole] * Pow2[top - 1]
    BY <1>3, Pow2Sum
  <2>4. Pow2[whole] \in Nat \ {0} /\ Pow2[top - 1] \in Nat \ {0} /\ Pow2[top] = 2 * Pow2[top - 1]
    BY <1>3, Pow2Def
  <2>5. QED
    BY <2>1, <2>2, <2>3, <2>4, Zenon
<1>6. PICK low \in 0..(p-1), high \in half..(2 * half - 1) :
        low = Joined(limbs, LimbBits, last) /\ high = limbs[last]
  <2>1. Joined(limbs, LimbBits, last) \in 0..(p-1)
    BY <1>2, <1>3, <1>4, <1>5, JoinedBound
  <2>2. limbs[last] \in half..(2 * half - 1)
    BY <1>2, <1>5, Zenon
  <2>3. QED
    BY <2>1, <2>2, Zenon
<1>7. BitsFrom(bytes, bits) = low + high * p
  <2>1. Joined(limbs, LimbBits, last + 1) = Joined(limbs, LimbBits, last) + limbs[last] * Pow2[LimbBits * last]
    BY <1>2, <1>3, JoinedRec
  <2>2. QED
    BY <1>2, <1>4, <1>5, <1>6, <2>1, Zenon
<1>8. half * p <= high * p /\ high * p <= (2 * half - 1) * p
  <2>1. half \in Nat /\ high \in Nat /\ 2 * half - 1 \in Nat /\ half <= high /\ high <= 2 * half - 1 /\ p \in Nat
    OBVIOUS
  <2>2. half * p <= high * p
    BY <2>1, TimesMono
  <2>3. high * p <= (2 * half - 1) * p
    BY <2>1, TimesMono
  <2>4. QED
    BY <2>2, <2>3
<1>9. PICK s \in Nat, t \in Nat : s = high * p /\ t = p * half /\ half * p = t
                                /\ (2 * half - 1) * p = 2 * t - p /\ p * (2 * half) = 2 * t
  <2>1. high \in Nat
    OBVIOUS
  <2>2. high * p \in Nat /\ p * half \in Nat /\ half * p = p * half
    BY <2>1
  <2>3. (2 * half - 1) * p = 2 * (p * half) - p /\ p * (2 * half) = 2 * (p * half)
    OBVIOUS
  <2>4. QED
    BY <2>2, <2>3, Zenon
<1>10. t <= s /\ s <= 2 * t - p
  BY <1>8, <1>9, Zenon
<1>11. low + s \in t..(2 * t - 1)
  BY <1>10
<1>12. QED
  BY <1>5, <1>7, <1>9, <1>11, Zenon

(* And every such number is drawn: from its own digits.                    *)
LEMMA DrawnAny ==
  ASSUME NEW bits \in Nat \ {0}, NEW v \in Pow2[bits - 1]..(Pow2[bits] - 1)
  PROVE  \E bytes \in [1..(LimbBytes * LimbsFor(bits)) -> Byte] : v = BitsFrom(bytes, bits)
<1>1. PICK last \in Nat, top \in 1..LimbBits : Layout(bits, last, top)
  BY LayoutExists
<1>2. PICK size \in Nat \ {0}, len \in Nat, room \in Nat :
        size = LimbBytes /\ len = last + 1 /\ room = size * len /\ LimbsFor(bits) = len
  <2>1. LimbBytes \in Nat \ {0} /\ last + 1 \in Nat /\ LimbsFor(bits) = last + 1
    BY <1>1, LimbFacts DEF Layout
  <2>2. LimbBytes * (last + 1) \in Nat
    BY <2>1
  <2>3. QED
    BY <2>1, <2>2, Zenon
<1>3. PICK bb \in Nat \ {0} : bb = ByteBits /\ LimbBits = bb * size
  BY <1>2, LimbFacts
<1>4. v \in Nat /\ v < Pow2[bits] /\ bits - 1 \in Nat
  <2>1. bits - 1 \in Nat /\ bits \in Nat
    OBVIOUS
  <2>2. Pow2[bits - 1] \in Nat /\ Pow2[bits] \in Nat
    BY <2>1, Pow2Def
  <2>3. QED
    BY <2>1, <2>2
<1> DEFINE digits == DigitsOf(v, bb)
           bytes == [k \in 1..room |-> digits[k - 1]]
<1>5. digits \in DigitArrays(bb)
  BY <1>4, DigitsJoined
<1>6. bytes \in [1..room -> Byte] /\ Bytewise(bytes)
  <2>1. \A k \in 1..room : k - 1 \in Nat
    OBVIOUS
  <2>2. \A k \in 1..room : digits[k-1] \in Byte
    BY <1>3, <1>5, <2>1 DEF DigitArrays, Byte
  <2> HIDE DEF digits
  <2>3. QED
    BY <2>2 DEF Bytewise
<1> HIDE DEF digits
(* A limb of these bytes is a limb of v.                                   *)
<1>7. \A i \in 0..last : LimbAt(bytes, i) = DigitsOf(v, LimbBits)[i]
  <2> SUFFICES ASSUME NEW i \in 0..last
               PROVE  LimbAt(bytes, i) = DigitsOf(v, LimbBits)[i]
    OBVIOUS
  <2>0. i \in Nat
    OBVIOUS
  <2>1. PICK si \in Nat, e \in Nat : si = size * i /\ e = LimbBits * i /\ bb * si = e
    <3>1. size * i \in Nat /\ (bb * size) * i \in Nat /\ bb * (size * i) = (bb * size) * i
      BY <2>0
    <3>2. QED
      BY <1>3, <3>1, Zenon
  <2>2. PICK p \in Nat \ {0}, q \in Nat \ {0}, u \in Nat :
          p = Pow2[e] /\ q = Pow2[LimbBits] /\ u = v \div p
    <3>1. Pow2[e] \in Nat \ {0} /\ Pow2[LimbBits] \in Nat \ {0}
      BY LimbFacts, Pow2Def
    <3>2. v \div Pow2[e] \in Nat
      BY <1>4, <3>1, QuotientParts
    <3>3. QED
      BY <3>1, <3>2, Zenon
  <2>3. DigitsOf(v, LimbBits)[i] = u % q
    BY <2>0, <2>1, <2>2 DEF DigitsOf
  <2>4. /\ DigitsOf(u, bb) \in DigitArrays(bb)
        /\ Joined(DigitsOf(u, bb), bb, size) = u % Pow2[bb * size]
    BY DigitsJoined
  <2>5. /\ LimbDigits(bytes, i) \in DigitArrays(bb)
        /\ LimbAt(bytes, i) = Joined(LimbDigits(bytes, i), bb, size)
    BY <1>2, <1>3, <1>6, <2>0, LimbAtRange
  <2>6. \A k \in 0..(size-1) : LimbDigits(bytes, i)[k] = DigitsOf(u, bb)[k]
    <3> SUFFICES ASSUME NEW k \in 0..(size-1)
                 PROVE  LimbDigits(bytes, i)[k] = DigitsOf(u, bb)[k]
      OBVIOUS
    <3>1. k \in Nat
      OBVIOUS
    <3>2. si + k + 1 \in 1..room /\ (si + k + 1) - 1 = si + k
      <4>1. size * i <= size * last /\ size * (last + 1) = size * last + size /\ size * last \in Nat
        <5>1. last * size \in Nat /\ i * size <= last * size
          BY <2>0, TimesMono
        <5>2. size * i = i * size /\ size * last = last * size /\ size * (last + 1) = size * last + size
          OBVIOUS
        <5>3. QED
          BY <5>1, <5>2
      <4>2. PICK t \in Nat : t = size * last /\ si <= t /\ room = t + size
        BY <1>2, <2>1, <4>1
      <4>3. QED
        BY <3>1, <4>2
    <3>3. LimbDigits(bytes, i)[k] = digits[si + k]
      <4>1. LimbDigits(bytes, i)[k] = ByteAt(bytes, size * i + k + 1)
        BY <1>2, <3>1 DEF LimbDigits
      <4>2. DOMAIN bytes = 1..room
        OBVIOUS
      <4>3. ByteAt(bytes, si + k + 1) = bytes[si + k + 1]
        BY <3>2, <4>2, Zenon DEF ByteAt
      <4>4. bytes[si + k + 1] = digits[si + k]
        BY <3>2
      <4>5. QED
        BY <2>1, <4>1, <4>3, <4>4, Zenon
    <3>4. PICK place \in Nat : place = bb * k
      BY <3>1
    <3>5. digits[si + k] = (v \div Pow2[e + place]) % Pow2[bb]
      <4>1. si + k \in Nat /\ bb * (si + k) = e + place
        <5>1. bb * (si + k) = bb * si + bb * k
          BY <3>1
        <5>2. QED
          BY <2>1, <3>1, <3>4, <5>1
      <4>2. digits[si + k] = (v \div Pow2[bb * (si + k)]) % Pow2[bb]
        BY <4>1 DEF digits, DigitsOf
      <4>3. QED
        BY <4>1, <4>2, Zenon
    <3>6. PICK c \in Nat \ {0} : c = Pow2[place] /\ Pow2[e + place] = p * c
      <4>1. Pow2[e + place] = Pow2[e] * Pow2[place]
        BY Pow2Sum
      <4>2. Pow2[place] \in Nat \ {0}
        BY Pow2Def
      <4>3. QED
        BY <2>2, <4>1, <4>2, Zenon
    <3>7. v \div (p * c) = u \div c
      <4>1. DividedTwice(v, p, c)
        BY <1>4, QuotientParts, Zenon
      <4>2. QED
        BY <2>2, <4>1, Zenon DEF DividedTwice
    <3>8. DigitsOf(u, bb)[k] = (u \div c) % Pow2[bb]
      BY <3>1, <3>4, <3>6 DEF DigitsOf
    <3>9. (v \div Pow2[e + place]) % Pow2[bb] = (u \div c) % Pow2[bb]
      BY <3>6, <3>7, Zenon
    <3>10. QED
      BY <3>3, <3>5, <3>8, <3>9
  <2>7. Joined(LimbDigits(bytes, i), bb, size) = Joined(DigitsOf(u, bb), bb, size)
    <3>1. PICK f \in DigitArrays(bb), g \in DigitArrays(bb) :
            f = LimbDigits(bytes, i) /\ g = DigitsOf(u, bb)
      BY <2>4, <2>5, Zenon
    <3>2. \A k \in 0..(size-1) : f[k] = g[k]
      BY <2>6, <3>1, Zenon
    <3>3. Joined(f, bb, size) = Joined(g, bb, size)
      BY <3>2, JoinedSame
    <3>4. QED
      BY <3>1, <3>3, Zenon
  <2>8. u % Pow2[bb * size] = u % q
    BY <1>3, <2>2
  <2>9. QED
    BY <2>3, <2>4, <2>5, <2>7, <2>8
<1> HIDE DEF bytes
(* Its top limb has just the bits that are left.                           *)
<1>8. LimbAt(bytes, last) \in Pow2[top - 1]..(Pow2[top] - 1)
  <2>1. LimbBits \in Nat /\ top \in Nat /\ top - 1 \in Nat /\ top <= LimbBits
    BY LimbFacts
  <2>2. PICK whole \in Nat : whole = LimbBits * last
    BY <2>1
  <2>3. PICK p \in Nat \ {0}, half \in Nat \ {0} :
          /\ p = Pow2[whole] /\ half = Pow2[top - 1] /\ Pow2[top] = 2 * half
          /\ Pow2[bits - 1] = p * half /\ Pow2[bits] = p * (2 * half)
    <3>1. bits = whole + top /\ bits - 1 = whole + (top - 1) /\ (top - 1) + 1 = top
      BY <1>1, <2>1, <2>2 DEF Layout
    <3>2. Pow2[whole + top] = Pow2[whole] * Pow2[top]
      BY <2>1, Pow2Sum
    <3>3. Pow2[whole + (top - 1)] = Pow2[whole] * Pow2[top - 1]
      BY <2>1, Pow2Sum
    <3>4. Pow2[whole] \in Nat \ {0} /\ Pow2[top - 1] \in Nat \ {0} /\ Pow2[(top - 1) + 1] = 2 * Pow2[top - 1]
      BY <2>1, Pow2Def
    <3>5. QED
      BY <3>1, <3>2, <3>3, <3>4, Zenon
  <2>4. PICK u \in Int, low \in 0..(p-1) : u = v \div p /\ v = low + u * p
    <3>1. v \in Int
      BY <1>4
    <3>2. QED
      BY <3>1, Division, Zenon
  <2>5. u \in half..(2 * half - 1)
    <3>1. p * half <= v /\ v < p * (2 * half)
      BY <1>4, <2>3
    <3>2. ASSUME u < half PROVE FALSE
      <4>1. PICK gap \in Nat : half = u + 1 + gap
        <5>1. half - u - 1 \in Nat /\ half = u + 1 + (half - u - 1)
          BY <3>2
        <5>2. QED
          BY <5>1
      <4>2. p * half = u * p + p + p * gap /\ p * gap \in Nat
        BY <4>1
      <4>3. PICK s \in Int, t \in Nat, z \in Int : s = u * p /\ t = p * gap /\ z = p * half
        BY <4>2
      <4>4. z = s + p + t /\ v = low + s /\ z <= v
        BY <2>4, <3>1, <4>2, <4>3, Zenon
      <4>5. QED
        BY <4>4
    <3>3. ASSUME u >= 2 * half PROVE FALSE
      <4>1. PICK gap \in Nat : u = 2 * half + gap
        <5>1. u - 2 * half \in Nat /\ u = 2 * half + (u - 2 * half)
          BY <3>3
        <5>2. QED
          BY <5>1
      <4>2. u * p = p * (2 * half) + gap * p /\ gap * p \in Nat
        BY <4>1
      <4>3. PICK s \in Int, t \in Nat, z \in Int : s = u * p /\ t = gap * p /\ z = p * (2 * half)
        BY <4>2
      <4>4. s = z + t /\ v = low + s /\ v < z
        BY <2>4, <3>1, <4>2, <4>3, Zenon
      <4>5. QED
        BY <4>4
    <3>4. QED
      BY <3>2, <3>3
  <2>6. PICK q \in Nat \ {0} : q = Pow2[LimbBits] /\ 2 * half <= q
    <3>1. Pow2[top] <= Pow2[LimbBits]
      BY <2>1, Pow2Grows
    <3>2. Pow2[LimbBits] \in Nat \ {0}
      BY <2>1, Pow2Def
    <3>3. QED
      BY <2>3, <3>1, <3>2
  <2>7. u % q = u
    <3>1. u \in 0..(q-1)
      BY <2>5, <2>6
    <3>2. QED
      BY <3>1
  <2>8. DigitsOf(v, LimbBits)[last] = (v \div p) % q
    BY <2>2, <2>3, <2>6 DEF DigitsOf
  <2>9. LimbAt(bytes, last) = DigitsOf(v, LimbBits)[last]
    BY <1>7
  <2>10. LimbAt(bytes, last) = u
    BY <2>4, <2>7, <2>8, <2>9
  <2>11. QED
    BY <2>3, <2>5, <2>10
<1>9. \A i \in 0..last : DrawnLimbs(bytes, bits)[i] = LimbAt(bytes, i)
  <2>1. \A i \in 0..last : (i = last => LimbAt(bytes, last) \in Pow2[top - 1]..(Pow2[top] - 1))
           => DrawnLimbs(bytes, bits)[i] = LimbAt(bytes, i)
    BY <1>1, <1>6, DrawnFacts
  <2>2. QED
    BY <1>8, <2>1, Zenon
<1>10. /\ DrawnLimbs(bytes, bits) \in DigitArrays(LimbBits)
       /\ BitsFrom(bytes, bits) = Joined(DrawnLimbs(bytes, bits), LimbBits, last + 1)
  BY <1>1, <1>6, DrawnFacts, Zenon
<1>11. LimbBits \in Nat /\ last + 1 \in Nat /\ (last + 1) - 1 = last
  BY LimbFacts
<1>12. /\ DigitsOf(v, LimbBits) \in DigitArrays(LimbBits)
       /\ Joined(DigitsOf(v, LimbBits), LimbBits, last + 1) = v % Pow2[LimbBits * (last + 1)]
  BY <1>4, <1>11, DigitsJoined
<1>13. Joined(DrawnLimbs(bytes, bits), LimbBits, last + 1)
         = Joined(DigitsOf(v, LimbBits), LimbBits, last + 1)
  BY <1>7, <1>9, <1>10, <1>11, <1>12, JoinedSame
<1>14. v % Pow2[LimbBits * (last + 1)] = v
  <2>1. PICK e \in Nat : e = LimbBits * (last + 1)
    BY <1>11
  <2>2. bits <= e
    <3>1. LimbBits * (last + 1) = LimbBits * last + LimbBits /\ LimbBits * last \in Nat
      BY <1>11
    <3>2. PICK t \in Nat : t = LimbBits * last /\ e = t + LimbBits /\ bits = t + top
      BY <1>1, <2>1, <3>1 DEF Layout
    <3>3. QED
      BY <1>11, <3>2
  <2>3. Pow2[bits] <= Pow2[e] /\ Pow2[bits] \in Nat /\ Pow2[e] \in Nat \ {0}
    BY <2>2, Pow2Grows, Pow2Def
  <2>4. PICK p \in Nat \ {0} : p = Pow2[e] /\ v < p
    BY <1>4, <2>3
  <2>5. v % p = v
    BY <1>4, <2>4
  <2>6. QED
    BY <2>1, <2>4, <2>5, Zenon
<1>15. v = BitsFrom(bytes, bits)
  BY <1>10, <1>12, <1>13, <1>14, Zenon
<1>16. bytes \in [1..(LimbBytes * LimbsFor(bits)) -> Byte]
  BY <1>2, <1>6, Zenon
<1>17. QED
  BY <1>15, <1>16, Zenon

(* THEOREM: random_bits (primes.cpp:22-38) on random bytes draws exactly   *)
(* the numbers of the width asked for, which is all that the prime search  *)
(* is modelled from.                                                       *)
THEOREM DrawsAreOfTheWidth ==
  ASSUME NEW bits \in Nat \ {0}
  PROVE  {BitsFrom(bytes, bits) : bytes \in [1..(LimbBytes * LimbsFor(bits)) -> Byte]}
           = RandomBits(bits)
<1>1. ASSUME NEW bytes \in [1..(LimbBytes * LimbsFor(bits)) -> Byte]
      PROVE  BitsFrom(bytes, bits) \in Pow2[bits - 1]..(Pow2[bits] - 1)
  <2>1. Bytewise(bytes)
    BY DEF Bytewise
  <2>2. QED
    BY <2>1, DrawnWidth
<1>2. \A v \in Pow2[bits - 1]..(Pow2[bits] - 1) :
        \E bytes \in [1..(LimbBytes * LimbsFor(bits)) -> Byte] : v = BitsFrom(bytes, bits)
  BY DrawnAny
<1>3. RandomBits(bits) = Pow2[bits - 1]..(Pow2[bits] - 1)
  BY DEF RandomBits
<1>4. QED
  BY <1>1, <1>2, <1>3, Zenon

-----------------------------------------------------------------------------
(* The sources, one at a time.  What was answered on source o, and where   *)
(* its generator stands.                                                   *)
CallOK(o, k) ==
  LET c == log[o].calls[k]
  IN  /\ c.first = Reached(o, k-1)
      /\ c.last = c.first + WordsFor(Bytes(c)) /\ c.last <= gens[o].pos
      /\ c.given = Result(Stretch(log[o].seed, c.first, Bytes(c)), c)
PastOK(o) == \A k \in DOMAIN log[o].calls : CallOK(o, k)

BufferOK(o) ==
  /\ Len(buf) = Shorter(Bytes(call), WordBytes * (gens[o].pos - first))
  /\ WordBytes * (gens[o].pos - first) < Bytes(call) + WordBytes
  /\ buf = Stretch(gens[o].seed, first, Len(buf))
NowOK(o) ==
  /\ gens[o].pos <= Len(tape[gens[o].seed])
  /\ IF Drawing(o) THEN /\ first = Reached(o, Len(log[o].calls)) /\ first <= gens[o].pos
                        /\ BufferOK(o)
     ELSE gens[o].pos = Reached(o, Len(log[o].calls))

SourcesOK ==
  /\ SourceTypeOK /\ OwnGenerator
  /\ \A o \in 1..Len(log) : PastOK(o) /\ NowOK(o)

LEMMA ElementIn ==
  ASSUME NEW Q, NEW s \in Seq(Q), NEW i \in 1..Len(s)
  PROVE  s[i] \in Q
OBVIOUS

LEMMA SourceFacts ==
  ASSUME SourceTypeOK, OwnGenerator
  PROVE  /\ Len(log) \in Nat /\ DOMAIN log = 1..Len(log)
         /\ Len(gens) = Len(log) /\ DOMAIN gens = 1..Len(log)
         /\ \A h \in Handles : src[h] \in 0..Len(log)
         /\ \A o \in 1..Len(log) :
              /\ gens[o].seed = log[o].seed /\ gens[o].seed \in Seeds /\ gens[o].pos \in Nat
              /\ log[o].calls \in Seq(Entries)
              /\ tape[gens[o].seed] \in Seq(Outputs)
         /\ first \in Nat /\ buf \in Seq(Byte) /\ Len(buf) \in Nat
<1>1. log \in Seq([seed : Seeds, calls : Seq(Entries)]) /\ gens \in Seq([seed : Seeds, pos : Nat])
  BY DEF SourceTypeOK
<1>2. /\ Len(log) \in Nat /\ DOMAIN log = 1..Len(log)
      /\ Len(gens) = Len(log) /\ DOMAIN gens = 1..Len(log)
  BY <1>1 DEF OwnGenerator
<1>3. \A h \in Handles : src[h] \in 0..Len(log)
  BY <1>2 DEF SourceTypeOK
<1>4. \A o \in 1..Len(log) : gens[o] \in [seed : Seeds, pos : Nat] /\ log[o] \in [seed : Seeds, calls : Seq(Entries)]
  <2> SUFFICES ASSUME NEW o \in 1..Len(log)
               PROVE  gens[o] \in [seed : Seeds, pos : Nat] /\ log[o] \in [seed : Seeds, calls : Seq(Entries)]
    OBVIOUS
  <2>1. o \in 1..Len(gens)
    BY <1>2, Zenon
  <2>2. gens[o] \in [seed : Seeds, pos : Nat]
    BY <1>1, <2>1, ElementIn, Zenon
  <2>3. log[o] \in [seed : Seeds, calls : Seq(Entries)]
    BY <1>1, ElementIn, Zenon
  <2>4. QED
    BY <2>2, <2>3
<1>5. \A o \in 1..Len(log) : gens[o].seed = log[o].seed
  BY <1>2 DEF OwnGenerator
<1>6. first \in Nat /\ buf \in Seq(Byte) /\ Len(buf) \in Nat
  BY DEF SourceTypeOK
<1>7. \A o \in 1..Len(log) : tape[gens[o].seed] \in Seq(Outputs)
  BY <1>4 DEF SourceTypeOK
<1>8. QED
  BY <1>2, <1>3, <1>4, <1>5, <1>6, <1>7

(* The invariant says this of every source, and draws are of the width.    *)
LEMMA SplitInv == DrawInv <=> SourcesOK
<1>1. ASSUME SourceTypeOK PROVE WidthExact
  <2> SUFFICES ASSUME call # Idle, call.kind = "bits", call.size > 0
               PROVE  {BitsFrom(bytes, call.size) : bytes \in [1..Bytes(call) -> Byte]}
                        = Pow2[call.size - 1]..(Pow2[call.size] - 1)
    BY DEF WidthExact
  <2>1. call \in Calls
    BY <1>1 DEF SourceTypeOK
  <2>2. PICK size \in Nat \ {0} : size = call.size
    BY <2>1 DEF Calls
  <2>3. Bytes(call) = LimbBytes * LimbsFor(size)
    BY <2>2 DEF Bytes
  <2>4. {BitsFrom(bytes, size) : bytes \in [1..(LimbBytes * LimbsFor(size)) -> Byte]} = RandomBits(size)
    BY DrawsAreOfTheWidth
  <2>5. RandomBits(size) = Pow2[size - 1]..(Pow2[size] - 1)
    BY DEF RandomBits
  <2>6. QED
    BY <2>2, <2>3, <2>4, <2>5, Zenon
<1>2. ASSUME SourceTypeOK, OwnGenerator
      PROVE  WordsOnce /\ Determined <=> \A o \in 1..Len(log) : PastOK(o) /\ NowOK(o)
  <2>1. DOMAIN log = 1..Len(log) /\ \A h \in Handles : src[h] \in 0..Len(log)
    BY <1>2, SourceFacts
  <2>2. call # Idle => call.h \in Handles
    BY <1>2 DEF SourceTypeOK, Calls
  <2>3. ASSUME call # Idle, src[call.h] # Device
        PROVE  src[call.h] \in 1..Len(log) /\ Drawing(src[call.h])
    <3>1. src[call.h] \in 0..Len(log) /\ src[call.h] # 0
      BY <2>1, <2>2, <2>3, Zenon DEF Device
    <3>2. src[call.h] \in 1..Len(log)
      BY <3>1
    <3>3. QED
      BY <2>3, <3>2 DEF Drawing
  <2>4. \A o \in 1..Len(log) : Drawing(o) => call # Idle /\ src[call.h] # Device /\ src[call.h] = o
    BY DEF Drawing, Device
  <2>5. \A o \in 1..Len(log) : log[o].seed = gens[o].seed
    BY <1>2, SourceFacts
  <2>6. ASSUME WordsOnce, Determined, NEW o \in 1..Len(log) PROVE PastOK(o) /\ NowOK(o)
    <3>1. PastOK(o)
      BY <2>1, <2>6, Zenon DEF WordsOnce, Determined, PastOK, CallOK
    <3>2. /\ gens[o].pos <= Len(tape[gens[o].seed])
          /\ Drawing(o) => first = Reached(o, Len(log[o].calls)) /\ first <= gens[o].pos
          /\ ~Drawing(o) => gens[o].pos = Reached(o, Len(log[o].calls))
      BY <2>1, <2>6, Zenon DEF WordsOnce
    <3>3. Drawing(o) => BufferOK(o)
      BY <2>4, <2>6, Zenon DEF Determined, BufferOK
    <3>4. QED
      BY <3>1, <3>2, <3>3, Zenon DEF NowOK
  <2>7. ASSUME \A o \in 1..Len(log) : PastOK(o) /\ NowOK(o) PROVE WordsOnce
    BY <2>1, <2>7, Zenon DEF WordsOnce, PastOK, CallOK, NowOK
  <2>8. ASSUME \A o \in 1..Len(log) : PastOK(o) /\ NowOK(o) PROVE Determined
    <3>1. \A o \in DOMAIN log : \A k \in DOMAIN log[o].calls :
       LET c == log[o].calls[k]
       IN  /\ c.last = c.first + WordsFor(Bytes(c))
           /\ c.last <= gens[o].pos
           /\ c.given = Result(Stretch(log[o].seed, c.first, Bytes(c)), c)
      BY <2>1, <2>8, Zenon DEF PastOK, CallOK
    <3>2. ASSUME call # Idle, src[call.h] # Device PROVE BufferOK(src[call.h])
      <4>1. src[call.h] \in 1..Len(log) /\ Drawing(src[call.h])
        BY <2>3, <3>2
      <4>2. QED
        BY <2>8, <4>1, Zenon DEF NowOK
    <3>3. QED
      BY <3>1, <3>2, Zenon DEF Determined, BufferOK
  <2>9. QED
    BY <2>6, <2>7, <2>8, Zenon
<1>3. QED
  BY <1>1, <1>2, Zenon DEF DrawInv, SourcesOK

(* The words a number of bytes takes.                                      *)
LEMMA WordsForFacts ==
  ASSUME NEW size \in Nat
  PROVE  /\ WordsFor(size) \in Nat
         /\ \A k \in 1..size : /\ (k-1) \div WordBytes \in Nat
                               /\ (k-1) \div WordBytes + 1 <= WordsFor(size)
<1>1. PICK b \in Nat \ {0} : b = WordBytes
  BY LimbFacts
<1>2. PICK q \in Int, t \in 0..(b-1) : q = (size + b - 1) \div b /\ size + b - 1 = t + q * b
  <2>1. size + b - 1 \in Int
    OBVIOUS
  <2>2. QED
    BY <2>1, Division, Zenon
<1>3. q \in Nat
  <2>1. ASSUME q <= -1 PROVE FALSE
    <3>1. q * b <= -b
      BY <2>1
    <3>2. QED
      BY <1>2, <3>1
  <2>2. QED
    BY <2>1
<1>4. WordsFor(size) = q
  BY <1>1, <1>2, Zenon DEF WordsFor
<1>5. ASSUME NEW k \in 1..size PROVE (k-1) \div b \in Nat /\ (k-1) \div b + 1 <= q
  <2>1. PICK e \in Int, u \in 0..(b-1) : e = (k-1) \div b /\ k - 1 = u + e * b
    <3>1. k - 1 \in Int
      OBVIOUS
    <3>2. QED
      BY <3>1, Division, Zenon
  <2>2. e \in Nat
    <3>1. ASSUME e <= -1 PROVE FALSE
      <4>1. e * b <= -b
        BY <3>1
      <4>2. QED
        BY <2>1, <4>1
    <3>2. QED
      BY <3>1
  <2>3. ASSUME q <= e PROVE FALSE
    <3>1. q * b <= e * b
      BY <1>3, <2>2, <2>3, TimesMono
    <3>2. PICK s \in Int, z \in Int : s = q * b /\ z = e * b
      OBVIOUS
    <3>3. s <= z /\ size + b - 1 = t + s /\ k - 1 = u + z
      BY <1>2, <2>1, <3>1, <3>2, Zenon
    <3>4. QED
      BY <3>3
  <2>4. e + 1 <= q
    BY <1>3, <2>2, <2>3
  <2>5. QED
    BY <2>1, <2>2, <2>4, Zenon
<1>6. QED
  BY <1>1, <1>3, <1>4, <1>5, Zenon

LEMMA BytesNat ==
  ASSUME NEW c, c.size \in Nat
  PROVE  Bytes(c) \in Nat
<1>1. PICK b \in Nat \ {0}, size \in Nat : b = LimbBits /\ size = c.size
  BY LimbFacts
<1>2. PICK z \in Nat : z = size + b - 1
  OBVIOUS
<1>3. PICK q \in Int, t \in 0..(b-1) : q = z \div b /\ z = t + q * b
  <2>1. z \in Int
    OBVIOUS
  <2>2. QED
    BY <2>1, Division, Zenon
<1>4. q \in Nat
  <2>1. ASSUME q <= -1 PROVE FALSE
    <3>1. q * b <= -b
      BY <2>1
    <3>2. QED
      BY <1>3, <3>1
  <2>2. QED
    BY <2>1
<1>5. LimbsFor(c.size) = q
  BY <1>1, <1>2, <1>3 DEF LimbsFor
<1>6. LimbBytes * q \in Nat
  BY <1>4, LimbFacts
<1>7. QED
  BY <1>1, <1>5, <1>6, Zenon DEF Bytes

(* A tape only grows, ...                                                  *)
TapeKept ==
  \A s \in Seeds : /\ Len(tape[s]) <= Len(tape'[s])
                   /\ \A i \in 1..Len(tape[s]) : tape'[s][i] = tape[s][i]

(* ... so what stands on it stays, ...                                     *)
LEMMA StretchKept ==
  ASSUME SourceTypeOK, TapeKept, NEW s \in Seeds, NEW place \in Nat, NEW size \in Nat,
         place + WordsFor(size) <= Len(tape[s])
  PROVE  Stretch(s, place, size)' = Stretch(s, place, size)
<1>1. \A k \in 1..size : /\ (k-1) \div WordBytes \in Nat
                         /\ (k-1) \div WordBytes + 1 <= WordsFor(size)
  BY WordsForFacts
<1>2. WordsFor(size) \in Nat
  BY WordsForFacts
<1>3. Len(tape[s]) \in Nat
  BY DEF SourceTypeOK
<1>4. \A k \in 1..size : tape'[s][place + 1 + ((k-1) \div WordBytes)]
                           = tape[s][place + 1 + ((k-1) \div WordBytes)]
  <2> SUFFICES ASSUME NEW k \in 1..size
               PROVE  tape'[s][place + 1 + ((k-1) \div WordBytes)]
                        = tape[s][place + 1 + ((k-1) \div WordBytes)]
    OBVIOUS
  <2>1. PICK e \in Nat : e = (k-1) \div WordBytes /\ e + 1 <= WordsFor(size)
    BY <1>1, Zenon
  <2>2. place + 1 + e \in 1..Len(tape[s])
    BY <1>2, <1>3, <2>1
  <2>3. tape'[s][place + 1 + e] = tape[s][place + 1 + e]
    BY <2>2, Zenon DEF TapeKept
  <2>4. QED
    BY <2>1, <2>3
<1>5. [k \in 1..size |-> ByteOf(tape'[s][place + 1 + ((k-1) \div WordBytes)], (k-1) % WordBytes)]
    = [k \in 1..size |-> ByteOf(tape[s][place + 1 + ((k-1) \div WordBytes)], (k-1) % WordBytes)]
  BY <1>4, Zenon
<1>6. QED
  BY <1>5, Zenon DEF Stretch

(* ... and so does the record of a source whose generator only moves on.   *)
LEMMA PastKept ==
  ASSUME SourcesOK, NEW o \in 1..Len(log), TapeKept, log'[o] = log[o],
         gens'[o].pos \in Nat, gens[o].pos <= gens'[o].pos
  PROVE  PastOK(o)'
<1>1. /\ gens[o].seed = log[o].seed /\ gens[o].seed \in Seeds /\ gens[o].pos \in Nat
      /\ log[o].calls \in Seq(Entries)
  BY SourceFacts, Zenon DEF SourcesOK
<1>2. gens[o].pos <= Len(tape[gens[o].seed]) /\ \A k \in DOMAIN log[o].calls : CallOK(o, k)
  BY DEF SourcesOK, NowOK, PastOK
<1> SUFFICES ASSUME NEW k \in DOMAIN log[o].calls PROVE CallOK(o, k)'
  BY DEF PastOK
<1>3. PICK c \in Entries : c = log[o].calls[k] /\ c = (log[o].calls[k])'
  <2>1. k \in 1..Len(log[o].calls)
    BY <1>1
  <2>2. log[o].calls[k] \in Entries
    BY <1>1, <2>1, ElementIn, Zenon
  <2>3. QED
    BY <2>2, Zenon
<1>4. /\ c.first = Reached(o, k-1) /\ c.last = c.first + WordsFor(Bytes(c))
      /\ c.last <= gens[o].pos
      /\ c.given = Result(Stretch(log[o].seed, c.first, Bytes(c)), c)
  BY <1>2, <1>3, Zenon DEF CallOK
<1>5. c.first \in Nat /\ c.last \in Nat /\ c.size \in Nat
  BY DEF Entries
<1>6. Bytes(c) \in Nat
  BY <1>5, BytesNat
<1>7. Stretch(log[o].seed, c.first, Bytes(c))' = Stretch(log[o].seed, c.first, Bytes(c))
  <2>1. PICK s \in Seeds : s = log[o].seed /\ log'[o].seed = s
    BY <1>1, Zenon
  <2>2. c.first + WordsFor(Bytes(c)) <= Len(tape[s])
    <3>1. Len(tape[s]) \in Nat
      BY DEF SourcesOK, SourceTypeOK
    <3>2. QED
      BY <1>1, <1>2, <1>4, <1>5, <2>1, <3>1
  <2>3. Stretch(s, c.first, Bytes(c))' = Stretch(s, c.first, Bytes(c))
    BY <1>5, <1>6, <2>2, StretchKept DEF SourcesOK
  <2>4. QED
    BY <2>1, <2>3 DEF Stretch
<1>8. Reached(o, k-1)' = Reached(o, k-1)
  BY Zenon DEF Reached
<1>9. c.last <= gens'[o].pos
  BY <1>1, <1>4, <1>5
<1>10. QED
  BY <1>3, <1>4, <1>7, <1>8, <1>9 DEF CallOK

(* A source that nobody reads from stays where it is.                      *)
LEMMA NowKept ==
  ASSUME SourcesOK, NEW o \in 1..Len(log), TapeKept, SourceTypeOK', log'[o] = log[o],
         gens'[o] = gens[o], ~Drawing(o), ~Drawing(o)'
  PROVE  NowOK(o)'
<1>1. gens[o].pos <= Len(tape[gens[o].seed]) /\ gens[o].pos = Reached(o, Len(log[o].calls))
  BY DEF SourcesOK, NowOK
<1>2. Reached(o, Len(log[o].calls))' = Reached(o, Len(log[o].calls))
  BY Zenon DEF Reached
<1>3. PICK s \in Seeds, pos \in Nat : s = gens[o].seed /\ pos = gens[o].pos
  BY SourceFacts, Zenon DEF SourcesOK
<1>4. Len(tape[s]) \in Nat /\ Len(tape'[s]) \in Nat /\ Len(tape[s]) <= Len(tape'[s])
  <2>1. tape[s] \in Seq(Outputs)
    BY DEF SourcesOK, SourceTypeOK
  <2>2. tape'[s] \in Seq(Outputs)
    BY DEF SourceTypeOK
  <2>3. Len(tape[s]) <= Len(tape'[s])
    BY DEF TapeKept
  <2>4. QED
    BY <2>1, <2>2, <2>3
<1>5. gens'[o].pos <= Len(tape'[gens'[o].seed])
  BY <1>1, <1>3, <1>4
<1>6. QED
  BY <1>1, <1>2, <1>5 DEF NowOK

LEMMA SourcesInit == SourceInit => SourcesOK
<1> SUFFICES ASSUME SourceInit PROVE SourcesOK
  OBVIOUS
<1>1. SourceTypeOK
  BY DEF SourceInit, SourceTypeOK, Device
<1>2. OwnGenerator
  BY DEF SourceInit, OwnGenerator, Device
<1>3. QED
  BY <1>1, <1>2 DEF SourceInit, SourcesOK

(* A seeded source is given a generator of its own.                        *)
LEMMA SeededRandomKeeps ==
  ASSUME SourcesOK, NEW h \in Handles, NEW s \in Seeds, SeededRandom(h, s)
  PROVE  SourcesOK'
<1>1. /\ call = Idle /\ gens' = Append(gens, [seed |-> s, pos |-> 0])
      /\ src' = [src EXCEPT ![h] = Len(gens) + 1]
      /\ log' = Append(log, [seed |-> s, calls |-> <<>>])
      /\ origin' = [origin EXCEPT ![h] = Len(log) + 1]
      /\ UNCHANGED <<tape, call, buf, first>>
  BY DEF SeededRandom, NewGenerator
<1>2. SourceTypeOK /\ OwnGenerator
  BY DEF SourcesOK
<1>3. /\ gens \in Seq([seed : Seeds, pos : Nat]) /\ src \in [Handles -> 0..Len(gens)]
      /\ log \in Seq([seed : Seeds, calls : Seq(Entries)])
      /\ Len(gens) = Len(log) /\ origin = src /\ Len(log) \in Nat
  BY <1>2 DEF SourceTypeOK, OwnGenerator
<1>a. PICK new \in Nat : new = Len(log) + 1 /\ \A o \in 1..new : o \in 1..Len(log) \/ o = new
  <2>1. PICK len \in Nat : len = Len(log)
    BY <1>3, Zenon
  <2>2. len + 1 \in Nat /\ \A o \in 1..(len + 1) : o \in 1..len \/ o = len + 1
    OBVIOUS
  <2>3. QED
    BY <2>1, <2>2, Zenon
<1>4. /\ gens' \in Seq([seed : Seeds, pos : Nat]) /\ Len(gens') = new
      /\ gens'[new] = [seed |-> s, pos |-> 0]
      /\ \A o \in 1..Len(log) : gens'[o] = gens[o]
  <2>1. [seed |-> s, pos |-> 0] \in [seed : Seeds, pos : Nat]
    OBVIOUS
  <2>2. QED
    BY <1>1, <1>3, <1>a, <2>1
<1>5. /\ log' \in Seq([seed : Seeds, calls : Seq(Entries)]) /\ Len(log') = new
      /\ log'[new] = [seed |-> s, calls |-> <<>>]
      /\ \A o \in 1..Len(log) : log'[o] = log[o]
  <2>1. [seed |-> s, calls |-> <<>>] \in [seed : Seeds, calls : Seq(Entries)]
    OBVIOUS
  <2>2. QED
    BY <1>1, <1>3, <1>a, <2>1
<1>6. src' \in [Handles -> 0..Len(gens')] /\ origin' = src'
  BY <1>1, <1>3, <1>4, <1>a
<1>7. SourceTypeOK'
  BY <1>1, <1>2, <1>4, <1>5, <1>6 DEF SourceTypeOK, Bytes, Calls
<1>8. OwnGenerator'
  <2>1. DOMAIN log' = 1..new
    BY <1>5
  <2>2. \A o \in 1..Len(log) : gens[o].seed = log[o].seed
    BY <1>2, SourceFacts
  <2>3. gens'[new].seed = s /\ log'[new].seed = s
    BY <1>4, <1>5
  <2>4. \A o \in 1..new : gens'[o].seed = log'[o].seed
    BY <1>4, <1>5, <1>a, <2>2, <2>3, Zenon
  <2>5. QED
    BY <1>4, <1>5, <1>6, <2>1, <2>4 DEF OwnGenerator
<1>9. ASSUME NEW o \in 1..Len(log) PROVE PastOK(o)' /\ NowOK(o)'
  <2>1. log'[o] = log[o] /\ gens'[o] = gens[o]
    BY <1>4, <1>5
  <2>2. gens'[o].pos \in Nat /\ gens[o].pos <= gens'[o].pos
    <3>1. gens[o].pos \in Nat
      BY <1>2, SourceFacts
    <3>2. QED
      BY <2>1, <3>1
  <2>3. TapeKept
    BY <1>1, <1>2 DEF TapeKept, SourceTypeOK
  <2>4. PastOK(o)'
    BY <2>1, <2>2, <2>3, PastKept
  <2>5. ~Drawing(o) /\ ~Drawing(o)'
    BY <1>1 DEF Drawing
  <2>6. NowOK(o)'
    BY <1>7, <2>1, <2>3, <2>5, NowKept
  <2>7. QED
    BY <2>4, <2>6
<1>10. PastOK(new)' /\ NowOK(new)'
  <2>1. log'[new].calls = <<>> /\ gens'[new].pos = 0 /\ gens'[new].seed = s
    BY <1>4, <1>5
  <2>2. PastOK(new)'
    BY <2>1 DEF PastOK
  <2>3. ~Drawing(new)' /\ Len(tape'[s]) \in Nat
    BY <1>1, <1>2 DEF Drawing, SourceTypeOK
  <2>4. Reached(new, Len(log[new].calls))' = 0
    BY <2>1 DEF Reached
  <2>5. NowOK(new)'
    BY <2>1, <2>3, <2>4 DEF NowOK
  <2>6. QED
    BY <2>2, <2>5
<1>11. \A o \in 1..Len(log') : PastOK(o)' /\ NowOK(o)'
  BY <1>5, <1>9, <1>10, <1>a, Zenon
<1>12. QED
  BY <1>7, <1>8, <1>11 DEF SourcesOK

(* Holding another source, or a copy of one, disturbs nothing.             *)
LEMMA HoldingKeeps ==
  ASSUME SourcesOK, call = Idle, UNCHANGED <<gens, tape, call, buf, first, log>>,
         NEW h \in Handles, NEW g \in 0..Len(gens), src' = [src EXCEPT ![h] = g],
         origin' = [origin EXCEPT ![h] = g]
  PROVE  SourcesOK'
<1>1. SourceTypeOK /\ OwnGenerator
  BY DEF SourcesOK
<1>2. src' \in [Handles -> 0..Len(gens)] /\ origin' = src'
  BY <1>1 DEF SourceTypeOK, OwnGenerator
<1>3. SourceTypeOK'
  BY <1>1, <1>2 DEF SourceTypeOK, Bytes
<1>4. OwnGenerator'
  BY <1>1, <1>2 DEF OwnGenerator
<1>5. TapeKept
  BY <1>1 DEF TapeKept, SourceTypeOK
<1>6. ASSUME NEW o \in 1..Len(log) PROVE PastOK(o)' /\ NowOK(o)'
  <2>1. log'[o] = log[o] /\ gens'[o] = gens[o] /\ gens[o].pos \in Nat
    BY <1>1, SourceFacts
  <2>2. gens'[o].pos \in Nat /\ gens[o].pos <= gens'[o].pos
    BY <2>1
  <2>3. PastOK(o)'
    BY <1>5, <2>1, <2>2, PastKept
  <2>4. ~Drawing(o) /\ ~Drawing(o)'
    BY DEF Drawing
  <2>5. NowOK(o)'
    BY <1>3, <1>5, <2>1, <2>4, NowKept
  <2>6. QED
    BY <2>3, <2>5
<1>7. QED
  BY <1>3, <1>4, <1>6 DEF SourcesOK

(* A call begins with an empty buffer, where its generator stands.         *)
LEMMA CallKeeps ==
  ASSUME SourcesOK, NEW h \in Handles, NEW q \in Requests, Call(h, q)
  PROVE  SourcesOK'
<1>1. /\ call = Idle /\ call' = [h |-> h, kind |-> q.kind, size |-> q.size] /\ buf' = <<>>
      /\ first' = IF src[h] = Device THEN 0 ELSE gens[src[h]].pos
      /\ UNCHANGED <<gens, src, tape, log, origin>>
  BY DEF Call
<1>2. SourceTypeOK /\ OwnGenerator
  BY DEF SourcesOK
<1>3. q.kind \in {"fill", "bits"} /\ q.size \in Nat
  BY RandomSourceAssumption
<1>4. call' \in Calls /\ call'.h = h /\ call'.size \in Nat /\ call' # Idle
  <2>1. call' \in Calls /\ call'.h = h /\ call'.size \in Nat /\ call'.kind # "none"
    BY <1>1, <1>3 DEF Calls
  <2>2. QED
    BY <2>1 DEF Idle
<1>5. PICK room \in Nat : room = Bytes(call')
  BY <1>4, BytesNat
<1>6. /\ src[h] \in 0..Len(log)
      /\ \A o \in 1..Len(log) : gens[o].pos \in Nat
  BY <1>2, SourceFacts
<1>7. first' \in Nat
  <2>1. src[h] # Device => src[h] \in 1..Len(log)
    BY <1>2, <1>6, SourceFacts DEF Device
  <2>2. QED
    BY <1>1, <1>6, <2>1
<1>8. SourceTypeOK'
  <2>1. buf' \in Seq(Byte) /\ Len(buf') <= Bytes(call)'
    BY <1>1, <1>5
  <2>2. QED
    BY <1>1, <1>2, <1>4, <1>7, <2>1 DEF SourceTypeOK
<1>9. OwnGenerator'
  BY <1>1, <1>2 DEF OwnGenerator
<1>10. TapeKept
  BY <1>1, <1>2 DEF TapeKept, SourceTypeOK
<1>11. ASSUME NEW o \in 1..Len(log) PROVE PastOK(o)' /\ NowOK(o)'
  <2>1. log'[o] = log[o] /\ gens'[o] = gens[o] /\ gens[o].pos \in Nat
    BY <1>1, <1>6
  <2>2. gens'[o].pos \in Nat /\ gens[o].pos <= gens'[o].pos
    BY <2>1
  <2>3. PastOK(o)'
    BY <1>10, <2>1, <2>2, PastKept
  <2>4. ~Drawing(o)
    BY <1>1 DEF Drawing
  <2>5. CASE src[h] # o
    <3>1. ~Drawing(o)'
      BY <1>1, <1>4, <2>5 DEF Drawing
    <3>2. QED
      BY <1>8, <1>10, <2>1, <2>3, <2>4, <3>1, NowKept
  <2>6. CASE src[h] = o
    <3>1. gens[o].pos <= Len(tape[gens[o].seed]) /\ gens[o].pos = Reached(o, Len(log[o].calls))
      BY <2>4 DEF SourcesOK, NowOK
    <3>2. first' = gens[o].pos
      <4>1. o # Device
        BY <1>2, SourceFacts DEF Device
      <4>2. QED
        BY <1>1, <2>6, <4>1
    <3>3. first' = Reached(o, Len(log[o].calls))'
      BY <1>1, <3>1, <3>2 DEF Reached
    <3>4. gens'[o].pos - first' = 0
      BY <2>1, <3>2
    <3>5. WordBytes \in Nat \ {0} /\ WordBytes * 0 = 0
      BY LimbFacts
    <3>6. WordBytes * (gens'[o].pos - first') = 0
      BY <3>4, <3>5, Zenon
    <3>7. Len(buf') = 0 /\ buf' = Stretch(gens[o].seed, first, 0)'
      BY <1>1 DEF Stretch
    <3>8. Len(buf') = Shorter(Bytes(call'), 0) /\ 0 < Bytes(call') + WordBytes
      BY <1>5, <3>5, <3>7 DEF Shorter
    <3>9. BufferOK(o)'
      BY <3>6, <3>7, <3>8 DEF BufferOK
    <3>10. Drawing(o)'
      BY <1>1, <1>4, <2>6 DEF Drawing
    <3>11. gens'[o].pos <= Len(tape'[gens'[o].seed]) /\ first' <= gens'[o].pos
      BY <1>1, <2>1, <3>1, <3>2
    <3>12. NowOK(o)'
      BY <3>3, <3>9, <3>10, <3>11 DEF NowOK
    <3>13. QED
      BY <2>3, <3>12
  <2>7. QED
    BY <2>5, <2>6
<1>12. QED
  BY <1>1, <1>8, <1>9, <1>11 DEF SourcesOK

(* What one word puts into the buffer.                                     *)
LEMMA SpreadFacts ==
  ASSUME NEW w \in Nat, NEW size \in Nat \ {0}, NEW room \in Nat \ {0}
  PROVE  /\ Spread(w, size, room) \in Seq(Byte)
         /\ Len(Spread(w, size, room)) = Shorter(size, room)
         /\ Shorter(size, room) \in 1..room
         /\ \A k \in 1..Shorter(size, room) : Spread(w, size, room)[k] = ByteOf(w, k-1)
<1>1. \A k \in Nat : ByteOf(w, k) \in Byte
  <2>1. DigitsOf(w, ByteBits) \in DigitArrays(ByteBits)
    BY LimbFacts, DigitsJoined
  <2>2. \A k \in Nat : DigitsOf(w, ByteBits)[k] = ByteOf(w, k)
    BY DEF DigitsOf, ByteOf
  <2>3. QED
    BY <2>1, <2>2 DEF DigitArrays, Byte
<1>2. PICK len \in 1..room : len = Shorter(size, room)
  BY DEF Shorter
<1>3. \A k \in 1..len : ByteOf(w, k-1) \in Byte
  <2>1. \A k \in 1..len : k - 1 \in Nat
    OBVIOUS
  <2>2. QED
    BY <1>1, <2>1, Zenon
<1> DEFINE out == [k \in 1..len |-> ByteOf(w, k-1)]
<1>4. Spread(w, size, room) = out
  BY <1>2 DEF Spread
<1>5. out \in Seq(Byte) /\ Len(out) = len
  <2>1. len \in Nat
    OBVIOUS
  <2>2. out \in [1..len -> Byte]
    BY <1>3
  <2> HIDE DEF out
  <2>3. QED
    BY <2>1, <2>2
<1>6. \A k \in 1..len : out[k] = ByteOf(w, k-1)
  OBVIOUS
<1> HIDE DEF out
<1>7. QED
  BY <1>2, <1>4, <1>5, <1>6, Zenon

LEMMA Joining ==
  ASSUME NEW Q, NEW s \in Seq(Q), NEW t \in Seq(Q)
  PROVE  /\ s \o t \in Seq(Q) /\ Len(s \o t) = Len(s) + Len(t)
         /\ \A k \in 1..Len(s) : (s \o t)[k] = s[k]
         /\ \A k \in 1..Len(t) : (s \o t)[Len(s) + k] = t[k]
OBVIOUS

(* A word of the device touches no generator.                              *)
LEMMA DeviceWordKeeps ==
  ASSUME SourcesOK, NEW w \in Outputs, DeviceWord(w)
  PROVE  SourcesOK'
<1>1. /\ call # Idle /\ Room > 0 /\ src[call.h] = Device
      /\ buf' = buf \o Spread(w, LimbBytes, Room)
      /\ UNCHANGED <<gens, src, tape, call, first, log, origin>>
  BY DEF DeviceWord
<1>2. SourceTypeOK /\ OwnGenerator
  BY DEF SourcesOK
<1>3. call \in Calls /\ call.size \in Nat
  BY <1>1, <1>2 DEF SourceTypeOK, Calls
<1>4. PICK room \in Nat \ {0}, len \in Nat, all \in Nat :
        room = Room /\ len = Len(buf) /\ all = Bytes(call) /\ room = all - len
  <2>1. Bytes(call) \in Nat /\ Len(buf) \in Nat
    BY <1>2, <1>3, BytesNat, SourceFacts
  <2>2. QED
    BY <1>1, <2>1 DEF Room
<1>5. w \in Nat /\ LimbBytes \in Nat \ {0}
  BY RandomSourceAssumption
<1>6. PICK more : more = Spread(w, LimbBytes, room) /\ more \in Seq(Byte) /\ Len(more) \in 1..room
  <2>1. /\ Spread(w, LimbBytes, room) \in Seq(Byte)
        /\ Len(Spread(w, LimbBytes, room)) \in 1..room
    BY <1>5, SpreadFacts
  <2>2. QED
    BY <2>1, Zenon
<1>7. buf' \in Seq(Byte) /\ Len(buf') = len + Len(more)
  <2>1. buf \in Seq(Byte)
    BY <1>2 DEF SourceTypeOK
  <2>2. buf \o more \in Seq(Byte) /\ Len(buf \o more) = Len(buf) + Len(more)
    BY <1>6, <2>1, Joining
  <2>3. QED
    BY <1>1, <1>4, <1>6, <2>2, Zenon
<1>8. SourceTypeOK'
  <2>1. Len(buf') <= all
    BY <1>4, <1>6, <1>7
  <2>2. Bytes(call)' = all
    BY <1>1, <1>4 DEF Bytes
  <2>3. QED
    BY <1>1, <1>2, <1>7, <2>1, <2>2 DEF SourceTypeOK
<1>9. OwnGenerator'
  BY <1>1, <1>2 DEF OwnGenerator
<1>10. TapeKept
  BY <1>1, <1>2 DEF TapeKept, SourceTypeOK
<1>11. ASSUME NEW o \in 1..Len(log) PROVE PastOK(o)' /\ NowOK(o)'
  <2>1. log'[o] = log[o] /\ gens'[o] = gens[o] /\ gens[o].pos \in Nat /\ o # Device
    BY <1>1, <1>2, SourceFacts DEF Device
  <2>2. gens'[o].pos \in Nat /\ gens[o].pos <= gens'[o].pos
    BY <2>1
  <2>3. PastOK(o)'
    BY <1>10, <2>1, <2>2, PastKept
  <2>4. ~Drawing(o) /\ ~Drawing(o)'
    BY <1>1, <2>1 DEF Drawing
  <2>5. NowOK(o)'
    BY <1>8, <1>10, <2>1, <2>4, NowKept
  <2>6. QED
    BY <2>3, <2>5
<1>12. QED
  BY <1>1, <1>8, <1>9, <1>11 DEF SourcesOK

(* Bytes that end within the last of k words take k words.                 *)
LEMMA WordsForIs ==
  ASSUME NEW size \in Nat, NEW k \in Nat, size <= WordBytes * k, WordBytes * k < size + WordBytes
  PROVE  WordsFor(size) = k
<1>1. PICK b \in Nat \ {0} : b = WordBytes
  BY LimbFacts
<1>2. PICK t \in Nat : t = b * k /\ size <= t /\ t < size + b
  BY <1>1
<1>3. PICK rest \in 0..(b-1) : rest = size + b - 1 - t
  BY <1>2
<1>4. PICK z \in Nat : z = size + b - 1
  OBVIOUS
<1>5. z = b * k + rest
  BY <1>2, <1>3, <1>4
<1>6. z \div b = k
  BY <1>5
<1>7. QED
  BY <1>1, <1>4, <1>6, Zenon DEF WordsFor

LEMMA AsFunction ==
  ASSUME NEW Q, NEW s \in Seq(Q)
  PROVE  s = [k \in 1..Len(s) |-> s[k]]
OBVIOUS

(* A buffer of whole words goes on with the next one.                      *)
LEMMA NextWord ==
  ASSUME NEW k \in Nat, NEW t \in Nat \ {0}, t <= WordBytes
  PROVE  (WordBytes * k + t - 1) \div WordBytes = k /\ (WordBytes * k + t - 1) % WordBytes = t - 1
<1>1. PICK b \in Nat \ {0} : b = WordBytes
  BY LimbFacts
<1>2. PICK rest \in 0..(b-1) : rest = t - 1
  BY <1>1
<1>3. PICK z \in Nat : z = b * k + rest
  OBVIOUS
<1>4. z \div b = k /\ z % b = rest
  BY <1>3
<1>5. WordBytes * k + t - 1 = z
  <2>1. PICK y \in Nat : y = b * k
    OBVIOUS
  <2>2. y + t - 1 = y + rest
    BY <1>2
  <2>3. QED
    BY <1>1, <1>3, <2>1, <2>2, Zenon
<1>6. QED
  BY <1>1, <1>2, <1>4, <1>5, Zenon

(* The next word is taken from the tape, or put on it.                     *)
LEMMA TapeStep ==
  ASSUME SourcesOK, NEW o \in 1..Len(log), NEW w \in Outputs, NEW s, s = gens[o].seed,
         IF gens[o].pos < Len(tape[s])
           THEN w = tape[s][gens[o].pos + 1] /\ UNCHANGED tape
           ELSE tape' = [tape EXCEPT ![s] = Append(@, w)]
  PROVE  /\ tape' \in [Seeds -> Seq(Outputs)] /\ TapeKept
         /\ gens[o].pos + 1 <= Len(tape'[s]) /\ tape'[s][gens[o].pos + 1] = w
<1>1. tape \in [Seeds -> Seq(Outputs)]
  BY DEF SourcesOK, SourceTypeOK
<1>2. PICK pos \in Nat : pos = gens[o].pos /\ s \in Seeds
  BY SourceFacts, Zenon DEF SourcesOK
<1>3. tape[s] \in Seq(Outputs) /\ Len(tape[s]) \in Nat /\ pos <= Len(tape[s])
  BY <1>1, <1>2 DEF SourcesOK, NowOK
<1>4. CASE pos < Len(tape[s])
  <2>1. w = tape[s][pos + 1] /\ tape' = tape
    BY <1>2, <1>4
  <2>2. TapeKept
    BY <1>1, <2>1 DEF TapeKept
  <2>3. pos + 1 <= Len(tape[s])
    BY <1>3, <1>4
  <2>4. QED
    BY <1>1, <1>2, <2>1, <2>2, <2>3
<1>5. CASE ~(pos < Len(tape[s]))
  <2>1. tape' = [tape EXCEPT ![s] = Append(tape[s], w)]
    BY <1>2, <1>5
  <2>2. tape' \in [Seeds -> Seq(Outputs)] /\ tape'[s] = Append(tape[s], w)
        /\ \A z \in Seeds : z # s => tape'[z] = tape[z]
    BY <1>1, <1>2, <1>3, <2>1
  <2>3. /\ Len(tape'[s]) = Len(tape[s]) + 1 /\ tape'[s][Len(tape[s]) + 1] = w
        /\ \A i \in 1..Len(tape[s]) : tape'[s][i] = tape[s][i]
    BY <1>3, <2>2
  <2>4. TapeKept
    <3> SUFFICES ASSUME NEW z \in Seeds
                 PROVE  /\ Len(tape[z]) <= Len(tape'[z])
                        /\ \A i \in 1..Len(tape[z]) : tape'[z][i] = tape[z][i]
      BY DEF TapeKept
    <3>1. CASE z = s
      BY <1>3, <2>3, <3>1
    <3>2. CASE z # s
      <4>1. tape'[z] = tape[z] /\ Len(tape[z]) \in Nat
        BY <1>1, <2>2, <3>2
      <4>2. QED
        BY <4>1
    <3>3. QED
      BY <3>1, <3>2
  <2>5. pos = Len(tape[s])
    BY <1>3, <1>5
  <2>6. QED
    BY <1>2, <1>3, <2>2, <2>3, <2>4, <2>5
<1>6. QED
  BY <1>4, <1>5

LEMMA NextPlace ==
  ASSUME NEW Q, NEW g \in [seed : Q, pos : Nat]
  PROVE  /\ [g EXCEPT !.pos = g.pos + 1] \in [seed : Q, pos : Nat]
         /\ [g EXCEPT !.pos = g.pos + 1].seed = g.seed
         /\ [g EXCEPT !.pos = g.pos + 1].pos = g.pos + 1
OBVIOUS

(* One more word of the generator: its place, the tape and the buffer move *)
(* on together.                                                            *)
LEMMA GeneratorWordKeeps ==
  ASSUME SourcesOK, NEW w \in Outputs, GeneratorWord(w)
  PROVE  SourcesOK'
<1>1. /\ call # Idle /\ Room > 0 /\ src[call.h] # Device
      /\ gens' = [gens EXCEPT ![src[call.h]].pos = @ + 1]
      /\ buf' = buf \o Spread(w, WordBytes, Room)
      /\ UNCHANGED <<src, call, first, log, origin>>
  BY DEF GeneratorWord
<1>2. SourceTypeOK /\ OwnGenerator
  BY DEF SourcesOK
<1>3. call \in Calls /\ call.size \in Nat /\ call.h \in Handles
  BY <1>1, <1>2 DEF SourceTypeOK, Calls
<1>4. PICK o \in 1..Len(log) : o = src[call.h]
  <2>1. src[call.h] \in 0..Len(log) /\ src[call.h] # 0
    BY <1>1, <1>2, <1>3, SourceFacts DEF Device
  <2>2. src[call.h] \in 1..Len(log)
    BY <2>1
  <2>3. QED
    BY <2>2, Zenon
<1>5. PICK s \in Seeds, pos \in Nat : s = gens[o].seed /\ pos = gens[o].pos
  BY <1>2, SourceFacts, Zenon
<1>6. /\ tape' \in [Seeds -> Seq(Outputs)] /\ TapeKept
      /\ pos + 1 <= Len(tape'[s]) /\ tape'[s][pos + 1] = w
  <2>1. IF gens[o].pos < Len(tape[s])
           THEN w = tape[s][gens[o].pos + 1] /\ UNCHANGED tape
           ELSE tape' = [tape EXCEPT ![s] = Append(@, w)]
    BY <1>4, <1>5 DEF GeneratorWord
  <2>2. /\ tape' \in [Seeds -> Seq(Outputs)] /\ TapeKept
        /\ gens[o].pos + 1 <= Len(tape'[s]) /\ tape'[s][gens[o].pos + 1] = w
    BY <1>5, <2>1, TapeStep
  <2>3. QED
    BY <1>5, <2>2
<1>7. /\ gens' \in Seq([seed : Seeds, pos : Nat]) /\ Len(gens') = Len(gens)
      /\ gens'[o].seed = s /\ gens'[o].pos = pos + 1
      /\ \A p \in 1..Len(log) : p # o => gens'[p] = gens[p]
  <2>1. /\ gens \in Seq([seed : Seeds, pos : Nat]) /\ Len(gens) = Len(log)
        /\ gens[o] \in [seed : Seeds, pos : Nat]
    <3>1. gens \in Seq([seed : Seeds, pos : Nat]) /\ Len(gens) = Len(log)
      BY <1>2 DEF SourceTypeOK, OwnGenerator
    <3>2. o \in 1..Len(gens)
      BY <3>1, Zenon
    <3>3. gens[o] \in [seed : Seeds, pos : Nat]
      BY <3>1, <3>2, ElementIn, Zenon
    <3>4. QED
      BY <3>1, <3>3
  <2>2. PICK g \in [seed : Seeds, pos : Nat] : g = [gens[o] EXCEPT !.pos = gens[o].pos + 1]
                                             /\ g.seed = s /\ g.pos = pos + 1
    <3>1. /\ [gens[o] EXCEPT !.pos = gens[o].pos + 1] \in [seed : Seeds, pos : Nat]
          /\ [gens[o] EXCEPT !.pos = gens[o].pos + 1].seed = gens[o].seed
          /\ [gens[o] EXCEPT !.pos = gens[o].pos + 1].pos = gens[o].pos + 1
      BY <2>1, NextPlace
    <3>2. QED
      BY <1>5, <3>1, Zenon
  <2>3. gens' = [gens EXCEPT ![o] = g]
    BY <1>1, <1>4, <1>5, <2>2
  <2>4. QED
    BY <2>1, <2>2, <2>3
<1>8. PICK room \in Nat \ {0}, len \in Nat, all \in Nat :
        room = Room /\ len = Len(buf) /\ all = Bytes(call) /\ room = all - len
  <2>1. Bytes(call) \in Nat /\ Len(buf) \in Nat
    BY <1>2, <1>3, BytesNat, SourceFacts
  <2>2. Room > 0
    BY <1>1
  <2>3. QED
    BY <2>1, <2>2 DEF Room
<1>9. w \in Nat /\ WordBytes \in Nat \ {0}
  BY RandomSourceAssumption
<1>10. PICK size \in Nat \ {0} : size = WordBytes
  BY <1>9
<1>11. PICK more \in Seq(Byte), t \in 1..room :
         /\ more = Spread(w, WordBytes, room) /\ Len(more) = t
         /\ t = Shorter(size, room) /\ \A k \in 1..t : more[k] = ByteOf(w, k-1)
  <2>1. /\ Spread(w, size, room) \in Seq(Byte)
        /\ Len(Spread(w, size, room)) = Shorter(size, room)
        /\ Shorter(size, room) \in 1..room
        /\ \A k \in 1..Shorter(size, room) : Spread(w, size, room)[k] = ByteOf(w, k-1)
    BY <1>9, SpreadFacts
  <2>2. QED
    BY <1>10, <2>1, Zenon
<1>12. /\ buf' \in Seq(Byte) /\ Len(buf') = len + t
       /\ \A k \in 1..len : buf'[k] = buf[k]
       /\ \A k \in 1..t : buf'[len + k] = more[k]
  <2>1. buf \in Seq(Byte)
    BY <1>2 DEF SourceTypeOK
  <2>2. /\ buf \o more \in Seq(Byte) /\ Len(buf \o more) = Len(buf) + Len(more)
        /\ \A k \in 1..Len(buf) : (buf \o more)[k] = buf[k]
        /\ \A k \in 1..Len(more) : (buf \o more)[Len(buf) + k] = more[k]
    BY <1>11, <2>1, Joining
  <2>3. buf' = buf \o more
    BY <1>1, <1>8, <1>11, Zenon
  <2>4. QED
    BY <1>8, <1>11, <2>2, <2>3, Zenon
<1>13. SourceTypeOK'
  <2>1. Len(buf') <= all
    BY <1>8, <1>11, <1>12
  <2>2. Bytes(call)' = all
    BY <1>1, <1>8 DEF Bytes
  <2>3. QED
    BY <1>1, <1>2, <1>6, <1>7, <1>12, <2>1, <2>2 DEF SourceTypeOK
<1>14. OwnGenerator'
  <2>1. \A p \in 1..Len(log) : gens[p].seed = log[p].seed /\ DOMAIN log = 1..Len(log)
    BY <1>2, SourceFacts
  <2>2. \A p \in 1..Len(log) : gens'[p].seed = log'[p].seed
    BY <1>1, <1>5, <1>7, <2>1
  <2>3. QED
    BY <1>1, <1>2, <1>7, <2>1, <2>2 DEF OwnGenerator
<1>15. ASSUME NEW p \in 1..Len(log) PROVE PastOK(p)'
  <2>1. log'[p] = log[p] /\ gens[p].pos \in Nat
    BY <1>1, <1>2, SourceFacts
  <2>2. gens'[p].pos \in Nat /\ gens[p].pos <= gens'[p].pos
    <3>1. CASE p = o
      BY <1>5, <1>7, <3>1
    <3>2. CASE p # o
      <4>1. gens'[p] = gens[p]
        BY <1>7, <3>2
      <4>2. QED
        BY <2>1, <4>1
    <3>3. QED
      BY <3>1, <3>2
  <2>3. QED
    BY <1>6, <2>1, <2>2, PastKept
<1>16. ASSUME NEW p \in 1..Len(log), p # o PROVE NowOK(p)'
  <2>1. log'[p] = log[p] /\ gens'[p] = gens[p]
    BY <1>1, <1>7, <1>16
  <2>2. ~Drawing(p) /\ ~Drawing(p)'
    BY <1>1, <1>4, <1>16 DEF Drawing
  <2>3. QED
    BY <1>6, <1>13, <2>1, <2>2, NowKept
<1>17. NowOK(o)'
  <2>1. Drawing(o) /\ Drawing(o)'
    BY <1>1, <1>4 DEF Drawing
  <2>2. /\ pos <= Len(tape[s]) /\ first = Reached(o, Len(log[o].calls)) /\ first <= pos
        /\ BufferOK(o)
    BY <1>5, <2>1 DEF SourcesOK, NowOK
  <2>3. PICK place \in Nat, k \in Nat, done \in Nat :
          place = first /\ k = pos - first /\ pos = place + k /\ done = size * k
    <3>1. first \in Nat
      BY <1>2, SourceFacts
    <3>2. pos - first \in Nat /\ pos = first + (pos - first)
      BY <2>2, <3>1
    <3>3. size * (pos - first) \in Nat
      BY <3>2
    <3>4. QED
      BY <3>1, <3>2, <3>3, Zenon
  <2>4. /\ len = Shorter(all, done) /\ done < all + size
        /\ buf = Stretch(s, place, len)
    BY <1>5, <1>8, <1>10, <2>2, <2>3, Zenon DEF BufferOK
  <2>5. len = done
    BY <1>8, <2>4 DEF Shorter
  <2>6. /\ gens'[o].pos - first' = k + 1 /\ size * (k + 1) = done + size
    <3>1. size * (k + 1) = size * k + size
      OBVIOUS
    <3>2. gens'[o].pos = place + k + 1 /\ first' = place
      BY <1>1, <1>7, <2>3
    <3>3. QED
      BY <2>3, <3>1, <3>2
  <2>7. Len(buf') = Shorter(all, done + size) /\ done + size < all + size
    <3>1. t = IF size < room THEN size ELSE room
      BY <1>11 DEF Shorter
    <3>2. Len(buf') = len + t
      BY <1>12
    <3>3. done \in Nat /\ len = done /\ room = all - len
      BY <1>8, <2>5
    <3>4. Len(buf') = IF all < done + size THEN all ELSE done + size
      BY <1>8, <3>1, <3>2, <3>3
    <3>5. done + size < all + size
      BY <1>8, <3>3
    <3>6. QED
      BY <3>4, <3>5 DEF Shorter
  <2>8. buf' = Stretch(s, place, len + t)'
    <3>1. \A i \in 1..(len + t) : (i \in 1..len) \/ (\E u \in 1..t : i = len + u)
      <4> SUFFICES ASSUME NEW i \in 1..(len + t), i \notin 1..len
                   PROVE  \E u \in 1..t : i = len + u
        OBVIOUS
      <4>1. i - len \in 1..t /\ i = len + (i - len)
        OBVIOUS
      <4>2. QED
        BY <4>1, Zenon
    <3> DEFINE NewByte(i) == ByteOf(tape'[s][place + 1 + ((i-1) \div WordBytes)], (i-1) % WordBytes)
    <3>2. ASSUME NEW i \in 1..len PROVE buf'[i] = NewByte(i)
      <4>1. place + WordsFor(len) <= Len(tape[s])
        <5>1. len <= WordBytes * k /\ WordBytes * k < len + WordBytes
          BY <1>10, <2>3, <2>5
        <5>2. WordsFor(len) = k
          BY <5>1, WordsForIs
        <5>3. QED
          BY <2>2, <2>3, <5>2
      <4>2. Stretch(s, place, len)' = Stretch(s, place, len)
        BY <1>2, <1>6, <4>1, StretchKept
      <4>3. Stretch(s, place, len)' = [j2 \in 1..len |-> NewByte(j2)]
        BY DEF Stretch
      <4>4. buf[i] = [j2 \in 1..len |-> NewByte(j2)][i]
        BY <2>4, <4>2, <4>3, Zenon
      <4>5. [j2 \in 1..len |-> NewByte(j2)][i] = NewByte(i)
        OBVIOUS
      <4>6. buf'[i] = buf[i]
        BY <1>12
      <4>7. QED
        BY <4>4, <4>5, <4>6, Zenon
    <3>3. ASSUME NEW u \in 1..t PROVE buf'[len + u] = NewByte(len + u)
      <4>1. u \in Nat \ {0} /\ u <= WordBytes
        BY <1>8, <1>10, <1>11 DEF Shorter
      <4>2. /\ (WordBytes * k + u - 1) \div WordBytes = k
            /\ (WordBytes * k + u - 1) % WordBytes = u - 1
        BY <4>1, NextWord
      <4>3. len = WordBytes * k
        BY <1>10, <2>3, <2>5
      <4>4. place + 1 + k = pos + 1
        BY <2>3
      <4>5. buf'[len + u] = ByteOf(w, u - 1)
        BY <1>11, <1>12, Zenon
      <4>6. NewByte(len + u) = ByteOf(tape'[s][place + 1 + k], u - 1)
        BY <4>2, <4>3
      <4>7. tape'[s][place + 1 + k] = w
        BY <1>6, <4>4, Zenon
      <4>8. QED
        BY <4>5, <4>6, <4>7, Zenon
    <3>4. \A i \in 1..(len + t) : buf'[i] = NewByte(i)
      BY <3>1, <3>2, <3>3, Zenon
    <3>5. buf' = [i \in 1..(len + t) |-> buf'[i]]
      BY <1>12, AsFunction
    <3>6. [i \in 1..(len + t) |-> buf'[i]] = [i \in 1..(len + t) |-> NewByte(i)]
      BY <3>4, Zenon
    <3>7. Stretch(s, place, len + t)' = [i \in 1..(len + t) |-> NewByte(i)]
      BY DEF Stretch
    <3>8. QED
      BY <3>5, <3>6, <3>7, Zenon
  <2>9. BufferOK(o)'
    <3>1. Bytes(call)' = all
      BY <1>1, <1>8 DEF Bytes
    <3>2. buf' = Stretch(gens[o].seed, first, Len(buf))'
      <4>1. gens'[o].seed = s /\ first' = place /\ Len(buf') = len + t
        BY <1>1, <1>7, <1>12, <2>3, Zenon
      <4>2. buf' = [i \in 1..(len + t) |->
              ByteOf(tape'[s][place + 1 + ((i-1) \div WordBytes)], (i-1) % WordBytes)]
        BY <2>8, Zenon DEF Stretch
      <4>3. buf' = [i \in 1..Len(buf') |->
              ByteOf(tape'[gens'[o].seed][first' + 1 + ((i-1) \div WordBytes)], (i-1) % WordBytes)]
        BY <4>1, <4>2, Zenon
      <4>4. QED
        BY <4>3, Zenon DEF Stretch
    <3>3. WordBytes * (gens'[o].pos - first') = done + size
      BY <1>10, <2>6, Zenon
    <3>4. Len(buf') = Shorter(Bytes(call'), WordBytes * (gens'[o].pos - first'))
      BY <2>7, <3>1, <3>3, Zenon
    <3>5. WordBytes * (gens'[o].pos - first') < Bytes(call') + WordBytes
      BY <1>10, <2>7, <3>1, <3>3, Zenon
    <3>6. QED
      BY <3>2, <3>4, <3>5, Zenon DEF BufferOK
  <2>10. first' = Reached(o, Len(log[o].calls))'
    BY <1>1, <2>2 DEF Reached
  <2>11. first' <= gens'[o].pos /\ gens'[o].pos <= Len(tape'[gens'[o].seed])
    <3>1. first' = place /\ gens'[o].pos = pos + 1 /\ gens'[o].seed = s
      BY <1>1, <1>7, <2>3, Zenon
    <3>2. place <= pos + 1
      BY <2>3
    <3>3. pos + 1 <= Len(tape'[s])
      BY <1>6
    <3>4. QED
      BY <3>1, <3>2, <3>3, Zenon
  <2>12. QED
    BY <2>1, <2>9, <2>10, <2>11 DEF NowOK
<1>18. \A p \in 1..Len(log) : PastOK(p)' /\ NowOK(p)'
  BY <1>15, <1>16, <1>17, Zenon
<1>19. QED
  BY <1>1, <1>13, <1>14, <1>18 DEF SourcesOK

LEMMA SameResult ==
  ASSUME NEW bytes, NEW c, NEW e, c.kind = e.kind, c.size = e.size
  PROVE  Result(bytes, c) = Result(bytes, e) /\ Bytes(c) = Bytes(e)
BY DEF Result, Bytes

LEMMA ResultType ==
  ASSUME NEW bytes \in Seq(Byte), NEW c \in Calls
  PROVE  Result(bytes, c) \in Seq(Nat)
<1>1. c.kind \in {"fill", "bits"} /\ c.size \in Nat
  BY DEF Calls
<1>2. CASE c.kind = "fill"
  <2>1. Result(bytes, c) = bytes
    BY <1>2 DEF Result
  <2>2. PICK p \in Nat : p = Pow2[ByteBits]
    BY LimbFacts, Pow2Def
  <2>3. Byte \subseteq Nat
    BY <2>2 DEF Byte
  <2>4. \A k \in 1..Len(bytes) : bytes[k] \in Nat
    BY <2>3, ElementIn
  <2>5. bytes \in Seq(Nat)
    BY <2>4
  <2>6. QED
    BY <2>1, <2>5
<1>3. CASE c.kind = "bits" /\ c.size = 0
  <2>1. Result(bytes, c) = <<0>>
    BY <1>3 DEF Result
  <2>2. QED
    BY <2>1
<1>4. CASE c.kind = "bits" /\ c.size # 0
  <2>1. Result(bytes, c) = <<BitsFrom(bytes, c.size)>>
    BY <1>4 DEF Result
  <2>2. PICK size \in Nat \ {0} : size = c.size
    BY <1>1, <1>4
  <2>3. Bytewise(bytes)
    BY ElementIn DEF Bytewise
  <2>4. BitsFrom(bytes, size) \in Pow2[size - 1]..(Pow2[size] - 1)
    BY <2>3, DrawnWidth
  <2>5. PICK v \in Nat : v = BitsFrom(bytes, size)
    <3>1. size - 1 \in Nat
      OBVIOUS
    <3>2. PICK p \in Nat, q \in Nat : p = Pow2[size - 1] /\ q = Pow2[size]
      BY <3>1, Pow2Def
    <3>3. QED
      BY <2>4, <3>2
  <2>6. <<v>> \in Seq(Nat)
    OBVIOUS
  <2>7. QED
    BY <2>1, <2>2, <2>5, <2>6, Zenon
<1>5. QED
  BY <1>1, <1>2, <1>3, <1>4

(* A call that has all its bytes has used just the words they take.        *)
LEMMA WholeBuffer ==
  ASSUME SourcesOK, call # Idle, Room = 0, NEW o \in 1..Len(log), src[call.h] = o
  PROVE  /\ first = Reached(o, Len(log[o].calls))
         /\ gens[o].pos = first + WordsFor(Bytes(call))
         /\ buf = Stretch(log[o].seed, first, Bytes(call))
<1>1. SourceTypeOK /\ OwnGenerator /\ Drawing(o) /\ NowOK(o)
  BY DEF SourcesOK, Drawing
<1>2. first = Reached(o, Len(log[o].calls)) /\ first <= gens[o].pos /\ BufferOK(o)
  BY <1>1 DEF NowOK
<1>3. gens[o].seed = log[o].seed /\ gens[o].pos \in Nat /\ first \in Nat /\ Len(buf) \in Nat
  BY <1>1, SourceFacts
<1>4. PICK size \in Nat : size = Bytes(call)
  BY <1>1, BytesNat DEF SourceTypeOK, Calls
<1>5. PICK k \in Nat : k = gens[o].pos - first /\ gens[o].pos = first + k
  BY <1>2, <1>3
<1>6. Len(buf) = size
  BY <1>3, <1>4 DEF Room
<1>7. PICK b \in Nat \ {0}, done \in Nat : b = WordBytes /\ done = b * k
  BY LimbFacts
<1>8. size = Shorter(size, done) /\ done < size + b
  BY <1>2, <1>4, <1>5, <1>6, <1>7, Zenon DEF BufferOK
<1>9. size <= done
  BY <1>8 DEF Shorter
<1>10. WordsFor(size) = k
  BY <1>7, <1>8, <1>9, WordsForIs
<1>11. buf = Stretch(log[o].seed, first, size)
  BY <1>2, <1>3, <1>6, Zenon DEF BufferOK
<1>12. QED
  BY <1>2, <1>4, <1>5, <1>10, <1>11, Zenon

LEMMA Replaced ==
  ASSUME NEW Q, NEW l \in Seq(Q), NEW o \in 1..Len(l), NEW m \in Q
  PROVE  /\ [l EXCEPT ![o] = m] \in Seq(Q) /\ Len([l EXCEPT ![o] = m]) = Len(l)
         /\ [l EXCEPT ![o] = m][o] = m
         /\ \A q \in 1..Len(l) : q # o => [l EXCEPT ![o] = m][q] = l[q]
OBVIOUS

LEMMA WithCalls ==
  ASSUME NEW Q, NEW C, NEW m \in [seed : Q, calls : C], NEW cs \in C
  PROVE  /\ [m EXCEPT !.calls = cs] \in [seed : Q, calls : C]
         /\ [m EXCEPT !.calls = cs].seed = m.seed
         /\ [m EXCEPT !.calls = cs].calls = cs
OBVIOUS

(* One more record at the end of a source's.                               *)
WithRecord(l, o, e) == [l EXCEPT ![o].calls = Append(@, e)]

LEMMA Recorded ==
  ASSUME NEW l \in Seq([seed : Seeds, calls : Seq(Entries)]), NEW o \in 1..Len(l), NEW e \in Entries
  PROVE  /\ WithRecord(l, o, e) \in Seq([seed : Seeds, calls : Seq(Entries)])
         /\ Len(WithRecord(l, o, e)) = Len(l)
         /\ WithRecord(l, o, e)[o].seed = l[o].seed
         /\ WithRecord(l, o, e)[o].calls = Append(l[o].calls, e)
         /\ \A q \in 1..Len(l) : q # o => WithRecord(l, o, e)[q] = l[q]
<1>0. PICK l2 : l2 = WithRecord(l, o, e)
  OBVIOUS
<1>1. l[o] \in [seed : Seeds, calls : Seq(Entries)]
  BY ElementIn, Zenon
<1>2. PICK cs \in Seq(Entries) : cs = Append(l[o].calls, e)
  <2>1. l[o].calls \in Seq(Entries)
    BY <1>1
  <2>2. Append(l[o].calls, e) \in Seq(Entries)
    BY <2>1
  <2>3. QED
    BY <2>2, Zenon
<1>3. PICK m \in [seed : Seeds, calls : Seq(Entries)] :
        m = [l[o] EXCEPT !.calls = cs] /\ m.seed = l[o].seed /\ m.calls = cs
  <2>1. /\ [l[o] EXCEPT !.calls = cs] \in [seed : Seeds, calls : Seq(Entries)]
        /\ [l[o] EXCEPT !.calls = cs].seed = l[o].seed
        /\ [l[o] EXCEPT !.calls = cs].calls = cs
    BY <1>1, WithCalls
  <2>2. QED
    BY <2>1, Zenon
<1>4. l2 = [l EXCEPT ![o] = m]
  BY <1>0, <1>2, <1>3 DEF WithRecord
<1>5. /\ l2 \in Seq([seed : Seeds, calls : Seq(Entries)]) /\ Len(l2) = Len(l) /\ l2[o] = m
      /\ \A q \in 1..Len(l) : q # o => l2[q] = l[q]
  <2>1. /\ [l EXCEPT ![o] = m] \in Seq([seed : Seeds, calls : Seq(Entries)])
        /\ Len([l EXCEPT ![o] = m]) = Len(l) /\ [l EXCEPT ![o] = m][o] = m
        /\ \A q \in 1..Len(l) : q # o => [l EXCEPT ![o] = m][q] = l[q]
    <3>1. m \in [seed : Seeds, calls : Seq(Entries)]
      OBVIOUS
    <3>2. QED
      BY <3>1, Replaced
  <2>2. QED
    BY <1>4, <2>1, Zenon
<1>6. QED
  BY <1>0, <1>2, <1>3, <1>5, Zenon

(* What a call was given goes on record, and its generator stays put.      *)
LEMMA ReturnKeeps ==
  ASSUME SourcesOK, Return
  PROVE  SourcesOK'
<1>1. /\ call # Idle /\ Room = 0 /\ call' = Idle /\ buf' = <<>> /\ first' = 0
      /\ UNCHANGED <<gens, src, tape, origin>>
  BY DEF Return
<1>2. SourceTypeOK /\ OwnGenerator
  BY DEF SourcesOK
<1>3. call \in Calls /\ call.size \in Nat /\ call.h \in Handles
  BY <1>1, <1>2 DEF SourceTypeOK, Calls
<1>4. TapeKept
  BY <1>1, <1>2 DEF TapeKept, SourceTypeOK
<1>5. \A p : ~Drawing(p)'
  BY <1>1 DEF Drawing
<1>6. ASSUME log' \in Seq([seed : Seeds, calls : Seq(Entries)]) PROVE SourceTypeOK'
  BY <1>1, <1>2, <1>6 DEF SourceTypeOK
<1>7. ASSUME SourceTypeOK', NEW p \in 1..Len(log), log'[p] = log[p], src[call.h] # p
      PROVE  PastOK(p)' /\ NowOK(p)'
  <2>1. gens'[p] = gens[p] /\ gens[p].pos \in Nat
    BY <1>1, <1>2, SourceFacts
  <2>2. gens'[p].pos \in Nat /\ gens[p].pos <= gens'[p].pos
    BY <2>1
  <2>3. PastOK(p)'
    BY <1>4, <1>7, <2>2, PastKept
  <2>4. ~Drawing(p) /\ ~Drawing(p)'
    BY <1>5, <1>7 DEF Drawing
  <2>5. NowOK(p)'
    BY <1>4, <1>7, <2>1, <2>4, NowKept
  <2>6. QED
    BY <2>3, <2>5
<1>8. CASE src[call.h] = Device
  <2>1. log' = log
    BY <1>8 DEF Return
  <2>2. SourceTypeOK'
    BY <1>2, <1>6, <2>1 DEF SourceTypeOK
  <2>3. OwnGenerator'
    BY <1>1, <1>2, <2>1 DEF OwnGenerator
  <2>4. ASSUME NEW p \in 1..Len(log) PROVE PastOK(p)' /\ NowOK(p)'
    <3>1. src[call.h] # p
      BY <1>8 DEF Device
    <3>2. QED
      BY <1>7, <2>1, <2>2, <3>1
  <2>5. QED
    BY <2>1, <2>2, <2>3, <2>4 DEF SourcesOK
<1>9. CASE src[call.h] # Device
  <2>1. PICK o \in 1..Len(log) : o = src[call.h]
    <3>1. src[call.h] \in 0..Len(log) /\ src[call.h] # 0
      BY <1>2, <1>3, <1>9, SourceFacts DEF Device
    <3>2. src[call.h] \in 1..Len(log)
      BY <3>1
    <3>3. QED
      BY <3>2, Zenon
  <2>2. PICK e : e = [first |-> first, last |-> gens[o].pos, kind |-> call.kind, size |-> call.size,
                      given |-> Result(buf, call)]
    OBVIOUS
  <2>3. e \in Entries /\ e.first = first /\ e.last = gens[o].pos /\ e.given = Result(buf, call)
        /\ e.kind = call.kind /\ e.size = call.size
    <3>1. first \in Nat /\ gens[o].pos \in Nat
      BY <1>2, SourceFacts
    <3>2. Result(buf, call) \in Seq(Nat)
      BY <1>2, <1>3, ResultType DEF SourceTypeOK
    <3>3. QED
      BY <1>3, <2>2, <3>1, <3>2 DEF Entries, Calls
  <2>4. log' = WithRecord(log, o, e)
    <3>1. origin[call.h] = o
      BY <1>2, <2>1 DEF OwnGenerator
    <3>2. QED
      BY <1>9, <2>1, <2>2, <3>1 DEF Return, WithRecord
  <2>5. /\ log' \in Seq([seed : Seeds, calls : Seq(Entries)]) /\ Len(log') = Len(log)
        /\ log'[o].seed = log[o].seed /\ log'[o].calls = Append(log[o].calls, e)
        /\ \A q \in 1..Len(log) : q # o => log'[q] = log[q]
    <3>1. log \in Seq([seed : Seeds, calls : Seq(Entries)])
      BY <1>2 DEF SourceTypeOK
    <3>2. e \in Entries
      BY <2>3
    <3>3. /\ WithRecord(log, o, e) \in Seq([seed : Seeds, calls : Seq(Entries)])
          /\ Len(WithRecord(log, o, e)) = Len(log)
          /\ WithRecord(log, o, e)[o].seed = log[o].seed
          /\ WithRecord(log, o, e)[o].calls = Append(log[o].calls, e)
          /\ \A q \in 1..Len(log) : q # o => WithRecord(log, o, e)[q] = log[q]
      BY <3>1, <3>2, Recorded
    <3>4. QED
      BY <2>4, <3>3, Zenon
  <2>6. SourceTypeOK'
    BY <1>6, <2>5
  <2>7. OwnGenerator'
    <3>1. DOMAIN log = 1..Len(log) /\ DOMAIN log' = 1..Len(log)
      BY <1>2, <2>5, SourceFacts
    <3>2. \A q \in 1..Len(log) : log'[q].seed = log[q].seed
      BY <2>5, Zenon
    <3>3. QED
      BY <1>1, <1>2, <2>5, <3>1, <3>2, Zenon DEF OwnGenerator
  <2>8. ASSUME NEW p \in 1..Len(log), p # o PROVE PastOK(p)' /\ NowOK(p)'
    BY <1>7, <2>1, <2>5, <2>6, <2>8, Zenon
  <2>9. /\ first = Reached(o, Len(log[o].calls))
        /\ gens[o].pos = first + WordsFor(Bytes(call))
        /\ buf = Stretch(log[o].seed, first, Bytes(call))
    BY <1>1, <2>1, WholeBuffer
  <2>10. PICK n2 \in Nat : n2 = Len(log[o].calls) /\ log[o].calls \in Seq(Entries)
    <3>1. log[o].calls \in Seq(Entries)
      BY <1>2, SourceFacts
    <3>2. QED
      BY <3>1
  <2>11. /\ DOMAIN log'[o].calls = 1..(n2 + 1) /\ Len(log'[o].calls) = n2 + 1
         /\ log'[o].calls[n2 + 1] = e
         /\ \A k \in 1..n2 : log'[o].calls[k] = log[o].calls[k]
    BY <2>3, <2>5, <2>10
  <2>12. ASSUME NEW k \in 1..(n2 + 1) PROVE Reached(o, k-1)' = Reached(o, k-1)
    <3>1. k - 1 = 0 \/ k - 1 \in 1..n2
      OBVIOUS
    <3>2. QED
      BY <2>11, <3>1, Zenon DEF Reached
  <2>13. ASSUME NEW k \in 1..n2 PROVE CallOK(o, k)'
    <3>1. CallOK(o, k)
      BY <2>10 DEF SourcesOK, PastOK
    <3>2. PICK c : c = log[o].calls[k] /\ c = log'[o].calls[k]
      BY <2>11, Zenon
    <3>3. /\ c.first = Reached(o, k-1) /\ c.last = c.first + WordsFor(Bytes(c))
          /\ c.last <= gens[o].pos /\ c.given = Result(Stretch(log[o].seed, c.first, Bytes(c)), c)
      BY <3>1, <3>2, Zenon DEF CallOK
    <3>4. Reached(o, k-1)' = Reached(o, k-1)
      BY <2>12
    <3>5. Stretch(log[o].seed, c.first, Bytes(c))' = Stretch(log[o].seed, c.first, Bytes(c))
      BY <1>1, <2>5, Zenon DEF Stretch
    <3>6. QED
      BY <1>1, <3>2, <3>3, <3>4, <3>5, Zenon DEF CallOK
  <2>14. CallOK(o, n2 + 1)'
    <3>1. Reached(o, (n2 + 1) - 1)' = Reached(o, n2)
      <4>1. n2 + 1 \in 1..(n2 + 1) /\ (n2 + 1) - 1 = n2
        OBVIOUS
      <4>2. QED
        BY <2>12, <4>1, Zenon
    <3>2. Bytes(e) = Bytes(call) /\ Result(buf, e) = Result(buf, call)
      BY <2>3, SameResult
    <3>3. e.first = Reached(o, (n2 + 1) - 1)' /\ e.last = e.first + WordsFor(Bytes(e))
      BY <2>3, <2>9, <2>10, <3>1, <3>2, Zenon
    <3>4. e.last <= gens'[o].pos
      <4>1. gens[o].pos \in Nat /\ gens'[o].pos = gens[o].pos
        BY <1>1, <1>2, SourceFacts
      <4>2. QED
        BY <2>3, <4>1
    <3>5. e.given = Result(Stretch(log[o].seed, e.first, Bytes(e)), e)
      BY <2>3, <2>9, <3>2, Zenon
    <3>6. Stretch(log[o].seed, e.first, Bytes(e))' = Stretch(log[o].seed, e.first, Bytes(e))
      BY <1>1, <2>5, Zenon DEF Stretch
    <3>7. QED
      BY <2>11, <3>3, <3>4, <3>5, <3>6, Zenon DEF CallOK
  <2>15. PastOK(o)'
    <3>1. \A k \in 1..(n2 + 1) : k \in 1..n2 \/ k = n2 + 1
      OBVIOUS
    <3>2. \A k \in 1..(n2 + 1) : CallOK(o, k)'
      BY <2>13, <2>14, <3>1, Zenon
    <3>3. QED
      BY <2>11, <3>2, Zenon DEF PastOK
  <2>16. NowOK(o)'
    <3>1. gens'[o].pos = Reached(o, Len(log[o].calls))'
      <4>1. n2 + 1 # 0
        OBVIOUS
      <4>2. Reached(o, Len(log[o].calls))' = e.last
        BY <2>11, <4>1, Zenon DEF Reached
      <4>3. QED
        BY <1>1, <2>3, <4>2, Zenon
    <3>2. gens'[o].pos <= Len(tape'[gens'[o].seed])
      BY <1>1 DEF SourcesOK, NowOK
    <3>3. QED
      BY <1>5, <3>1, <3>2, Zenon DEF NowOK
  <2>17. \A p \in 1..Len(log') : PastOK(p)' /\ NowOK(p)'
    BY <2>5, <2>8, <2>15, <2>16, Zenon
  <2>18. QED
    BY <2>6, <2>7, <2>17 DEF SourcesOK
<1>10. QED
  BY <1>8, <1>9

LEMMA SourcesNext == SourcesOK /\ [SourceNext]_sourceVars => SourcesOK'
<1> SUFFICES ASSUME SourcesOK, [SourceNext]_sourceVars PROVE SourcesOK'
  OBVIOUS
<1>1. SourceTypeOK /\ OwnGenerator
  BY DEF SourcesOK
<1>2. \A h \in Handles : src[h] \in 0..Len(gens) /\ origin[h] = src[h]
  BY <1>1 DEF SourceTypeOK, OwnGenerator
<1>3. ASSUME NEW h \in Handles, NEW s \in Seeds, SeededRandom(h, s) PROVE SourcesOK'
  BY <1>3, SeededRandomKeeps
<1>4. ASSUME NEW h \in Handles, OsRandom(h) PROVE SourcesOK'
  <2>1. Device \in 0..Len(gens) /\ Device = 0
    BY <1>1 DEF Device, SourceTypeOK
  <2>2. /\ call = Idle /\ UNCHANGED <<gens, tape, call, buf, first, log>>
        /\ src' = [src EXCEPT ![h] = Device] /\ origin' = [origin EXCEPT ![h] = Device]
    BY <1>4, <2>1 DEF OsRandom
  <2>3. QED
    BY <2>1, <2>2, HoldingKeeps
<1>5. ASSUME NEW h \in Handles, NEW k \in Handles, Copy(h, k) PROVE SourcesOK'
  <2>1. PICK g \in 0..Len(gens) : g = src[k] /\ g = origin[k]
    BY <1>2, Zenon
  <2>2. /\ call = Idle /\ UNCHANGED <<gens, tape, call, buf, first, log>>
        /\ src' = [src EXCEPT ![h] = g] /\ origin' = [origin EXCEPT ![h] = g]
    BY <1>5, <2>1 DEF Copy, Shared
  <2>3. QED
    BY <2>2, HoldingKeeps
<1>6. ASSUME NEW h \in Handles, NEW q \in Requests, Call(h, q) PROVE SourcesOK'
  BY <1>6, CallKeeps
<1>7. ASSUME NEW w \in Outputs, DeviceWord(w) PROVE SourcesOK'
  BY <1>7, DeviceWordKeeps
<1>8. ASSUME NEW w \in Outputs, GeneratorWord(w) PROVE SourcesOK'
  BY <1>8, GeneratorWordKeeps
<1>9. ASSUME Return PROVE SourcesOK'
  BY <1>9, ReturnKeeps
<1>10. ASSUME UNCHANGED sourceVars PROVE SourcesOK'
  <2>1. UNCHANGED <<gens, src, tape, call, buf, first, log, origin>>
    BY <1>10 DEF sourceVars
  <2>2. SourceTypeOK' /\ OwnGenerator'
    BY <1>1, <2>1 DEF SourceTypeOK, OwnGenerator, Bytes
  <2>3. ASSUME NEW o \in 1..Len(log) PROVE PastOK(o)' /\ NowOK(o)'
    <3>1. PastOK(o) /\ NowOK(o)
      BY DEF SourcesOK
    <3>2. PastOK(o)'
      BY <2>1, <3>1, Zenon DEF PastOK, CallOK, Reached, Stretch
    <3>3. NowOK(o)'
      BY <2>1, <3>1, Zenon DEF NowOK, Drawing, Reached, BufferOK, Stretch, Bytes
    <3>4. QED
      BY <3>2, <3>3
  <2>4. QED
    BY <2>1, <2>2, <2>3 DEF SourcesOK
<1>11. QED
  BY <1>3, <1>4, <1>5, <1>6, <1>7, <1>8, <1>9, <1>10 DEF SourceNext

(* THEOREM: however sources are made, copied, replaced and drawn from, the *)
(* calls on one seeded_random (rng.cpp:39-53) take consecutive stretches   *)
(* of its words, so no word reaches two callers, and each gets just what   *)
(* stands in its stretch.                                                  *)
THEOREM DrawsConsecutive == SourceSpec => []DrawInv
<1>1. SourceInit => SourcesOK
  BY SourcesInit
<1>2. SourcesOK /\ [SourceNext]_sourceVars => SourcesOK'
  BY SourcesNext
<1>3. DrawInv <=> SourcesOK
  BY SplitInv
<1>4. QED
  BY <1>1, <1>2, <1>3, PTL DEF SourceSpec

(* Two sources asked the same from the start stand at the same place.      *)
LEMMA SamePlace ==
  ASSUME SourcesOK, NEW o \in 1..Len(log), NEW p \in 1..Len(log),
         NEW m \in DOMAIN log[o].calls \cap DOMAIN log[p].calls,
         \A l \in 1..m : Asked(o, l) = Asked(p, l)
  PROVE  \A k \in 0..(m-1) : Reached(o, k) = Reached(p, k)
<1>1. /\ DOMAIN log[o].calls = 1..Len(log[o].calls) /\ Len(log[o].calls) \in Nat
      /\ DOMAIN log[p].calls = 1..Len(log[p].calls) /\ Len(log[p].calls) \in Nat
  BY SourceFacts DEF SourcesOK
<1>2. m \in Nat \ {0} /\ 1..m \subseteq DOMAIN log[o].calls /\ 1..m \subseteq DOMAIN log[p].calls
  BY <1>1
<1>3. PastOK(o) /\ PastOK(p)
  BY DEF SourcesOK
<1> DEFINE Q == {k \in Nat : k <= m - 1 => Reached(o, k) = Reached(p, k)}
<1>4. 0 \in Q
  BY DEF Reached
<1>5. ASSUME NEW k \in Q PROVE k + 1 \in Q
  <2>1. k \in Nat
    OBVIOUS
  <2> SUFFICES ASSUME k + 1 <= m - 1 PROVE Reached(o, k+1) = Reached(p, k+1)
    OBVIOUS
  <2>2. k + 1 \in 1..m /\ k + 1 # 0 /\ (k + 1) - 1 = k /\ k <= m - 1
    BY <1>2, <2>1
  <2>3. Reached(o, k) = Reached(p, k)
    BY <2>2
  <2>4. CallOK(o, k+1) /\ CallOK(p, k+1) /\ Asked(o, k+1) = Asked(p, k+1)
    BY <1>2, <1>3, <2>2, Zenon DEF PastOK
  <2>5. PICK c, e : c = log[o].calls[k+1] /\ e = log[p].calls[k+1]
    OBVIOUS
  <2>6. c.first = Reached(o, k) /\ c.last = c.first + WordsFor(Bytes(c))
    BY <2>2, <2>4, <2>5, Zenon DEF CallOK
  <2>7. e.first = Reached(p, k) /\ e.last = e.first + WordsFor(Bytes(e))
    BY <2>2, <2>4, <2>5, Zenon DEF CallOK
  <2>8. c.kind = e.kind /\ c.size = e.size
    BY <2>4, <2>5 DEF Asked
  <2>9. Bytes(c) = Bytes(e)
    BY <2>8, SameResult
  <2>10. c.last = e.last
    BY <2>3, <2>6, <2>7, <2>9, Zenon
  <2>11. QED
    BY <2>2, <2>5, <2>10, Zenon DEF Reached
<1> HIDE DEF Q
<1>6. Q = Nat
  BY <1>4, <1>5, SetInduction DEF Q
<1>7. QED
  BY <1>2, <1>6 DEF Q

LEMMA SameAnswers == SourcesOK => Reproducible
<1> SUFFICES ASSUME SourcesOK, NEW o \in DOMAIN log, NEW p \in DOMAIN log,
                    log[o].seed = log[p].seed,
                    NEW k \in DOMAIN log[o].calls \cap DOMAIN log[p].calls,
                    \A l \in 1..k : Asked(o, l) = Asked(p, l)
             PROVE  log[o].calls[k].given = log[p].calls[k].given
  BY DEF Reproducible
<1>1. o \in 1..Len(log) /\ p \in 1..Len(log)
  BY SourceFacts DEF SourcesOK
<1>2. k \in Nat \ {0}
  BY <1>1, SourceFacts DEF SourcesOK
<1>3. k - 1 \in 0..(k-1) /\ k \in 1..k
  BY <1>2
<1>4. Reached(o, k-1) = Reached(p, k-1)
  <2>1. \A i \in 0..(k-1) : Reached(o, i) = Reached(p, i)
    BY <1>1, SamePlace
  <2>2. QED
    BY <1>3, <2>1, Zenon
<1>5. CallOK(o, k) /\ CallOK(p, k) /\ Asked(o, k) = Asked(p, k)
  BY <1>1, <1>3 DEF SourcesOK, PastOK
<1>6. PICK c, e : c = log[o].calls[k] /\ e = log[p].calls[k]
  OBVIOUS
<1>7. c.first = Reached(o, k-1) /\ c.given = Result(Stretch(log[o].seed, c.first, Bytes(c)), c)
  BY <1>5, <1>6, Zenon DEF CallOK
<1>8. e.first = Reached(p, k-1) /\ e.given = Result(Stretch(log[p].seed, e.first, Bytes(e)), e)
  BY <1>5, <1>6, Zenon DEF CallOK
<1>9. c.kind = e.kind /\ c.size = e.size
  BY <1>5, <1>6 DEF Asked
<1>10. Bytes(c) = Bytes(e)
  BY <1>9, SameResult
<1>11. PICK bytes : bytes = Stretch(log[o].seed, c.first, Bytes(c))
                  /\ bytes = Stretch(log[p].seed, e.first, Bytes(e))
  BY <1>4, <1>7, <1>8, <1>10, Zenon
<1>12. Result(bytes, c) = Result(bytes, e)
  BY <1>9, SameResult
<1>13. QED
  BY <1>6, <1>7, <1>8, <1>11, <1>12, Zenon

(* THEOREM: two sources of one seed asked the same in the same portions    *)
(* give the same (rng.hpp:26), whatever happens in between on them, on     *)
(* their copies and on other sources.                                      *)
THEOREM AnswersReproducible == SourceSpec => []Reproducible
<1>1. SourceInit => SourcesOK
  BY SourcesInit
<1>2. SourcesOK /\ [SourceNext]_sourceVars => SourcesOK'
  BY SourcesNext
<1>3. SourcesOK => Reproducible
  BY SameAnswers
<1>4. QED
  BY <1>1, <1>2, <1>3, PTL DEF SourceSpec
=============================================================================
