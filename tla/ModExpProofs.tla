---------------------------- MODULE ModExpProofs ----------------------------
(***************************************************************************)
(* Proofs about the exponentiation routines for every base, exponent,      *)
(* window, odd modulus and radix: each loop keeps the power it stands for, *)
(* the ladder's cost does not depend on the exponent, the cost of          *)
(* square-and-multiply and the laboratory's trace give it away, and every  *)
(* routine answers as ModPow says.                                         *)
(***************************************************************************)
EXTENDS ModExp, NumberLemmas

-----------------------------------------------------------------------------
(* Residues in the Montgomery domain.                                      *)

(* The radix is a power of two, hence coprime to an odd number.            *)
LEMMA RadixCoprime ==
  ASSUME NEW w \in Nat, w % 2 = 1
  PROVE  Bezout(Radix, w)
<1>1. PICK k \in Nat : Radix = Pow2[k]
  BY ArgumentsAssumption
<1>2. QED
  BY <1>1, OddCoprime

(* The product of two Montgomery forms, Radix taken out once.                  *)
LEMMA FormsMultiply ==
  ASSUME NEW w \in Int, NEW r \in Int, NEW G \in Int, NEW H \in Int, NEW F \in Int,
         NEW a \in Int, NEW b \in Int, NEW z \in Int,
         Congruent(a, G * r, w), Congruent(b, H * r, w),
         Congruent(G * H, F, w), Congruent(z, F * r, w)
  PROVE  Congruent(z * r, a * b, w)
<1>1. PICK s \in Int, t \in Int, u \in Int, v \in Int :
        a = G * r + s * w /\ b = H * r + t * w /\ G * H = F + u * w /\ z = F * r + v * w
  BY DEF Congruent
<1>2. a * b = (G * H) * (r * r) + (G * r * t + H * r * s + s * (t * w)) * w
  BY <1>1
<1>3. (G * H) * (r * r) = F * (r * r) + (u * (r * r)) * w
  BY <1>1
<1>4. z * r = F * (r * r) + (v * r) * w
  BY <1>1
<1>5. PICK e \in Int :
        e = (v * r) - (u * (r * r)) - (G * r * t + H * r * s + s * (t * w))
  OBVIOUS
<1>6. e * w = (v * r) * w - (u * (r * r)) * w - (G * r * t + H * r * s + s * (t * w)) * w
  BY <1>5
<1>7. z * r = a * b + e * w
  BY <1>2, <1>3, <1>4, <1>6
<1>8. QED
  BY <1>7, Zenon DEF Congruent

-----------------------------------------------------------------------------
(* A request that Montgomery's routines accept.                            *)
Montgomery == TypeOK /\ ~Refused(request) /\ request.alg # "schoolbook"

LEMMA Arguments ==
  ASSUME TypeOK
  PROVE  /\ base \in Nat /\ exp \in Nat /\ mod \in Nat /\ request.fixed \in Nat
         /\ request.alg \in Algorithms /\ Radix \in Nat /\ i \in Nat
BY ArgumentsAssumption DEF TypeOK, Requests, base, exp, mod

LEMMA OddModulus ==
  ASSUME Montgomery
  PROVE  mod \in Nat \ {0} /\ mod >= 3 /\ mod % 2 = 1 /\ Bezout(Radix, mod)
<1>1. mod \in Nat /\ mod >= 3 /\ mod % 2 # 0
  BY Arguments DEF Montgomery, Refused, mod
<1>2. mod % 2 = 1
  BY <1>1
<1>3. QED
  BY <1>1, <1>2, RadixCoprime

(* MonPro is the residue that Radix turns back into the product.               *)
LEMMA MonProIs ==
  ASSUME Montgomery, NEW a \in Int, NEW b \in Int, NEW z \in 0..(mod-1),
         Congruent(z * Radix, a * b, mod)
  PROVE  MonPro(a, b) = z
<1>1. PICK w \in Nat \ {0}, r \in Int : w = mod /\ r = Radix /\ Bezout(r, w)
  BY OddModulus, Arguments DEF Montgomery
<1>2. PICK p \in Int : p = a * b
  OBVIOUS
<1>3. PICK t \in Int : z * r = p + t * w
  BY <1>1, <1>2 DEF Congruent
<1>4. z \in 0..(w-1) /\ Bezout(r, w)
  BY <1>1
<1>5. (CHOOSE c \in 0..(w-1) : (c * r - p) % w = 0) = z
  BY <1>3, <1>4, TheResidue, ZenonT(60)
<1>6. QED
  BY <1>1, <1>2, <1>5 DEF MonPro

(* The forms the loops keep are residues, congruent to g^k * Radix.            *)
LEMMA Forms ==
  ASSUME Montgomery, NEW k \in Nat
  PROVE  /\ Pow(k) \in 0..(mod-1) /\ PowMont(k) \in 0..(mod-1)
         /\ Congruent(PowMont(k), Pow(k) * Radix, mod)
<1>1. base \in Nat /\ mod \in Nat \ {0} /\ Radix \in Int
  BY OddModulus, Arguments DEF Montgomery
<1>2. Pow(k) \in 0..(mod-1)
  BY <1>1, PowerRec DEF Pow
<1>3. Pow(k) * Radix \in Int
  BY <1>1, <1>2
<1>4. (Pow(k) * Radix) % mod \in 0..(mod-1)
  BY <1>1, <1>3
<1>5. Congruent((Pow(k) * Radix) % mod, Pow(k) * Radix, mod)
  BY <1>1, <1>3, CongruentMod, Zenon
<1>6. QED
  BY <1>2, <1>4, <1>5 DEF PowMont

(* A product of forms is the form of the sum of the exponents.             *)
LEMMA FormProduct ==
  ASSUME Montgomery, NEW j \in Nat, NEW k \in Nat
  PROVE  MonPro(PowMont(j), PowMont(k)) = PowMont(j + k)
<1>1. base \in Nat /\ mod \in Nat \ {0} /\ mod \in Int /\ Radix \in Int
  BY OddModulus, Arguments DEF Montgomery
<1>2. PICK G \in Int, H \in Int, F \in Int : G = Pow(j) /\ H = Pow(k) /\ F = Pow(j + k)
  <2>1. Pow(j) \in Int /\ Pow(k) \in Int /\ Pow(j + k) \in Int
    BY Forms, <1>1
  <2>2. QED
    BY <2>1, Zenon
<1>3. PICK a \in Int, b \in Int, z \in 0..(mod-1) :
        a = PowMont(j) /\ b = PowMont(k) /\ z = PowMont(j + k)
  <2>1. PowMont(j) \in Int /\ PowMont(k) \in Int /\ PowMont(j + k) \in 0..(mod-1)
    BY Forms, <1>1
  <2>2. QED
    BY <2>1, Zenon
<1>4. Congruent(a, G * Radix, mod) /\ Congruent(b, H * Radix, mod) /\ Congruent(z, F * Radix, mod)
  <2>1. j + k \in Nat
    OBVIOUS
  <2>2. QED
    BY <1>2, <1>3, <2>1, Forms
<1>5. Congruent(G * H, F, mod)
  BY <1>1, <1>2, PowerAdd DEF Pow
<1>6. z \in Int
  BY <1>1
<1>7. Congruent(z * Radix, a * b, mod)
  BY <1>1, <1>4, <1>5, <1>6, FormsMultiply, Zenon
<1>8. QED
  BY <1>3, <1>7, MonProIs

(* Into the domain...                                                      *)
LEMMA Enters ==
  ASSUME Montgomery, NEW v \in Nat
  PROVE  ToMont(v) = ((v % mod) * Radix) % mod
<1>1. PICK w \in Nat \ {0}, r \in Int : w = mod /\ r = Radix
  BY OddModulus, Arguments DEF Montgomery
<1>2. PICK g \in Int, o \in Int, s \in Int : g = v % w /\ o = r % w /\ s = (o * o) % w
  <2>1. PICK g \in Int, o \in Int : g = v % w /\ o = r % w
    OBVIOUS
  <2>2. PICK s \in Int : s = (o * o) % w
    OBVIOUS
  <2>3. QED
    BY <2>1, <2>2, Zenon
<1>3. g * r \in Int /\ o * o \in Int /\ w \in Int
  BY <1>1, <1>2
<1>4. PICK z \in 0..(w-1) : z = (g * r) % w
  BY <1>3
<1>5. Congruent(z, g * r, w) /\ Congruent(o, r, w) /\ Congruent(s, o * o, w)
  BY <1>2, <1>3, <1>4, CongruentMod
<1>6. PICK t \in Int, u \in Int, q \in Int :
        z = g * r + t * w /\ o = r + u * w /\ s = o * o + q * w
  BY <1>5 DEF Congruent
<1>7. PICK e \in Int : e = t * r - g * (2 * (r * u) + u * (u * w) + q)
  OBVIOUS
<1>8. z * r = g * s + e * w
  <2>1. s = r * r + (2 * (r * u) + u * (u * w) + q) * w
    BY <1>6
  <2>2. g * s = g * (r * r) + (g * (2 * (r * u) + u * (u * w) + q)) * w
    BY <2>1
  <2>3. z * r = g * (r * r) + (t * r) * w
    BY <1>6
  <2>4. e * w = (t * r) * w - (g * (2 * (r * u) + u * (u * w) + q)) * w
    BY <1>7
  <2>5. QED
    BY <2>2, <2>3, <2>4
<1>9. Congruent(z * r, g * s, w)
  BY <1>8, Zenon DEF Congruent
<1>10. MonPro(g, s) = z
  BY <1>1, <1>9, MonProIs
<1>11. R2 = s /\ v % mod = g
  BY <1>1, <1>2 DEF R2, OneMont
<1>12. QED
  BY <1>1, <1>4, <1>10, <1>11 DEF ToMont

(* ...and out of it.                                                       *)
LEMMA Leaves ==
  ASSUME Montgomery, NEW k \in Nat
  PROVE  MonPro(PowMont(k), 1) = Pow(k)
<1>1. mod \in Nat \ {0} /\ mod \in Int /\ Radix \in Int
  BY OddModulus, Arguments DEF Montgomery
<1>2. PICK a \in Int, z \in 0..(mod-1) : a = PowMont(k) /\ z = Pow(k)
  BY Forms, <1>1
<1>3. Congruent(a, z * Radix, mod)
  BY <1>2, Forms
<1>4. z * Radix \in Int /\ a * 1 = a
  BY <1>1
<1>5. Congruent(z * Radix, a * 1, mod)
  BY <1>1, <1>3, <1>4, CongruentSym
<1>6. MonPro(a, 1) = z
  BY <1>5, MonProIs
<1>7. QED
  BY <1>2, <1>6

-----------------------------------------------------------------------------
(* What the loops keep, and what the ladder costs: inductive by itself.    *)
Core == LoopInv /\ LadderUniform

(* The ladder's window has room for the exponent.                          *)
LEMMA WindowCovers ==
  ASSUME TypeOK
  PROVE  /\ Window(request) \in Nat /\ exp < Pow2[Window(request)]
         /\ Window(request) = LargerOf(1, LargerOf(request.fixed, BitLength(exp)))
<1>1. exp \in Nat /\ request.fixed \in Nat
  BY Arguments
<1>2. BitLength(exp) \in Nat /\ exp < Pow2[BitLength(exp)]
  BY <1>1, BitLengthBound
<1>3. /\ Window(request) \in Nat /\ Window(request) >= BitLength(exp)
      /\ Window(request) = LargerOf(1, LargerOf(request.fixed, BitLength(exp)))
  BY <1>1, <1>2 DEF Window, LargerOf, exp
<1>4. Pow2[BitLength(exp)] <= Pow2[Window(request)]
  BY <1>2, <1>3, Pow2Grows
<1>5. Pow2[BitLength(exp)] \in Nat /\ Pow2[Window(request)] \in Nat
  BY <1>2, <1>3, Pow2Def
<1>6. QED
  BY <1>1, <1>2, <1>3, <1>4, <1>5

(* The request, and all that is read from it, stays.                       *)
LEMMA SameRequest ==
  ASSUME request' = request
  PROVE  /\ base' = base /\ exp' = exp /\ mod' = mod
         /\ Refused(request)' = Refused(request) /\ Window(request)' = Window(request)
         /\ \A k \in Nat : Pow(k)' = Pow(k) /\ PowMont(k)' = PowMont(k)
BY DEF base, exp, mod, Refused, Window, LargerOf, Pow, PowMont

LEMMA KeepsInit == ASSUME Init PROVE Core
<1>1. TypeOK
  BY DEF Init, TypeOK
<1>2. QED
  BY <1>1 DEF Init, Core, LoopInv, StageInv, LadderInv, PowInv, SchoolbookInv, LadderUniform

LEMMA KeepsRefuse == ASSUME Core, Refuse PROVE Core'
<1>1. TypeOK'
  BY DEF Refuse, Core, LoopInv, TypeOK
<1>2. QED
  BY <1>1 DEF Refuse, Core, LoopInv, StageInv, LadderInv, PowInv, SchoolbookInv, LadderUniform

(* The schoolbook loop.                                                    *)
LEMMA KeepsEnterSchoolbook == ASSUME Core, EnterSchoolbook PROVE Core'
<1>1. /\ pc = "enter" /\ pc' = "schoolbook" /\ request' = request /\ i' = 0
      /\ x' = 1 /\ y' = base % mod /\ op_counter' = op_counter /\ answer' = answer
      /\ ~Refused(request) /\ request.alg = "schoolbook"
  BY DEF EnterSchoolbook
<1>2. TypeOK /\ base \in Nat /\ exp \in Nat /\ mod \in Nat \ {0}
  BY <1>1, Arguments DEF Core, LoopInv, Refused, mod
<1>3. TypeOK'
  BY <1>1, <1>2 DEF TypeOK
<1>4. SchoolbookInv'
  <2>1. exp \div Pow2[0] = exp
    BY <1>2, Pow2Def
  <2>2. Power(base % mod, exp, mod) = Pow(exp) /\ Pow(exp) \in 0..(mod-1)
    BY <1>2, PowerOfResidue, PowerRec DEF Pow
  <2>3. (1 * Power(base % mod, exp, mod)) % mod = Pow(exp)
    <3>1. PICK u \in 0..(mod-1) : u = Power(base % mod, exp, mod) /\ u = Pow(exp)
      BY <2>2
    <3>2. (1 * u) % mod = u
      BY <1>2
    <3>3. QED
      BY <3>1, <3>2
  <2>4. exp' = exp /\ mod' = mod /\ Pow(exp)' = Pow(exp)
    BY <1>1 DEF exp, mod, base, Pow
  <2>5. QED
    BY <1>1, <2>1, <2>3, <2>4 DEF SchoolbookInv
<1>5. QED
  BY <1>1, <1>3, <1>4 DEF Core, LoopInv, StageInv, LadderInv, PowInv, LadderUniform

(* (x*y)*u and x*(u*y), reduced after each product.                        *)
LEMMA ReducedProducts ==
  ASSUME NEW w \in Nat \ {0}, NEW u \in Int, NEW v \in Int, NEW z \in Int
  PROVE  (((v * z) % w) * u) % w = (v * ((u * z) % w)) % w
<1>1. PICK a \in Int, b \in Int : a = v * z /\ b = u * z
  OBVIOUS
<1>2. PICK c \in Int, d \in Int : c = a % w /\ d = b % w
  OBVIOUS
<1>3. PICK s \in Int, t \in Int : c = a + s * w /\ d = b + t * w
  <2>1. Congruent(c, a, w) /\ Congruent(d, b, w)
    BY <1>2, CongruentMod
  <2>2. QED
    BY <2>1 DEF Congruent
<1>4. PICK e \in Int : e = s * u - v * t
  OBVIOUS
<1>5. c * u = v * d + e * w
  BY <1>1, <1>3, <1>4
<1>6. Congruent(c * u, v * d, w)
  BY <1>5, Zenon DEF Congruent
<1>7. c * u \in Int /\ v * d \in Int
  OBVIOUS
<1>8. (c * u) % w = (v * d) % w
  BY <1>6, <1>7, CongruentEqual, Zenon
<1>9. QED
  BY <1>1, <1>2, <1>8

LEMMA KeepsSchoolbookBit == ASSUME Core, SchoolbookBit PROVE Core'
<1>1. /\ pc = "schoolbook" /\ pc' = "schoolbook" /\ request' = request /\ i' = i + 1
      /\ x' = IF TestBit(exp, i) THEN (x * y) % mod ELSE x
      /\ y' = (y * y) % mod /\ op_counter' = op_counter /\ answer' = answer
  BY DEF SchoolbookBit, NextBit
<1>2. TypeOK /\ exp \in Nat /\ mod \in Nat \ {0} /\ i \in Nat /\ x \in Nat /\ y \in Nat
  BY <1>1, Arguments DEF Core, LoopInv, StageInv, TypeOK, Refused, mod
<1>3. x' \in Nat /\ y' \in Nat
  BY <1>1, <1>2
<1>4. TypeOK'
  BY <1>1, <1>2, <1>3 DEF TypeOK
<1>5. PICK e \in Nat, e2 \in Nat : e = exp \div Pow2[i] /\ e2 = exp \div Pow2[i+1]
  BY <1>2, HalfOfQuotient
<1>6. (x * Power(y, e, mod)) % mod = Pow(exp)
  BY <1>1, <1>5 DEF Core, LoopInv, SchoolbookInv
<1>7. PICK u \in Nat : u = Power(y, 2 * e2, mod) /\ Power(y', e2, mod) = u
  <2>1. Power(y', e2, mod) = Power(y, 2 * e2, mod)
    BY <1>1, <1>2, PowerOfSquare
  <2>2. 2 * e2 \in Nat
    OBVIOUS
  <2>3. Power(y, 2 * e2, mod) \in Nat
    BY <1>2, <2>2, PowerRec
  <2>4. QED
    BY <2>1, <2>3
<1>8. (x' * u) % mod = Pow(exp)
  <2>1. e = 2 * e2 + (e % 2) /\ e % 2 \in {0, 1} /\ (TestBit(exp, i) <=> e % 2 = 1)
    BY <1>2, <1>5, HalfOfQuotient DEF TestBit
  <2>2. CASE e % 2 = 0
    <3>1. e = 2 * e2 /\ x' = x
      BY <1>1, <2>1, <2>2
    <3>2. QED
      BY <3>1, <1>6, <1>7
  <2>3. CASE e % 2 = 1
    <3>1. e = (2 * e2) + 1 /\ 2 * e2 \in Nat /\ x' = (x * y) % mod
      BY <1>1, <2>1, <2>3
    <3>2. Power(y, e, mod) = (u * y) % mod
      BY <1>2, <1>7, <3>1, PowerRec
    <3>3. (x * ((u * y) % mod)) % mod = Pow(exp)
      BY <1>6, <3>2
    <3>4. u \in Int /\ x \in Int /\ y \in Int
      BY <1>2
    <3>5. (((x * y) % mod) * u) % mod = (x * ((u * y) % mod)) % mod
      BY <1>2, <3>4, ReducedProducts, ZenonT(60)
    <3>6. QED
      BY <3>1, <3>3, <3>5
  <2>4. QED
    BY <2>1, <2>2, <2>3
<1>9. SchoolbookInv'
  <2>1. exp' = exp /\ mod' = mod /\ Pow(exp)' = Pow(exp)
    BY <1>1 DEF exp, mod, base, Pow
  <2>2. QED
    BY <1>1, <1>5, <1>7, <1>8, <2>1 DEF SchoolbookInv
<1>10. QED
  BY <1>1, <1>4, <1>9
     DEF Core, LoopInv, StageInv, LadderInv, PowInv, LadderUniform, Refused

(* When no bit is left, x is the power.                                    *)
LEMMA SchoolbookAnswer ==
  ASSUME Core, pc = "schoolbook", i = BitLength(exp)
  PROVE  x % mod = Pow(exp) /\ mod \in Nat \ {0} /\ x \in Nat
<1>1. TypeOK /\ exp \in Nat /\ mod \in Nat \ {0} /\ x \in Nat /\ y \in Nat
  BY Arguments DEF Core, LoopInv, StageInv, TypeOK, Refused, mod
<1>2. i \in Nat /\ exp < Pow2[i]
  BY <1>1, BitLengthBound
<1>3. exp \div Pow2[i] = 0
  BY <1>1, <1>2, NothingLeft
<1>4. (x * (1 % mod)) % mod = Pow(exp)
  <2>1. Power(y, 0, mod) = 1 % mod
    BY <1>1, PowerRec
  <2>2. QED
    BY <1>3, <2>1 DEF Core, LoopInv, SchoolbookInv
<1>5. PICK o \in Int, w \in Nat \ {0}, v \in Int : w = mod /\ o = 1 % w /\ v = x
  BY <1>1
<1>6. Congruent(o, 1, w) /\ w \in Int /\ 1 \in Int
  BY <1>5, CongruentMod
<1>7. Congruent(v * o, v * 1, w)
  BY <1>6, CongruentScale, Zenon
<1>8. v * o \in Int /\ v * 1 = v
  OBVIOUS
<1>9. (v * o) % w = v % w
  BY <1>7, <1>8, CongruentEqual, Zenon
<1>10. QED
  BY <1>1, <1>4, <1>5, <1>9

LEMMA KeepsSchoolbookReturn == ASSUME Core, SchoolbookReturn PROVE Core'
<1>1. /\ pc = "schoolbook" /\ pc' = "done" /\ i = BitLength(exp) /\ answer' = x % mod
      /\ UNCHANGED <<request, i, x, y, op_counter>>
  BY DEF SchoolbookReturn, Collapse
<1>2. answer' \in Nat
  BY <1>1, SchoolbookAnswer
<1>3. TypeOK'
  BY <1>1, <1>2 DEF Core, LoopInv, TypeOK
<1>4. QED
  BY <1>1, <1>3
     DEF Core, LoopInv, StageInv, LadderInv, PowInv, SchoolbookInv, LadderUniform

-----------------------------------------------------------------------------
(* Entering the Montgomery routines: nothing of the exponent is consumed.  *)
LEMMA EntryForms ==
  ASSUME Montgomery
  PROVE  /\ OneMont = PowMont(0) /\ ToMont(1) = PowMont(0) /\ ToMont(base) = PowMont(1)
         /\ PowMont(0) \in 0..(mod-1) /\ PowMont(1) \in 0..(mod-1)
<1>1. base \in Nat /\ mod \in Nat \ {0} /\ mod >= 3 /\ Radix \in Int
  BY OddModulus, Arguments DEF Montgomery
<1>2. Pow(0) = 1 % mod /\ Pow(1) = base % mod
  BY <1>1, PowerRec, PowerOne DEF Pow
<1>3. 1 % mod = 1
  BY <1>1
<1>4. PowMont(0) = (1 * Radix) % mod /\ PowMont(1) = ((base % mod) * Radix) % mod
  BY <1>2, <1>3 DEF PowMont
<1>5. OneMont = PowMont(0)
  BY <1>1, <1>4 DEF OneMont
<1>6. ToMont(1) = ((1 % mod) * Radix) % mod /\ ToMont(base) = ((base % mod) * Radix) % mod
  BY <1>1, Enters
<1>7. PowMont(0) \in 0..(mod-1) /\ PowMont(1) \in 0..(mod-1)
  BY Forms
<1>8. QED
  BY <1>3, <1>4, <1>5, <1>6, <1>7

LEMMA KeepsEnterMontgomery == ASSUME Core, EnterMontgomery PROVE Core'
<1>1. /\ pc = "enter" /\ request' = request /\ answer' = answer
      /\ x' = OneMont /\ y' = ToMont(base) /\ op_counter' = 0 + 1
      /\ ~Refused(request) /\ request.alg \in {"pow", "pow_ct"}
      /\ request.alg = "pow" => i' = BitLength(exp) /\ pc' = "square"
      /\ request.alg # "pow" => i' = Window(request) /\ pc' = "ladder"
  BY DEF EnterMontgomery, Core, LoopInv, StageInv
<1>2. Montgomery /\ TypeOK
  BY <1>1 DEF Core, LoopInv, Montgomery
<1>3. exp \in Nat /\ mod \in Nat /\ BitLength(exp) \in Nat /\ exp < Pow2[BitLength(exp)]
  BY <1>2, Arguments, BitLengthBound
<1>4. Window(request) \in Nat /\ exp < Pow2[Window(request)]
  BY <1>2, WindowCovers
<1>5. i' \in Nat /\ exp \div Pow2[i'] = 0
  BY <1>1, <1>3, <1>4, NothingLeft
<1>6. x' = PowMont(0) /\ y' = PowMont(1) /\ x' \in 0..(mod-1) /\ y' \in 0..(mod-1)
  BY <1>1, <1>2, EntryForms
<1>7. /\ mod' = mod /\ exp' = exp /\ Window(request)' = Window(request)
      /\ PowMont(0)' = PowMont(0) /\ PowMont(1)' = PowMont(1)
      /\ Refused(request)' = Refused(request)
  BY <1>1, SameRequest
<1>8. TypeOK'
  <2>1. x' \in Nat /\ y' \in Nat /\ x' < mod' /\ y' < mod'
    BY <1>3, <1>6, <1>7
  <2>2. QED
    BY <1>1, <1>2, <1>5, <2>1 DEF TypeOK
<1>9. LadderInv' /\ PowInv'
  BY <1>1, <1>5, <1>6, <1>7 DEF LadderInv, PowInv
<1>10. LadderUniform'
  BY <1>1, <1>4, <1>7 DEF LadderUniform
<1>11. QED
  BY <1>1, <1>7, <1>8, <1>9, <1>10 DEF Core, LoopInv, StageInv, SchoolbookInv

LEMMA KeepsEnterTraced == ASSUME Core, EnterTraced PROVE Core'
<1>1. /\ pc = "enter" /\ pc' = "square" /\ request' = request /\ answer' = answer
      /\ x' = ToMont(1) /\ y' = ToMont(base) /\ op_counter' = 0 + 2
      /\ ~Refused(request) /\ request.alg = "traced" /\ i' = BitLength(exp)
  BY DEF EnterTraced, Core, LoopInv, StageInv
<1>2. Montgomery /\ TypeOK
  BY <1>1 DEF Core, LoopInv, Montgomery
<1>3. exp \in Nat /\ mod \in Nat /\ BitLength(exp) \in Nat /\ exp < Pow2[BitLength(exp)]
  BY <1>2, Arguments, BitLengthBound
<1>4. i' \in Nat /\ exp \div Pow2[i'] = 0
  BY <1>1, <1>3, NothingLeft
<1>5. x' = PowMont(0) /\ y' = PowMont(1) /\ x' \in 0..(mod-1) /\ y' \in 0..(mod-1)
  BY <1>1, <1>2, EntryForms
<1>6. /\ mod' = mod /\ exp' = exp /\ PowMont(0)' = PowMont(0) /\ PowMont(1)' = PowMont(1)
      /\ Refused(request)' = Refused(request)
  BY <1>1, SameRequest
<1>7. TypeOK'
  <2>1. x' \in Nat /\ y' \in Nat /\ x' < mod' /\ y' < mod'
    BY <1>3, <1>5, <1>6
  <2>2. QED
    BY <1>1, <1>2, <1>4, <2>1 DEF TypeOK
<1>8. LadderInv' /\ PowInv'
  BY <1>1, <1>4, <1>5, <1>6 DEF LadderInv, PowInv
<1>9. QED
  BY <1>1, <1>6, <1>7, <1>8
     DEF Core, LoopInv, StageInv, SchoolbookInv, LadderUniform

(* One digit of the exponent further to the right.                         *)
LEMMA NextExpDigit ==
  ASSUME TypeOK, i > 0
  PROVE  LET k  == exp \div Pow2[i]
             k2 == exp \div Pow2[i-1]
         IN  /\ i-1 \in Nat /\ k \in Nat /\ k2 \in Nat
             /\ TestBit(exp, i-1) => k2 = (k + k) + 1
             /\ ~TestBit(exp, i-1) => k2 = k + k
<1>1. exp \in Nat /\ i \in Nat /\ i-1 \in Nat /\ (i-1) + 1 = i
  BY Arguments
<1>2. PICK k \in Nat, k2 \in Nat : /\ k = exp \div Pow2[i] /\ k2 = exp \div Pow2[i-1]
                                   /\ k2 = 2 * k + (k2 % 2) /\ k2 % 2 \in {0, 1}
  <2>1. LET low == exp \div Pow2[i-1]
            high == exp \div Pow2[(i-1)+1]
        IN  /\ low \in Nat /\ high \in Nat
            /\ low = 2 * high + (low % 2) /\ low % 2 \in {0, 1}
    BY <1>1, HalfOfQuotient
  <2>2. QED
    BY <1>1, <2>1, Zenon
<1>3. TestBit(exp, i-1) <=> k2 % 2 = 1
  BY <1>2 DEF TestBit
<1>4. QED
  BY <1>1, <1>2, <1>3

(* A state inside a Montgomery loop.                                       *)
LEMMA InLoop ==
  ASSUME Core, pc \in {"square", "multiply", "ladder"}
  PROVE  /\ Montgomery /\ TypeOK /\ exp \in Nat /\ mod \in Nat /\ i \in Nat
         /\ op_counter \in Nat
<1>1. Montgomery /\ TypeOK
  BY DEF Core, LoopInv, StageInv, Montgomery
<1>2. QED
  BY <1>1, Arguments DEF TypeOK

LEMMA KeepsSquare == ASSUME Core, Square PROVE Core'
<1>1. /\ pc = "square" /\ i > 0 /\ i' = i - 1 /\ request' = request /\ answer' = answer
      /\ x' = MonPro(x, x) /\ y' = y /\ op_counter' = op_counter + 1
      /\ TestBit(exp, i-1) => pc' = "multiply"
      /\ ~TestBit(exp, i-1) => pc' = "square"
      /\ request.alg \in {"pow", "traced"} /\ ~Refused(request)
  BY DEF Square, Multiplies, Core, LoopInv, StageInv
<1>2. Montgomery /\ TypeOK /\ exp \in Nat /\ mod \in Nat /\ i \in Nat /\ op_counter \in Nat
  BY <1>1, InLoop
<1>3. PICK k \in Nat, k2 \in Nat :
        /\ k = exp \div Pow2[i] /\ k2 = exp \div Pow2[i-1] /\ i-1 \in Nat
        /\ TestBit(exp, i-1) => k2 = (k + k) + 1
        /\ ~TestBit(exp, i-1) => k2 = k + k
  BY <1>1, <1>2, NextExpDigit, Zenon
<1>4. x = PowMont(k) /\ y = PowMont(1)
  BY <1>1, <1>3 DEF Core, LoopInv, PowInv
<1>5. x' = PowMont(k + k)
  BY <1>1, <1>2, <1>4, FormProduct
<1>6. k + k \in Nat /\ PowMont(k + k) \in 0..(mod-1) /\ PowMont(1) \in 0..(mod-1)
  BY <1>2, Forms
<1>7. /\ mod' = mod /\ exp' = exp /\ Refused(request)' = Refused(request)
      /\ PowMont(k + k)' = PowMont(k + k) /\ PowMont(1)' = PowMont(1)
  BY <1>1, <1>6, SameRequest
<1>8. TypeOK'
  <2>1. x' \in Nat /\ y' \in Nat /\ x' < mod' /\ y' < mod' /\ op_counter' \in Nat
    BY <1>1, <1>2, <1>4, <1>5, <1>6, <1>7
  <2>2. QED
    BY <1>1, <1>2, <1>3, <2>1 DEF TypeOK
<1>9. PowInv'
  <2>1. CASE TestBit(exp, i-1)
    <3>1. k2 - 1 = k + k /\ pc' = "multiply"
      BY <1>1, <1>3, <2>1
    <3>2. QED
      BY <1>1, <1>3, <1>4, <1>5, <1>7, <3>1 DEF PowInv
  <2>2. CASE ~TestBit(exp, i-1)
    BY <1>1, <1>3, <1>4, <1>5, <1>7, <2>2 DEF PowInv
  <2>3. QED
    BY <2>1, <2>2
<1>10. StageInv'
  <2>1. TestBit(exp, i)' <=> TestBit(exp, i-1)
    BY <1>1, <1>7 DEF TestBit
  <2>2. QED
    BY <1>1, <1>7, <2>1 DEF StageInv
<1>11. QED
  BY <1>1, <1>8, <1>9, <1>10 DEF Core, LoopInv, LadderInv, SchoolbookInv, LadderUniform

LEMMA KeepsMultiply == ASSUME Core, Multiply PROVE Core'
<1>1. /\ pc = "multiply" /\ pc' = "square" /\ i' = i /\ request' = request
      /\ answer' = answer /\ x' = MonPro(x, y) /\ y' = y
      /\ op_counter' = op_counter + 1 /\ TestBit(exp, i)
      /\ request.alg \in {"pow", "traced"} /\ ~Refused(request)
  BY DEF Multiply, Core, LoopInv, StageInv
<1>2. Montgomery /\ TypeOK /\ exp \in Nat /\ mod \in Nat /\ i \in Nat /\ op_counter \in Nat
  BY <1>1, InLoop
<1>3. PICK k \in Nat : k = exp \div Pow2[i]
  BY <1>2, HalfOfQuotient
<1>4. k - 1 \in Nat
  BY <1>1, <1>3 DEF TestBit
<1>5. x = PowMont(k - 1) /\ y = PowMont(1)
  BY <1>1, <1>3 DEF Core, LoopInv, PowInv
<1>6. x' = PowMont(k)
  <2>1. MonPro(PowMont(k - 1), PowMont(1)) = PowMont((k - 1) + 1)
    BY <1>2, <1>4, FormProduct
  <2>2. (k - 1) + 1 = k
    OBVIOUS
  <2>3. QED
    BY <1>1, <1>5, <2>1, <2>2
<1>7. PowMont(k) \in 0..(mod-1) /\ PowMont(1) \in 0..(mod-1)
  BY <1>2, Forms
<1>8. /\ mod' = mod /\ exp' = exp /\ Refused(request)' = Refused(request)
      /\ PowMont(k)' = PowMont(k) /\ PowMont(1)' = PowMont(1)
  BY <1>1, SameRequest
<1>9. TypeOK'
  <2>1. x' \in Nat /\ y' \in Nat /\ x' < mod' /\ y' < mod' /\ op_counter' \in Nat
    BY <1>1, <1>2, <1>5, <1>6, <1>7, <1>8
  <2>2. QED
    BY <1>1, <1>2, <2>1 DEF TypeOK
<1>10. PowInv'
  BY <1>1, <1>3, <1>5, <1>6, <1>8 DEF PowInv
<1>11. QED
  BY <1>1, <1>8, <1>9, <1>10
     DEF Core, LoopInv, StageInv, LadderInv, SchoolbookInv, LadderUniform

(* The swaps put the two powers back in order, whatever the digit is.      *)
LEMMA KeepsLadderBit == ASSUME Core, LadderBit PROVE Core'
<1>1. /\ pc = "ladder" /\ pc' = "ladder" /\ i > 0 /\ i' = i - 1 /\ request' = request
      /\ answer' = answer /\ op_counter' = op_counter + 2
      /\ TestBit(exp, i-1) => x' = MonPro(y, x) /\ y' = MonPro(y, y)
      /\ ~TestBit(exp, i-1) => x' = MonPro(x, x) /\ y' = MonPro(x, y)
      /\ request.alg = "pow_ct" /\ ~Refused(request)
  BY DEF LadderBit, LadderStep, Core, LoopInv, StageInv
<1>2. Montgomery /\ TypeOK /\ exp \in Nat /\ mod \in Nat /\ i \in Nat /\ op_counter \in Nat
  BY <1>1, InLoop
<1>3. PICK k \in Nat, k2 \in Nat :
        /\ k = exp \div Pow2[i] /\ k2 = exp \div Pow2[i-1] /\ i-1 \in Nat
        /\ TestBit(exp, i-1) => k2 = (k + k) + 1
        /\ ~TestBit(exp, i-1) => k2 = k + k
  BY <1>1, <1>2, NextExpDigit, Zenon
<1>4. x = PowMont(k) /\ y = PowMont(k + 1)
  BY <1>1, <1>3 DEF Core, LoopInv, LadderInv
<1>5. x' = PowMont(k2) /\ y' = PowMont(k2 + 1)
  <2>1. k + 1 \in Nat
    OBVIOUS
  <2>2. CASE TestBit(exp, i-1)
    <3>1. (k + 1) + k = k2 /\ (k + 1) + (k + 1) = k2 + 1
      BY <1>3, <2>2
    <3>2. MonPro(y, x) = PowMont((k + 1) + k) /\ MonPro(y, y) = PowMont((k + 1) + (k + 1))
      BY <1>2, <1>4, <2>1, FormProduct
    <3>3. QED
      BY <1>1, <2>2, <3>1, <3>2
  <2>3. CASE ~TestBit(exp, i-1)
    <3>1. k + k = k2 /\ k + (k + 1) = k2 + 1
      BY <1>3, <2>3
    <3>2. MonPro(x, x) = PowMont(k + k) /\ MonPro(x, y) = PowMont(k + (k + 1))
      BY <1>2, <1>4, <2>1, FormProduct
    <3>3. QED
      BY <1>1, <2>3, <3>1, <3>2
  <2>4. QED
    BY <2>2, <2>3
<1>6. k2 + 1 \in Nat /\ PowMont(k2) \in 0..(mod-1) /\ PowMont(k2 + 1) \in 0..(mod-1)
  BY <1>2, Forms
<1>7. /\ mod' = mod /\ exp' = exp /\ Refused(request)' = Refused(request)
      /\ Window(request)' = Window(request)
      /\ PowMont(k2)' = PowMont(k2) /\ PowMont(k2 + 1)' = PowMont(k2 + 1)
  BY <1>1, <1>6, SameRequest
<1>8. TypeOK'
  <2>1. x' \in Nat /\ y' \in Nat /\ x' < mod' /\ y' < mod' /\ op_counter' \in Nat
    BY <1>1, <1>2, <1>5, <1>6, <1>7
  <2>2. QED
    BY <1>1, <1>2, <1>3, <2>1 DEF TypeOK
<1>9. LadderInv'
  BY <1>1, <1>3, <1>5, <1>7 DEF LadderInv
<1>10. LadderUniform'
  <2>1. op_counter + 2 * i = 1 + 2 * Window(request) /\ Window(request) \in Nat
    BY <1>1, <1>2, WindowCovers DEF Core, LadderUniform
  <2>2. op_counter' + 2 * i' = 1 + 2 * Window(request)
    BY <1>1, <1>2, <2>1
  <2>3. QED
    BY <1>1, <1>7, <2>2 DEF LadderUniform
<1>11. QED
  BY <1>1, <1>7, <1>8, <1>9, <1>10 DEF Core, LoopInv, StageInv, PowInv, SchoolbookInv

(* The last digit is consumed: x stands for the whole power.               *)
LEMMA MontgomeryAnswer ==
  ASSUME Core, pc \in {"square", "ladder"}, i = 0
  PROVE  MonPro(x, 1) = Pow(exp) /\ Pow(exp) \in Nat
<1>1. Montgomery /\ exp \in Nat /\ mod \in Nat
  BY InLoop
<1>2. exp \div Pow2[i] = exp
  BY <1>1, Pow2Def
<1>3. x = PowMont(exp)
  BY <1>2 DEF Core, LoopInv, LadderInv, PowInv
<1>4. QED
  BY <1>1, <1>3, Leaves, Forms

LEMMA KeepsMontgomeryReturn == ASSUME Core, MontgomeryReturn PROVE Core'
<1>1. /\ pc \in {"square", "ladder"} /\ pc' = "done" /\ i = 0 /\ answer' = MonPro(x, 1)
      /\ op_counter' = op_counter + 1 /\ UNCHANGED <<request, i, x, y>>
  BY DEF MontgomeryReturn
<1>2. Montgomery /\ TypeOK /\ op_counter \in Nat
  BY <1>1, InLoop
<1>3. answer' \in Nat
  BY <1>1, MontgomeryAnswer
<1>4. TypeOK'
  BY <1>1, <1>2, <1>3 DEF TypeOK
<1>5. LadderUniform'
  <2>1. CASE pc = "ladder"
    <3>1. op_counter = 1 + 2 * Window(request) /\ Window(request) \in Nat
      BY <1>1, <1>2, <2>1, WindowCovers DEF Core, LadderUniform
    <3>2. op_counter' = 2 + 2 * LargerOf(1, LargerOf(request.fixed, BitLength(exp)))
      BY <1>1, <1>2, <3>1, WindowCovers
    <3>3. LargerOf(1, LargerOf(request.fixed, BitLength(exp)))'
            = LargerOf(1, LargerOf(request.fixed, BitLength(exp)))
      BY <1>1 DEF exp, LargerOf
    <3>4. QED
      BY <1>1, <3>2, <3>3 DEF LadderUniform
  <2>2. CASE pc = "square"
    BY <1>1, <2>2 DEF Core, LoopInv, StageInv, LadderUniform
  <2>3. QED
    BY <1>1, <2>1, <2>2
<1>6. QED
  BY <1>1, <1>4, <1>5 DEF Core, LoopInv, StageInv, LadderInv, PowInv, SchoolbookInv

(* The invariant is inductive: one step per action.                        *)
LEMMA InductionStep == ASSUME Core, [Next]_vars PROVE Core'
<1>1. CASE UNCHANGED vars
  <2>1. UNCHANGED <<pc, request, i, x, y, op_counter, answer>>
    BY <1>1 DEF vars
  <2>2. exp' = exp /\ mod' = mod /\ base' = base
    BY <2>1 DEF exp, mod, base
  <2>3. QED
    BY <2>1, <2>2
       DEF Core, LoopInv, TypeOK, StageInv, LadderInv, PowInv, SchoolbookInv, LadderUniform,
           Refused, Window, LargerOf, TestBit, Pow, PowMont
<1>2. QED
  BY <1>1, KeepsRefuse, KeepsEnterSchoolbook, KeepsSchoolbookBit, KeepsSchoolbookReturn,
     KeepsEnterMontgomery, KeepsEnterTraced, KeepsSquare, KeepsMultiply, KeepsLadderBit,
     KeepsMontgomeryReturn DEF Next

-----------------------------------------------------------------------------
(* What square-and-multiply costs, and what its trace gives away.          *)

(* The set bits from place k on: none at the end, one more or as many at   *)
(* the place before.                                                       *)
LEMMA SetBitsCount ==
  ASSUME NEW e \in Nat
  PROVE  /\ BitLength(e) \in Nat
         /\ \A k \in Nat : Cardinality(SetBits(e, k)) \in Nat
         /\ Cardinality(SetBits(e, BitLength(e))) = 0
         /\ \A k \in Nat : k < BitLength(e) =>
              Cardinality(SetBits(e, k))
                = Cardinality(SetBits(e, k + 1)) + (IF TestBit(e, k) THEN 1 ELSE 0)
<1>1. PICK len \in Nat : len = BitLength(e)
  BY BitLengthBound
<1>2. \A k \in Nat : IsFiniteSet(SetBits(e, k))
  <2> SUFFICES ASSUME NEW k \in Nat PROVE IsFiniteSet(SetBits(e, k))
    OBVIOUS
  <2>1. IsFiniteSet(k..(len - 1))
    BY FS_Interval
  <2>2. SetBits(e, k) \subseteq k..(len - 1)
    BY <1>1 DEF SetBits
  <2>3. QED
    BY <2>1, <2>2, FS_Subset
<1>3. \A k \in Nat : Cardinality(SetBits(e, k)) \in Nat
  BY <1>2, FS_CardinalityType
<1>4. Cardinality(SetBits(e, len)) = 0
  <2>1. SetBits(e, len) = {}
    BY <1>1 DEF SetBits
  <2>2. QED
    BY <2>1, FS_EmptySet
<1>5. ASSUME NEW k \in Nat, k < len
      PROVE  Cardinality(SetBits(e, k))
               = Cardinality(SetBits(e, k + 1)) + (IF TestBit(e, k) THEN 1 ELSE 0)
  <2>1. IsFiniteSet(SetBits(e, k + 1)) /\ k \notin SetBits(e, k + 1)
    BY <1>2 DEF SetBits
  <2>2. CASE TestBit(e, k)
    <3>1. SetBits(e, k) = SetBits(e, k + 1) \cup {k}
      BY <1>1, <1>5, <2>2 DEF SetBits
    <3>2. Cardinality(SetBits(e, k + 1) \cup {k}) = Cardinality(SetBits(e, k + 1)) + 1
      BY <2>1, FS_AddElement
    <3>3. QED
      BY <2>2, <3>1, <3>2
  <2>3. CASE ~TestBit(e, k)
    <3>1. \A b \in k..(len - 1) : b = k \/ b \in (k + 1)..(len - 1)
      OBVIOUS
    <3>2. SetBits(e, k) = SetBits(e, k + 1)
      BY <1>1, <2>3, <3>1 DEF SetBits
    <3>3. Cardinality(SetBits(e, k + 1)) \in Nat
      BY <1>3
    <3>4. QED
      BY <2>3, <3>2, <3>3
  <2>4. QED
    BY <2>2, <2>3
<1>6. QED
  BY <1>1, <1>3, <1>4, <1>5

(* The recursion of Recovered.                                             *)
LEMMA RecoveredRec ==
  ASSUME NEW ops \in Seq({1, 2})
  PROVE  \E e \in [Nat -> Nat] :
           /\ e[0] = 0
           /\ \A k \in Nat : e[k+1] = 2 * e[k] + (IF ops[k+1] = 2 THEN 1 ELSE 0)
           /\ Recovered(ops) = e[Len(ops)]
<1> DEFINE digit(k) == IF ops[k] = 2 THEN 1 ELSE 0
           step == [k \in Nat |-> [v \in Nat |-> 2 * v + digit(k+1)]]
           rec == CHOOSE s : s = [k \in Nat |-> IF k = 0 THEN 0 ELSE 2 * s[k-1] + (IF ops[k] = 2 THEN 1 ELSE 0)]
<1>0. \A k \in Nat : digit(k) \in {0, 1}
  OBVIOUS
<1>1. PICK f : Recursion(Nat, 0, step, f)
  <2>1. step \in [Nat -> [Nat -> Nat]]
    <3> HIDE DEF digit
    <3>1. \A k \in Nat : k + 1 \in Nat
      OBVIOUS
    <3>2. \A k \in Nat, v \in Nat : 2 * v + digit(k+1) \in Nat
      BY <1>0, <3>1
    <3>3. QED
      BY <3>2
  <2>2. 0 \in Nat
    OBVIOUS
  <2> HIDE DEF step
  <2>3. QED
    BY <2>1, <2>2, PrimRec
<1>2. /\ f \in [Nat -> Nat] /\ f[0] = 0
      /\ \A k \in Nat : f[k+1] = 2 * f[k] + digit(k+1)
  <2>1. f \in [Nat -> Nat] /\ f[0] = 0 /\ \A k \in Nat : f[k+1] = step[k][f[k]]
    BY <1>1 DEF Recursion
  <2> HIDE DEF digit
  <2>2. QED
    BY <2>1
<1>3. f = [k \in Nat |-> IF k = 0 THEN 0 ELSE 2 * f[k-1] + (IF ops[k] = 2 THEN 1 ELSE 0)]
  <2>1. ASSUME NEW k \in Nat
        PROVE  f[k] = IF k = 0 THEN 0 ELSE 2 * f[k-1] + (IF ops[k] = 2 THEN 1 ELSE 0)
    <3>1. CASE k = 0
      BY <1>2, <3>1
    <3>2. CASE k # 0
      <4>1. k-1 \in Nat /\ k = (k-1)+1
        BY <3>2
      <4>2. f[(k-1)+1] = 2 * f[k-1] + digit((k-1)+1)
        BY <1>2, <4>1
      <4>3. QED
        BY <4>1, <4>2, <3>2
    <3>3. QED
      BY <3>1, <3>2
  <2>2. QED
    BY <2>1, <1>2
<1>4. rec = [k \in Nat |-> IF k = 0 THEN 0 ELSE 2 * rec[k-1] + (IF ops[k] = 2 THEN 1 ELSE 0)]
  BY <1>3, Zenon
<1>5. Recovered(ops) = rec[Len(ops)]
  BY Zenon DEF Recovered
<1> HIDE DEF rec
<1>6. \A k \in Nat : rec[k] = IF k = 0 THEN 0 ELSE 2 * rec[k-1] + digit(k)
  BY <1>4, Zenon
<1>7. rec[0] = 0 /\ \A k \in Nat : rec[k+1] = 2 * rec[k] + digit(k+1)
  <2> HIDE DEF digit
  <2>1. \A k \in Nat : k + 1 \in Nat /\ k + 1 # 0 /\ (k + 1) - 1 = k
    OBVIOUS
  <2>2. QED
    BY <1>6, <2>1
<1>8. \A k \in Nat : rec[k] \in Nat
  <2> DEFINE Q == {k \in Nat : rec[k] \in Nat}
  <2>1. 0 \in Q
    BY <1>7
  <2>2. \A k \in Q : k+1 \in Q
    <3> HIDE DEF digit
    <3> SUFFICES ASSUME NEW k \in Nat, rec[k] \in Nat PROVE rec[k+1] \in Nat
      OBVIOUS
    <3>1. PICK c \in {0, 1}, u \in Nat : c = digit(k+1) /\ u = rec[k]
      BY <1>0
    <3>2. rec[k+1] = 2 * u + c
      BY <1>7, <3>1
    <3>3. QED
      BY <3>1, <3>2
  <2>3. Q = Nat
    <3> HIDE DEF Q
    <3>1. Q \subseteq Nat
      BY DEF Q
    <3>2. QED
      BY <2>1, <2>2, <3>1, SetInduction
  <2>4. QED
    BY <2>3
<1>9. rec \in [Nat -> Nat]
  BY <1>4, <1>8, Zenon
<1>10. QED
  BY <1>5, <1>7, <1>9

(* A trace with an entry for every bit is read back as the exponent: after *)
(* k entries as what is to the left of the k-th.                           *)
LEMMA TraceRead ==
  ASSUME NEW v \in Nat, NEW ops \in Seq({1, 2}), Len(ops) = BitLength(v),
         \A b \in 1..Len(ops) : ops[b] = 2 <=> TestBit(v, BitLength(v) - b)
  PROVE  Recovered(ops) = v
<1>1. PICK len \in Nat : len = BitLength(v) /\ v < Pow2[len] /\ Len(ops) = len
  BY BitLengthBound
<1>2. PICK e \in [Nat -> Nat] :
        /\ e[0] = 0
        /\ \A k \in Nat : e[k+1] = 2 * e[k] + (IF ops[k+1] = 2 THEN 1 ELSE 0)
        /\ Recovered(ops) = e[len]
  BY <1>1, RecoveredRec
<1> DEFINE Q == {k \in Nat : k <= len => e[k] = v \div Pow2[len - k]}
<1>3. 0 \in Q
  <2>1. len \in Nat /\ v < Pow2[len]
    BY <1>1, Zenon
  <2>2. v \div Pow2[len] = 0
    BY <2>1, NothingLeft, Zenon
  <2>3. len - 0 = len /\ 0 \in Nat
    OBVIOUS
  <2>4. e[0] = v \div Pow2[len - 0]
    BY <1>2, <2>2, <2>3, Zenon
  <2>5. QED
    BY <2>3, <2>4, Zenon
<1>4. \A k \in Q : k + 1 \in Q
  <2> SUFFICES ASSUME NEW k \in Nat, k + 1 <= len, e[k] = v \div Pow2[len - k]
               PROVE  e[k+1] = v \div Pow2[len - (k+1)]
    OBVIOUS
  <2>1. PICK j \in Nat : j = len - (k+1) /\ j + 1 = len - k
    OBVIOUS
  <2>2. PICK low \in Nat, high \in Nat :
          /\ low = v \div Pow2[j] /\ high = v \div Pow2[j+1]
          /\ low = 2 * high + (low % 2) /\ low % 2 \in {0, 1}
    BY HalfOfQuotient, Zenon
  <2>3. ops[k+1] = 2 <=> low % 2 = 1
    <3>1. k + 1 \in 1..Len(ops) /\ BitLength(v) - (k+1) = j
      BY <1>1, <2>1
    <3>2. QED
      BY <2>2, <3>1 DEF TestBit
  <2>4. e[k+1] = 2 * high + (IF ops[k+1] = 2 THEN 1 ELSE 0)
    BY <1>2, <2>1, <2>2
  <2>5. e[k+1] = low
    BY <2>2, <2>3, <2>4
  <2>6. QED
    BY <2>1, <2>2, <2>5
<1>5. Q = Nat
  <2> HIDE DEF Q
  <2>1. Q \subseteq Nat
    BY DEF Q
  <2>2. QED
    BY <1>3, <1>4, <2>1, SetInduction
<1>6. e[len] = v \div Pow2[0]
  <2>1. len - len = 0 /\ len <= len
    OBVIOUS
  <2>2. e[len] = v \div Pow2[len - len]
    BY <1>5, <2>1, Zenon
  <2>3. QED
    BY <2>1, <2>2, Zenon
<1>7. QED
  BY <1>2, <1>6, Pow2Def

(* What Spent says of an exponent, a trace and a count.                    *)
SpentOn(e, alg, tr, ops, k) ==
  /\ k <= BitLength(e)
  /\ ops = (IF alg = "traced" THEN 2 ELSE 1)
             + (BitLength(e) - k) + Cardinality(SetBits(e, k))
  /\ alg = "traced" =>
       /\ Len(tr) = BitLength(e) - k
       /\ \A b \in 1..Len(tr) : tr[b] = 2 <=> TestBit(e, BitLength(e) - b)

(* The next bit costs one product, or two if it is set.                    *)
LEMMA OneBitMore ==
  ASSUME NEW e \in Nat, NEW alg, NEW tr \in Seq({1, 2}), NEW ops \in Int, NEW k \in Nat,
         SpentOn(e, alg, tr, ops, k + 1),
         NEW cost \in {1, 2}, cost = 2 <=> TestBit(e, k),
         NEW tr2, tr2 = IF alg = "traced" THEN Append(tr, cost) ELSE tr
  PROVE  SpentOn(e, alg, tr2, ops + cost, k) /\ tr2 \in Seq({1, 2})
<1>1. PICK len \in Nat : len = BitLength(e)
  BY SetBitsCount
<1>2. k + 1 <= len /\ k + 1 \in Nat
  BY <1>1 DEF SpentOn
<1>3. PICK few \in Nat, more \in Nat :
        /\ few = Cardinality(SetBits(e, k + 1)) /\ more = Cardinality(SetBits(e, k))
        /\ more = few + (IF TestBit(e, k) THEN 1 ELSE 0)
  <2>1. \A l \in Nat : Cardinality(SetBits(e, l)) \in Nat
    BY SetBitsCount
  <2>2. Cardinality(SetBits(e, k + 1)) \in Nat /\ Cardinality(SetBits(e, k)) \in Nat
    BY <1>2, <2>1, Zenon
  <2>3. k < BitLength(e)
    BY <1>1, <1>2
  <2>4. Cardinality(SetBits(e, k))
          = Cardinality(SetBits(e, k + 1)) + (IF TestBit(e, k) THEN 1 ELSE 0)
    BY <2>3, SetBitsCount
  <2>5. QED
    BY <2>2, <2>4, Zenon
<1>4. few + cost = more + 1
  BY <1>3
<1>5. ops + cost = (IF alg = "traced" THEN 2 ELSE 1) + (len - k) + more
  <2>1. ops = (IF alg = "traced" THEN 2 ELSE 1) + (len - (k + 1)) + few
    BY <1>1, <1>3 DEF SpentOn
  <2>2. QED
    BY <1>4, <2>1
<1>6. tr2 \in Seq({1, 2})
  OBVIOUS
<1>7. ASSUME alg = "traced"
      PROVE  /\ Len(tr2) = len - k
             /\ \A b \in 1..Len(tr2) : tr2[b] = 2 <=> TestBit(e, len - b)
  <2>1. /\ Len(tr) = len - (k + 1)
        /\ \A b \in 1..Len(tr) : tr[b] = 2 <=> TestBit(e, len - b)
    BY <1>1, <1>7 DEF SpentOn
  <2>2. /\ Len(tr2) = Len(tr) + 1 /\ tr2[Len(tr) + 1] = cost
        /\ \A b \in 1..Len(tr) : tr2[b] = tr[b]
    BY <1>7
  <2>3. ASSUME NEW b \in 1..Len(tr2) PROVE tr2[b] = 2 <=> TestBit(e, len - b)
    <3>1. CASE b \in 1..Len(tr)
      BY <2>1, <2>2, <3>1
    <3>2. CASE b = Len(tr) + 1
      <4>1. len - b = k
        BY <1>2, <2>1, <3>2
      <4>2. QED
        BY <2>2, <3>2, <4>1
    <3>3. QED
      BY <2>2, <3>1, <3>2
  <2>4. QED
    BY <1>2, <2>1, <2>2, <2>3
<1>8. SpentOn(e, alg, tr2, ops + cost, k)
  <2>1. k <= BitLength(e)
    BY <1>1, <1>2
  <2>2. ops + cost = (IF alg = "traced" THEN 2 ELSE 1)
                       + (BitLength(e) - k) + Cardinality(SetBits(e, k))
    BY <1>1, <1>3, <1>5, Zenon
  <2>3. alg = "traced" =>
          /\ Len(tr2) = BitLength(e) - k
          /\ \A b \in 1..Len(tr2) : tr2[b] = 2 <=> TestBit(e, BitLength(e) - b)
    BY <1>1, <1>7, Zenon
  <2>4. QED
    BY <2>1, <2>2, <2>3, Zenon DEF SpentOn
<1>9. QED
  BY <1>6, <1>8

Counted == CountInv /\ PowCount

LEMMA CountsInit == ASSUME Init PROVE Counted
BY DEF Init, Counted, CountInv, PowCount

(* A step that neither enters nor leaves a loop of square-and-multiply.    *)
LEMMA CountsElsewhere ==
  ASSUME CountInv, trace' = trace,
         \/ pc' \in {"schoolbook", "ladder"}
         \/ pc' = "done" /\ (answer' = -1 \/ request'.alg \in {"schoolbook", "pow_ct"})
  PROVE  Counted'
BY DEF Counted, CountInv, PowCount

LEMMA CountsEntry == ASSUME Core, Counted, EnterMontgomery \/ EnterTraced PROVE Counted'
<1>1. /\ pc = "enter" /\ request' = request /\ trace' = trace /\ trace = <<>> /\ op_counter = 0
      /\ exp' = exp /\ exp \in Nat
  BY Arguments DEF Core, LoopInv, StageInv, Counted, CountInv, EnterMontgomery, EnterTraced, exp
<1>2. CASE pc' = "ladder"
  BY <1>1, <1>2, CountsElsewhere DEF Counted
<1>3. CASE pc' = "square"
  <2>1. PICK len \in Nat : len = BitLength(exp) /\ Cardinality(SetBits(exp, len)) = 0
    BY <1>1, SetBitsCount
  <2>2. /\ i' = len
        /\ op_counter' = IF request.alg = "traced" THEN 2 ELSE 1
    BY <1>1, <1>3, <2>1 DEF EnterMontgomery, EnterTraced
  <2>3. SpentOn(exp, request.alg, <<>>, IF request.alg = "traced" THEN 2 ELSE 1, len)
    BY <2>1 DEF SpentOn
  <2>4. Spent(op_counter, i)'
    BY <1>1, <2>1, <2>2, <2>3 DEF Spent, SpentOn
  <2>5. trace' \in Seq({1, 2})
    BY <1>1
  <2>6. QED
    BY <1>3, <2>4, <2>5 DEF Counted, CountInv, PowCount
<1>4. QED
  BY <1>2, <1>3 DEF EnterMontgomery, EnterTraced

LEMMA CountsSquare == ASSUME Core, Counted, Square PROVE Counted'
<1>1. /\ pc = "square" /\ request' = request /\ exp' = exp /\ i' = i - 1 /\ i > 0
      /\ op_counter' = op_counter + 1
      /\ TestBit(exp, i - 1) => pc' = "multiply" /\ trace' = trace
      /\ ~TestBit(exp, i - 1) => pc' = "square" /\ trace' = Traced(1)
  BY DEF Square, Multiplies, exp
<1>2. /\ exp \in Nat /\ i \in Nat /\ op_counter \in Nat /\ trace \in Seq({1, 2})
      /\ Spent(op_counter, i)
  BY <1>1, InLoop DEF Counted, CountInv
<1>3. i - 1 \in Nat /\ (i - 1) + 1 = i /\ (op_counter + 1) - 1 = op_counter
  BY <1>1, <1>2
<1>4. CASE TestBit(exp, i - 1)
  <2>1. i' + 1 = i /\ op_counter' - 1 = op_counter
    BY <1>1, <1>3
  <2>2. Spent(op_counter - 1, i + 1)'
    BY <1>1, <1>2, <1>4, <2>1 DEF Spent
  <2>3. QED
    BY <1>1, <1>2, <1>4, <2>2 DEF Counted, CountInv, PowCount
<1>5. CASE ~TestBit(exp, i - 1)
  <2>1. trace' = IF request.alg = "traced" THEN Append(trace, 1) ELSE trace
    BY <1>1, <1>5 DEF Traced
  <2>2. SpentOn(exp, request.alg, trace, op_counter, (i - 1) + 1)
    BY <1>2, <1>3 DEF Spent, SpentOn
  <2>3. SpentOn(exp, request.alg, trace', op_counter + 1, i - 1) /\ trace' \in Seq({1, 2})
    <3>1. PICK k \in Nat : k = i - 1
      BY <1>3
    <3>2. 1 \in {1, 2} /\ (1 = 2 <=> TestBit(exp, k)) /\ op_counter \in Int
      BY <1>2, <1>5, <3>1
    <3>3. SpentOn(exp, request.alg, trace, op_counter, k + 1)
      BY <2>2, <3>1
    <3>4. SpentOn(exp, request.alg, trace', op_counter + 1, k) /\ trace' \in Seq({1, 2})
      BY <1>2, <2>1, <3>2, <3>3, OneBitMore
    <3>5. QED
      BY <3>1, <3>4
  <2>4. Spent(op_counter, i)'
    BY <1>1, <2>3 DEF Spent, SpentOn
  <2>5. QED
    BY <1>1, <1>5, <2>3, <2>4 DEF Counted, CountInv, PowCount
<1>6. QED
  BY <1>4, <1>5

LEMMA CountsMultiply == ASSUME Core, Counted, Multiply PROVE Counted'
<1>1. /\ pc = "multiply" /\ pc' = "square" /\ request' = request /\ exp' = exp /\ i' = i
      /\ op_counter' = op_counter + 1 /\ TestBit(exp, i)
      /\ trace' = IF request.alg = "traced" THEN Append(trace, 2) ELSE trace
  BY DEF Multiply, Traced, Core, LoopInv, StageInv, exp
<1>2. /\ exp \in Nat /\ i \in Nat /\ op_counter \in Nat /\ trace \in Seq({1, 2})
      /\ SpentOn(exp, request.alg, trace, op_counter - 1, i + 1)
  BY <1>1, InLoop DEF Counted, CountInv, Spent, SpentOn
<1>3. op_counter - 1 \in Int /\ (op_counter - 1) + 2 = op_counter'
  BY <1>1, <1>2
<1>4. SpentOn(exp, request.alg, trace', (op_counter - 1) + 2, i) /\ trace' \in Seq({1, 2})
  BY <1>1, <1>2, <1>3, OneBitMore
<1>5. Spent(op_counter, i)'
  BY <1>1, <1>3, <1>4 DEF Spent, SpentOn
<1>6. QED
  BY <1>1, <1>4, <1>5 DEF Counted, CountInv, PowCount

(* All bits are spent; leaving the domain is one more product.             *)
LEMMA CountsReturn == ASSUME Core, Counted, MontgomeryReturn PROVE Counted'
<1>1. /\ pc \in {"square", "ladder"} /\ pc' = "done" /\ i = 0 /\ request' = request
      /\ exp' = exp /\ op_counter' = op_counter + 1 /\ trace' = trace
  BY DEF MontgomeryReturn, exp
<1>2. exp \in Nat /\ op_counter \in Nat /\ trace \in Seq({1, 2})
  BY <1>1, InLoop DEF Counted, CountInv
<1>3. CASE pc = "ladder"
  BY <1>1, <1>3, CountsElsewhere DEF Core, LoopInv, StageInv, Counted
<1>4. CASE pc = "square"
  <2>1. PICK len \in Nat, w \in Nat : len = BitLength(exp) /\ w = Cardinality(SetBits(exp, 0))
    BY <1>2, SetBitsCount
  <2>2. Spent(op_counter, 0)
    BY <1>1, <1>4 DEF Counted, CountInv
  <2>3. op_counter + 1 = (IF request.alg = "traced" THEN 3 ELSE 2) + len + w
    BY <2>1, <2>2 DEF Spent
  <2>4. ASSUME request.alg = "traced" PROVE Len(trace) = len /\ Recovered(trace) = exp
    <3>1. Len(trace) = len /\ \A b \in 1..Len(trace) : trace[b] = 2 <=> TestBit(exp, len - b)
      BY <2>1, <2>2, <2>4 DEF Spent
    <3>2. QED
      BY <1>2, <2>1, <3>1, TraceRead
  <2>5. /\ request'.alg = "pow" => op_counter' = 2 + BitLength(exp') + Weight(exp')
        /\ request'.alg = "traced" => /\ op_counter' = 3 + BitLength(exp') + Weight(exp')
                                      /\ Len(trace') = BitLength(exp')
                                      /\ Recovered(trace') = exp'
    BY <1>1, <2>1, <2>3, <2>4 DEF Weight
  <2>6. PowCount'
    BY <2>5 DEF PowCount
  <2>7. QED
    BY <1>1, <1>2, <2>6 DEF Counted, CountInv
<1>5. QED
  BY <1>1, <1>3, <1>4

LEMMA CountsStep == ASSUME Core, Counted, [Next]_vars PROVE Counted'
<1>1. CASE UNCHANGED vars
  BY <1>1 DEF vars, Counted, CountInv, Spent, PowCount, exp
<1>2. CASE Refuse \/ EnterSchoolbook \/ SchoolbookBit \/ SchoolbookReturn \/ LadderBit
  <2>1. /\ trace' = trace
        /\ \/ pc' \in {"schoolbook", "ladder"}
           \/ pc' = "done" /\ (answer' = -1 \/ request'.alg \in {"schoolbook", "pow_ct"})
    BY <1>2 DEF Refuse, EnterSchoolbook, SchoolbookBit, SchoolbookReturn, LadderBit,
                Core, LoopInv, StageInv
  <2>2. QED
    BY <2>1, CountsElsewhere DEF Counted
<1>3. QED
  BY <1>1, <1>2, CountsEntry, CountsSquare, CountsMultiply, CountsReturn DEF Next

-----------------------------------------------------------------------------
(* The results.                                                            *)

(* The loops keep the powers their registers stand for, and the counts and *)
(* the trace what has been done: modexp.cpp:12-17, montgomery.cpp:131-138  *)
(* and 154-166, timing_attack.cpp:46-70.                                   *)
THEOREM Inductive == Spec => []IInv
<1>1. Init => Core /\ Counted
  BY KeepsInit, CountsInit
<1>2. Core /\ Counted /\ [Next]_vars => Core' /\ Counted'
  BY InductionStep, CountsStep
<1>3. Core /\ Counted => IInv
  BY DEF Core, Counted, IInv
<1>4. QED
  BY <1>1, <1>2, <1>3, PTL DEF Spec

(* modexp.cpp:12-17, montgomery.cpp:131-138 and 154-166: in every loop the *)
(* registers stand for the power of the digits already read.               *)
THEOREM LoopsCorrect == Spec => []LoopInv
<1>1. IInv => LoopInv
  BY DEF IInv
<1>2. QED
  BY <1>1, Inductive, PTL

(* docs/constant-time.md:45-56: the number of products pow_ct computes is  *)
(* a function of the window alone.                                         *)
THEOREM LadderConstant == Spec => []LadderUniform
<1>1. IInv => LadderUniform
  BY DEF IInv
<1>2. QED
  BY <1>1, Inductive, PTL

(* montgomery.cpp:129-143, timing_attack.cpp:46-70: the operation count of *)
(* square-and-multiply gives away the Hamming weight of every exponent,    *)
(* and the laboratory's trace the whole of it.                             *)
THEOREM CountLeaks == Spec => []PowCount
<1>1. IInv => PowCount
  BY DEF IInv
<1>2. QED
  BY <1>1, Inductive, PTL

(* A step that does not end the routine is a stutter of ModPow.            *)
LEMMA AnswersInner ==
  ASSUME pc # "done", pc' # "done", request' = request, answer' = answer
  PROVE  UNCHANGED P!vars
BY DEF P!vars

(* ModPow's power is this one.                                             *)
LEMMA SamePower == P!Power(base, exp, mod) = Pow(exp)
BY Zenon DEF P!Power, Power, Pow

LEMMA AnswersStep == ASSUME Core, [Next]_vars PROVE [P!Reply]_(P!vars)
<1> SUFFICES P!Reply \/ UNCHANGED P!vars
  OBVIOUS
<1>1. request \in Requests /\ mod \in Nat
  BY Arguments DEF Core, LoopInv, TypeOK
<1>2. CASE Refuse
  <2>1. P!Answer(request) = -1
    BY <1>1, <1>2 DEF Refuse, Refused, P!Answer, P!Accepted, mod
  <2>2. QED
    BY <1>2, <2>1 DEF Refuse, P!Reply
<1>3. CASE SchoolbookReturn
  <2>1. /\ pc = "schoolbook" /\ pc' = "done" /\ i = BitLength(exp) /\ answer' = x % mod
        /\ request' = request /\ request.alg = "schoolbook"
    BY <1>3 DEF SchoolbookReturn, Collapse, Core, LoopInv, StageInv
  <2>2. answer' = Pow(exp) /\ mod # 0
    BY <2>1, SchoolbookAnswer
  <2>3. answer' = P!Answer(request)
    BY <2>1, <2>2, SamePower DEF P!Answer, P!Accepted, base, exp, mod
  <2>4. QED
    BY <2>1, <2>3 DEF P!Reply
<1>4. CASE MontgomeryReturn
  <2>1. /\ pc \in {"square", "ladder"} /\ pc' = "done" /\ i = 0 /\ answer' = MonPro(x, 1)
        /\ request' = request
    BY <1>4 DEF MontgomeryReturn
  <2>2. answer' = Pow(exp) /\ Montgomery
    BY <2>1, MontgomeryAnswer, InLoop
  <2>3. P!Accepted(request)
    BY <2>2, OddModulus DEF P!Accepted, Montgomery, mod
  <2>4. answer' = P!Answer(request)
    BY <2>2, <2>3, SamePower DEF P!Answer, base, exp, mod
  <2>5. QED
    BY <2>1, <2>4 DEF P!Reply
<1>5. CASE EnterSchoolbook \/ SchoolbookBit \/ EnterMontgomery \/ EnterTraced
             \/ Square \/ Multiply \/ LadderBit
  <2>1. pc # "done" /\ pc' # "done" /\ request' = request /\ answer' = answer
    BY <1>5 DEF EnterSchoolbook, SchoolbookBit, EnterMontgomery, EnterTraced, Square,
                Multiply, LadderBit
  <2>2. QED
    BY <2>1, AnswersInner
<1>6. CASE UNCHANGED vars
  BY <1>6 DEF vars, P!vars
<1>7. QED
  BY <1>2, <1>3, <1>4, <1>5, <1>6 DEF Next

(* modexp.hpp:16-27: schoolbook, square-and-multiply, ladder and the       *)
(* laboratory's copy all return base^exp mod m, or refuse the modulus.     *)
THEOREM Refinement == Spec => ModPowSpec
<1>1. Init => P!Init
  BY DEF Init, P!Init
<1>2. IInv /\ [Next]_vars => [P!Reply]_(P!vars)
  BY AnswersStep DEF IInv, Core
<1>3. QED
  BY <1>1, <1>2, Inductive, PTL DEF Spec, ModPowSpec, P!Spec
=============================================================================
