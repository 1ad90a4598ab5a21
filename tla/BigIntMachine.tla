---------------------------- MODULE BigIntMachine ----------------------------
(***************************************************************************)
(* A program that works with BigInt variables: every operation of          *)
(* bigint.cpp that makes a number, in any order and with any aliasing of   *)
(* target and operands, and the loops of gcd and mod_inverse one division  *)
(* a step.  An operation returns a new vector, which is then moved into    *)
(* its target; operands are constant references.                           *)
(***************************************************************************)
EXTENDS BigInt

CONSTANTS
  Regs,     \* the program's BigInt variables
  Limit,    \* bound: only results below it are stored
  Vectors,  \* the limb vectors passed to the constructor, not all normalised
  Texts,    \* digit strings passed to the constructors, leading zeros included
  Shifts    \* shift counts

ASSUME MachineAssumption ==
  /\ Limit \in Nat \ {0} /\ Limit <= BPow[S]
  /\ Regs # {} /\ Shifts \subseteq Nat
  /\ Vectors \subseteq Seq(Word) /\ Texts \subseteq Seq(0..X)

VARIABLES
  reg,              \* reg[x]: limbs_ of variable x
  thrown,           \* the last operation threw an exception
  pc,               \* the loop being executed, or "idle"
  call,             \* its target and operands
  old_r, r,         \* remainders (x and y of gcd)
  old_s, s          \* signed coefficients of mod_inverse

locals == <<old_r, r, old_s, s>>
vars   == <<reg, thrown, pc, call, old_r, r, old_s, s>>

Calls  == [d : Regs, a : Regs, b : Regs]
NoCall == CHOOSE c \in Calls : TRUE
Fits(x) == Number(x) < Limit

Init ==
  /\ reg = [x \in Regs |-> Zero] /\ thrown = FALSE
  /\ pc = "idle" /\ call = NoCall
  /\ old_r = Zero /\ r = Zero /\ old_s = SZero /\ s = SZero

Store(d, result) ==
  /\ \E x \in {result} : Fits(x) /\ reg' = [reg EXCEPT ![d] = x]
  /\ thrown' = FALSE
Throw == thrown' = TRUE /\ UNCHANGED reg
Idle  == pc = "idle" /\ UNCHANGED <<pc, call, locals>>

(* A returning loop leaves no local behind.                                *)
Leave ==
  /\ pc' = "idle" /\ call' = NoCall
  /\ old_r' = Zero /\ r' = Zero /\ old_s' = SZero /\ s' = SZero

Adopt(d, v)     == Idle /\ Store(d, Normal(v))
ParseHex(d, t)  == Idle /\ IF FromHex(t) = <<>> THEN Throw ELSE Store(d, FromHex(t))
ReadBytes(d, t) == Idle /\ X \notin Range(t) /\ Store(d, FromDigits(t))
AddTo(d, a, b)  == Idle /\ Store(d, Add(reg[a], reg[b]))
SubTo(d, a, b)  == Idle /\ IF Compare(reg[a], reg[b]) < 0 THEN Throw
                           ELSE Store(d, Sub(reg[a], reg[b]))
MulTo(d, a, b)  == Idle /\ Store(d, Mul(reg[a], reg[b]))
DivTo(d, a, b)  == Idle /\ IF IsZero(reg[b]) THEN Throw
                           ELSE Store(d, DivMod(reg[a], reg[b]).q)
ModTo(d, a, b)  == Idle /\ IF IsZero(reg[b]) THEN Throw
                           ELSE Store(d, DivMod(reg[a], reg[b]).r)
DivModTo(q, e, a, b) ==
  /\ Idle
  /\ IF IsZero(reg[b]) THEN Throw
     ELSE reg' = DivModInto(reg, a, b, q, e) /\ thrown' = FALSE
ShlTo(d, a, k)  == Idle /\ Store(d, Shl(reg[a], k))
ShrTo(d, a, k)  == Idle /\ Store(d, Shr(reg[a], k))

(* gcd copies its operands and divides until the remainder is 0.           *)
EnterGcd(c) ==
  /\ pc = "idle"
  /\ pc' = "gcd" /\ call' = c
  /\ old_r' = reg[c.a] /\ r' = reg[c.b]
  /\ thrown' = FALSE /\ UNCHANGED <<reg, old_s, s>>
GcdStep ==
  /\ pc = "gcd" /\ ~IsZero(r)
  /\ old_r' = r /\ r' = DivMod(old_r, r).r
  /\ UNCHANGED <<reg, thrown, pc, call, old_s, s>>
GcdReturn ==
  /\ pc = "gcd" /\ IsZero(r)
  /\ Store(call.d, old_r)
  /\ Leave

(* mod_inverse: the Bezout coefficient of a goes along with the remainder. *)
EnterInverse(c) ==
  /\ pc = "idle"
  /\ call' = c
  /\ IF IsZero(reg[c.b]) \/ reg[c.b] = One
     THEN Throw /\ UNCHANGED <<pc, locals>>
     ELSE /\ pc' = "inverse"
          /\ old_r' = DivMod(reg[c.a], reg[c.b]).r /\ r' = reg[c.b]
          /\ old_s' = Signed(FALSE, One) /\ s' = SZero
          /\ thrown' = FALSE /\ UNCHANGED reg

InverseStep ==
  /\ pc = "inverse" /\ ~IsZero(r)
  /\ \E qr \in {DivMod(old_r, r)} : \E part \in {SMul(s, qr.q)} :
       r' = qr.r /\ s' = SSub(old_s, part)
  /\ old_r' = r /\ old_s' = s
  /\ UNCHANGED <<reg, thrown, pc, call>>

(* The coefficient is reduced and folded into [0, m).                      *)
\* faulty variant of the next definition
Unfolded(m, res) == res
Folded(m, res)   == IF old_s.neg /\ ~IsZero(res) THEN Sub(m, res) ELSE res
InverseReturn ==
  /\ pc = "inverse" /\ IsZero(r)
  /\ IF old_r # One THEN Throw
     ELSE \E res \in {DivMod(old_s.mag, reg[call.b]).r} :
            Store(call.d, Folded(reg[call.b], res))
  /\ Leave

Loop == GcdStep \/ GcdReturn \/ InverseStep \/ InverseReturn

Next ==
  \/ \E d \in Regs :
       \/ \E v \in Vectors : Adopt(d, v)
       \/ \E t \in Texts : ParseHex(d, t) \/ ReadBytes(d, t)
  \/ \E d, a, b \in Regs :
       \/ AddTo(d, a, b) \/ SubTo(d, a, b) \/ MulTo(d, a, b)
       \/ DivTo(d, a, b) \/ ModTo(d, a, b)
       \/ \E e \in Regs : DivModTo(d, e, a, b)
  \/ \E d, a \in Regs, k \in Shifts : ShlTo(d, a, k) \/ ShrTo(d, a, k)
  \/ \E c \in Calls : EnterGcd(c) \/ EnterInverse(c)
  \/ Loop

Spec == Init /\ [][Next]_vars

(* Sequential code: a loop that was entered is not abandoned.              *)
FairSpec == Spec /\ WF_vars(Loop)

-----------------------------------------------------------------------------
(* Every vector is normalised, the locals of the loops included, and no    *)
(* signed zero is negative.                                                *)
Normalised(x) ==
  /\ x \in Seq(Word) /\ Len(x) \in 1..S
  /\ Len(x) > 1 => x[Len(x)] # 0
TypeOK ==
  /\ reg \in [Regs -> Seq(Word)] /\ \A x \in Regs : Normalised(reg[x])
  /\ thrown \in BOOLEAN /\ pc \in {"idle", "gcd", "inverse"}
  /\ call \in Calls
  /\ Normalised(old_r) /\ Normalised(r)
  /\ \A z \in {old_s, s} : /\ z \in [neg : BOOLEAN, mag : Seq(Word)]
                           /\ Normalised(z.mag) /\ (z.neg => ~IsZero(z.mag))

(* What the constant operations report of the numbers in the variables:    *)
(* comparison, length, bits, padding, and text and bytes that denote the   *)
(* same number, with no leading zero but the zeros asked for.              *)
DigitValue(ds, base) ==
  LET value[k \in Nat] == IF k \in DOMAIN ds THEN value[k-1] * base + ds[k] ELSE 0
  IN  value[Len(ds)]
Shortest(ds) == Len(ds) = 1 \/ ds[1] # 0
CompareRight(x, y) ==
  Compare(x, y) = (IF Number(x) < Number(y) THEN -1
                   ELSE IF Number(x) = Number(y) THEN 0 ELSE 1)
BitsRight(x) ==
  /\ Number(x) < Pow2[NumBits(x)] /\ (NumBits(x) > 0 => Number(x) >= Pow2[NumBits(x)-1])
  /\ \A k \in 0..(W * S) : TestBit(x, k) <=> (Number(x) \div Pow2[k]) % 2 = 1
TextRight(x) ==
  /\ Shortest(ToHex(x)) /\ DigitValue(ToHex(x), Pow2[DigitBits]) = Number(x)
  /\ Shortest(ToDec(x)) /\ DigitValue(ToDec(x), Ten) = Number(x)
  /\ \A k \in DOMAIN ToDec(x) : ToDec(x)[k] \in 0..(Ten-1)
  /\ \A size \in 0..(S * Per) :
       IF size > 0 /\ Number(x) >= Pow2[DigitBits * size] THEN ToBytes(x, size) = <<>>
       ELSE /\ DigitValue(ToBytes(x, size), Pow2[DigitBits]) = Number(x)
            /\ Len(ToBytes(x, size)) > 0 /\ (size > 0 => Len(ToBytes(x, size)) = size)
  /\ FromHex(ToHex(x)) = x /\ FromDigits(ToBytes(x, 0)) = x
  /\ FromHex(<<0, X>> \o ToHex(x)) = x /\ FromHex(<<0, X>>) = <<>>
  /\ ToU64(x) = IF Number(x) < B * B THEN Number(x) ELSE -1
ObserversRight ==
  pc = "idle" => /\ \A x, y \in Regs : CompareRight(reg[x], reg[y])
                 /\ \A x \in Regs : BitsRight(reg[x]) /\ TextRight(reg[x])

(* Addition, subtraction, multiplication, division and shifts of the       *)
(* numbers in the variables give the number they name, normalised: carries *)
(* and borrows reach the last limb, shifts by whole limbs included.  The   *)
(* public divmod is right whatever its outputs alias, with two exceptions: *)
(* one variable for both, and a quotient written over a dividend that is   *)
(* below the divisor, which loses the remainder.                           *)
ResultRight(x, v) == Number(x) = v /\ Normal(x) = x
PairRight(x, y) ==
  LET a == Number(x)
      b == Number(y)
  IN  /\ ResultRight(Add(x, y), a + b)
      /\ a >= b => ResultRight(Sub(x, y), a - b)
      /\ ResultRight(Mul(x, y), a * b)
      /\ b > 0 => /\ ResultRight(DivMod(x, y).q, a \div b)
                  /\ ResultRight(DivMod(x, y).r, a % b)
ShiftsRight(x, k) ==
  /\ ResultRight(Shl(x, k), Number(x) * Pow2[k])
  /\ ResultRight(Shr(x, k), Number(x) \div Pow2[k])
DivModRight(q, e, a, d) ==
  LET after == DivModInto(reg, a, d, q, e)
  IN  q # e /\ Number(reg[d]) > 0 =>
        /\ Number(after[q]) = Number(reg[a]) \div Number(reg[d])
        /\ q # a \/ Number(reg[a]) >= Number(reg[d]) =>
             Number(after[e]) = Number(reg[a]) % Number(reg[d])
ArithmeticRight ==
  pc = "idle" => /\ \A x, y \in Regs : PairRight(reg[x], reg[y])
                 /\ \A q, e, a, d \in Regs : DivModRight(q, e, a, d)
                 /\ \A x \in Regs, k \in Shifts : ShiftsRight(reg[x], k)

(* The greatest common divisor; that of 0 and 0 is 0.                      *)
Gcd(a, b) ==
  IF a = 0 /\ b = 0 THEN 0
  ELSE Max({k \in 1..Max({a, b}) : a % k = 0 /\ b % k = 0})

(* bigint.cpp:276-287: the gcd of the remainders stays that of the         *)
(* operands, each remainder is its coefficient times a modulo m, and the   *)
(* coefficients never outgrow m.                                           *)
Integer(z) == IF z.neg THEN 0 - Number(z.mag) ELSE Number(z.mag)
Operand(name) == Number(reg[call[name]])
EuclidInv ==
  /\ pc # "idle" => Gcd(Number(old_r), Number(r)) = Gcd(Operand("a"), Operand("b"))
  /\ pc = "inverse" =>
       \A pair \in {<<old_s, old_r>>, <<s, r>>} :
         /\ (Integer(pair[1]) * Operand("a") - Number(pair[2])) % Operand("b") = 0
         /\ Number(pair[1].mag) <= Operand("b")

(* What makes them inductive.  The determinant of the two coefficients and *)
(* remainders keeps its value, the modulus, and their signs alternate, so  *)
(* that the products add up; that bounds each by the modulus, and with it  *)
(* the limbs it takes.                                                     *)
Determinant ==
  Number(old_s.mag) * Number(r) + Number(s.mag) * Number(old_r) = Operand("b")
Alternating == IsZero(old_s.mag) \/ IsZero(s.mag) \/ old_s.neg # s.neg
CoefficientInv ==
  pc = "inverse" => Operand("b") > 1 /\ Determinant /\ Alternating
IInv ==
  /\ TypeOK /\ EuclidInv /\ CoefficientInv
  /\ \A x \in Regs : Fits(reg[x])
  /\ pc # "idle" => Fits(old_r) /\ Fits(r)

(* A loop that returns leaves in its target the greatest common divisor,   *)
(* or the inverse below m; mod_inverse throws exactly when there is none   *)
(* (bigint.cpp:288-290), and nothing but the target changes.               *)
Inverts(v) == v < Operand("b") /\ (v * Operand("a")) % Operand("b") = 1
Returned ==
  \/ /\ thrown' /\ pc = "inverse"
     /\ Gcd(Operand("a"), Operand("b")) # 1 /\ reg' = reg
  \/ /\ ~thrown'
     /\ IF pc = "gcd" THEN Number(reg'[call.d]) = Gcd(Operand("a"), Operand("b"))
                      ELSE Inverts(Number(reg'[call.d]))
     /\ \A x \in Regs \ {call.d} : reg'[x] = reg[x]
ReturnsRight == [][pc # "idle" /\ pc' = "idle" => Returned]_vars

(* gcd and mod_inverse return.                                             *)
LoopEnds == (pc # "idle") ~> (pc = "idle")
=============================================================================
