-------------------------------- MODULE ModExp --------------------------------
(***************************************************************************)
(* The exponentiation routines (modexp.cpp, Montgomery::pow, pow_ct, and   *)
(* the laboratory's pow with its trace of operations, which goes through   *)
(* the BigInt interface), one loop iteration a step.  Numbers are whole    *)
(* here: a MonPro is the product MontMul promises and MonPro implements    *)
(* limb by limb, and the context's constants are the ones MontgomerySetup  *)
(* establishes.  Every call of monpro is counted, as the op_counter hook   *)
(* does for the laboratory and the tests.                                  *)
(***************************************************************************)
EXTENDS Numbers, FiniteSets, Sequences

CONSTANTS
  Radix,                      \* a Montgomery radix for every modulus used
  Bases, Exps, Mods, Fixeds   \* the arguments asked for

ASSUME ArgumentsAssumption ==
  /\ Radix \in Nat /\ (\E k \in 0..Radix : Radix = Pow2[k]) /\ \A x \in Mods : x < Radix
  /\ Bases \subseteq Nat /\ Exps \subseteq Nat /\ Mods \subseteq Nat
  /\ Fixeds \subseteq Nat

Algorithms == {"schoolbook", "pow", "pow_ct", "traced"}
Requests == [alg : Algorithms, base : Bases, exp : Exps, mod : Mods, fixed : Fixeds]

VARIABLES
  pc,       \* what the routine is doing
  request,  \* its arguments
  i,        \* loop counter: bits still to do, or done for the schoolbook
  x, y,     \* result and cur; r and b; R0 and R1
  op_counter,
  trace,    \* the laboratory's: operations done for each bit
  answer    \* the number returned, -1 after an exception

vars == <<pc, request, i, x, y, op_counter, trace, answer>>

base == request.base
exp  == request.exp
mod  == request.mod

TestBit(e, k) == (e \div Pow2[k]) % 2 = 1

(* MonPro, Radix mod N, Radix^2 mod N and the conversion, for the context of mod.  *)
MonPro(a, b) == CHOOSE r \in 0..(mod-1) : (r * Radix - a * b) % mod = 0
OneMont == Radix % mod
R2      == (OneMont * OneMont) % mod
ToMont(a) == MonPro(a % mod, R2)

(* The modulus a routine refuses: in mod_exp, or in Montgomery's           *)
(* constructor.                                                            *)
Refused(q) ==
  IF q.alg = "schoolbook" THEN q.mod = 0 ELSE q.mod % 2 = 0 \/ q.mod < 3

(* The ladder's window: the caller's width, never below the exponent's     *)
(* length, never empty.                                                    *)
LargerOf(a, b) == IF a > b THEN a ELSE b
\* faulty variants of the next definition
WindowTruncated(q) == IF q.fixed = 0 THEN BitLength(q.exp) ELSE q.fixed
WindowOfExp(q)     == LargerOf(1, BitLength(q.exp))
Window(q) ==
  LET bits == LargerOf(q.fixed, BitLength(q.exp)) IN IF bits = 0 THEN 1 ELSE bits

(* The schoolbook loop counts its bits up.                                 *)
\* faulty variant of the next definition
SameBit(k) == k
NextBit(k) == k + 1

Init ==
  /\ pc = "enter" /\ request \in Requests
  /\ i = 0 /\ x = 0 /\ y = 0 /\ op_counter = 0 /\ trace = <<>> /\ answer = 0

Refuse ==
  /\ pc = "enter" /\ Refused(request)
  /\ pc' = "done"
  /\ answer' = -1
  /\ UNCHANGED <<request, i, x, y, op_counter, trace>>

(* mod_exp: result = 1, cur = base mod m; bits from the lowest up.         *)
EnterSchoolbook ==
  /\ pc = "enter" /\ ~Refused(request) /\ request.alg = "schoolbook"
  /\ x' = 1 /\ y' = base % mod
  /\ i' = 0
  /\ pc' = "schoolbook"
  /\ UNCHANGED <<request, op_counter, trace, answer>>

SchoolbookBit ==
  /\ pc = "schoolbook" /\ i < BitLength(exp)
  /\ x' = IF TestBit(exp, i) THEN (x * y) % mod ELSE x
  /\ y' = (y * y) % mod
  /\ i' = NextBit(i)
  /\ UNCHANGED <<pc, request, op_counter, trace, answer>>

(* "collapses to 0 when mod == 1"                                          *)
Collapse(z) == z % mod
SchoolbookReturn ==
  /\ pc = "schoolbook" /\ i = BitLength(exp)
  /\ answer' = Collapse(x)
  /\ pc' = "done"
  /\ UNCHANGED <<request, i, x, y, op_counter, trace>>

(* pow and pow_ct: start from 1 in the domain and convert the base.        *)
EnterMontgomery ==
  /\ pc = "enter" /\ ~Refused(request) /\ request.alg \in {"pow", "pow_ct"}
  /\ x' = OneMont /\ y' = ToMont(base)
  /\ op_counter' = op_counter + 1
  /\ i' = IF request.alg = "pow" THEN BitLength(exp) ELSE Window(request)
  /\ pc' = IF request.alg = "pow" THEN "square" ELSE "ladder"
  /\ UNCHANGED <<request, trace, answer>>

(* The laboratory converts the 1 as well as the base.                      *)
EnterTraced ==
  /\ pc = "enter" /\ ~Refused(request) /\ request.alg = "traced"
  /\ x' = ToMont(1) /\ y' = ToMont(base)
  /\ op_counter' = op_counter + 2
  /\ i' = BitLength(exp)
  /\ pc' = "square"
  /\ UNCHANGED <<request, trace, answer>>

(* trace.push_back(ops) ends the laboratory's iteration.                   *)
\* faulty variant of the next definition
TracedAlways(ops) == IF request.alg = "traced" THEN Append(trace, 2) ELSE trace
Traced(ops)       == IF request.alg = "traced" THEN Append(trace, ops) ELSE trace

(* What the trace says: a bit is 1 if two operations were seen.            *)
Recovered(ops) ==
  LET e[k \in Nat] == IF k = 0 THEN 0 ELSE 2 * e[k-1] + (IF ops[k] = 2 THEN 1 ELSE 0)
  IN  e[Len(ops)]

(* pow multiplies after the square if the exponent's bit is set.           *)
Multiplies(k)       == TestBit(exp, k)

(* pow: a square for every bit of the exponent, from the highest down...   *)
Square ==
  /\ pc = "square" /\ i > 0
  /\ i' = i - 1
  /\ x' = MonPro(x, x)
  /\ op_counter' = op_counter + 1
  /\ IF Multiplies(i - 1)
       THEN pc' = "multiply" /\ UNCHANGED trace
       ELSE pc' = "square" /\ trace' = Traced(1)
  /\ UNCHANGED <<request, y, answer>>

(* ...and a multiplication only for the bits that are set.                 *)
Multiply ==
  /\ pc = "multiply"
  /\ x' = MonPro(x, y)
  /\ op_counter' = op_counter + 1
  /\ trace' = Traced(2)
  /\ pc' = "square"
  /\ UNCHANGED <<request, i, y, answer>>

(* pow_ct: swap, multiply, square, swap; the bit steers the swaps only.    *)
\* faulty variant of the next definition
LadderNoSwapBack(bit, a, b) ==
  LET lo == IF bit THEN b ELSE a IN <<MonPro(lo, lo), MonPro(a, b)>>
LadderStep(bit, a, b) ==
  LET lo == IF bit THEN b ELSE a
      hi == IF bit THEN a ELSE b
      product == MonPro(lo, hi)
      square  == MonPro(lo, lo)
  IN  IF bit THEN <<product, square>> ELSE <<square, product>>

LadderBit ==
  /\ pc = "ladder" /\ i > 0
  /\ i' = i - 1
  /\ LET pair == LadderStep(TestBit(exp, i - 1), x, y)
     IN  x' = pair[1] /\ y' = pair[2]
  /\ op_counter' = op_counter + 2
  /\ UNCHANGED <<pc, request, trace, answer>>

(* All leave the domain with MonPro(r, 1).                                 *)
MontgomeryReturn ==
  /\ pc \in {"square", "ladder"} /\ i = 0
  /\ answer' = MonPro(x, 1)
  /\ op_counter' = op_counter + 1
  /\ pc' = "done"
  /\ UNCHANGED <<request, i, x, y, trace>>

Next ==
  \/ Refuse \/ EnterSchoolbook \/ SchoolbookBit \/ SchoolbookReturn
  \/ EnterMontgomery \/ EnterTraced \/ Square \/ Multiply \/ LadderBit \/ MontgomeryReturn

Spec == Init /\ [][Next]_vars

(* The routines are sequential code: once called, they run on.             *)
FairSpec == Spec /\ WF_vars(Next)
-----------------------------------------------------------------------------
TypeOK ==
  /\ pc \in {"enter", "schoolbook", "square", "multiply", "ladder", "done"}
  /\ request \in Requests /\ i \in Nat /\ op_counter \in Nat
  /\ x \in Nat /\ y \in Nat /\ answer \in Nat \cup {-1}
  /\ pc \in {"square", "multiply", "ladder"} => x < mod /\ y < mod

(* g^k mod N, and the residue that stands for it in the domain.            *)
P == INSTANCE ModPow WITH busy <- pc # "done"
Pow(k)     == Power(base, k, mod)
PowMont(k) == (Pow(k) * Radix) % mod

(* montgomery.cpp:152-153: (R0, R1) hold (g^k, g^(k+1)) in the domain, k   *)
(* being the part of the exponent the ladder has consumed.                 *)
LadderInv == pc = "ladder" =>
  LET k == exp \div Pow2[i] IN x = PowMont(k) /\ y = PowMont(k + 1)

(* Left-to-right: r holds g^k; between square and multiply the last bit is *)
(* still missing.                                                          *)
PowInv ==
  LET k == exp \div Pow2[i]
  IN  /\ pc = "square"   => x = PowMont(k) /\ y = PowMont(1)
      /\ pc = "multiply" => x = PowMont(k - 1) /\ y = PowMont(1)

(* Right-to-left: what is in result times what cur still has to give.      *)
SchoolbookInv == pc = "schoolbook" =>
  (x * Power(y, exp \div Pow2[i], mod)) % mod = Pow(exp)

(* Which loop serves which routine: a routine that computes has accepted   *)
(* its modulus, and a multiplication is owed to a bit that is set.         *)
StageInv ==
  /\ pc = "enter" => op_counter = 0
  /\ pc \notin {"enter", "done"} => ~Refused(request)
  /\ pc = "schoolbook" => request.alg = "schoolbook"
  /\ pc \in {"square", "multiply"} => request.alg \in {"pow", "traced"}
  /\ pc = "ladder" => request.alg = "pow_ct"
  /\ pc = "multiply" => TestBit(exp, i)

(* Between any two iterations of the loops.                                *)
LoopInv == TypeOK /\ StageInv /\ LadderInv /\ PowInv /\ SchoolbookInv

(* docs/constant-time.md:45-56: the ladder's monpro calls depend on the    *)
(* window alone, 2 a bit and one to enter and to leave; with the modulus   *)
(* width as window they are the same for every exponent below the modulus. *)
LadderUniform ==
  /\ pc = "done" /\ request.alg = "pow_ct" /\ answer # -1 =>
       op_counter = 2 + 2 * LargerOf(1, LargerOf(request.fixed, BitLength(exp)))
  /\ pc = "ladder" => op_counter + 2 * i = 1 + 2 * Window(request)

(* The set bits of e from place k on; hamming_weight counts them all.      *)
SetBits(e, k) == {b \in k..(BitLength(e) - 1) : TestBit(e, b)}
Weight(e)     == Cardinality(SetBits(e, 0))

(* montgomery.cpp:129-143 and timing_attack.cpp:46-70: square-and-multiply *)
(* multiplies exactly for the set bits, and the laboratory's trace has one *)
(* entry per bit and stands for the whole exponent: what the ladder hides. *)
PowCount == pc = "done" /\ answer # -1 =>
  /\ request.alg = "pow"    => op_counter = 2 + BitLength(exp) + Weight(exp)
  /\ request.alg = "traced" =>
       /\ op_counter = 3 + BitLength(exp) + Weight(exp)
       /\ Len(trace) = BitLength(exp) /\ Recovered(trace) = exp

(* The bits from place k on have cost ops products with the entry: one for *)
(* each bit and one more for each that is set, and the trace says which.   *)
Spent(ops, k) ==
  /\ k <= BitLength(exp)
  /\ ops = (IF request.alg = "traced" THEN 2 ELSE 1)
             + (BitLength(exp) - k) + Cardinality(SetBits(exp, k))
  /\ request.alg = "traced" =>
       /\ Len(trace) = BitLength(exp) - k
       /\ \A b \in 1..Len(trace) : trace[b] = 2 <=> TestBit(exp, BitLength(exp) - b)

(* Those to the left of i are done; between square and multiply the square *)
(* of bit i is not in the trace yet.                                       *)
CountInv ==
  /\ trace \in Seq({1, 2}) /\ (pc = "enter" => trace = <<>>)
  /\ pc = "square"   => Spent(op_counter, i)
  /\ pc = "multiply" => Spent(op_counter - 1, i + 1)

(* The inductive invariant.                                                *)
IInv == LoopInv /\ LadderUniform /\ CountInv /\ PowCount

(* All three routines implement the one-step power, exceptions included.   *)
ModPowSpec == P!Spec

(* Every call is answered.                                                 *)
CallAnswered == <>(pc = "done")
=============================================================================
