-------------------------------- MODULE LimbApi --------------------------------
(***************************************************************************)
(* The interface the exponentiations, the tests, the fuzz target and the   *)
(* laboratory are written against: the domain conversions and products of  *)
(* Montgomery (montgomery.cpp:99-127) and the array primitives of ct.hpp,  *)
(* limb by limb and in place, called in any order on any buffers.  monpro  *)
(* is one step: on residues the product MonPro implements, and above the   *)
(* modulus whatever its rows and the single subtraction leave.             *)
(***************************************************************************)
EXTENDS ConstantTime

CONSTANTS
  Bufs,      \* the client's limb arrays, R0 and R1 among them
  Contexts,  \* moduli of exactly S limbs
  Numbers    \* BigInts passed by value

ASSUME LimbApiAssumption ==
  /\ \A k \in Contexts : k \in BPow[S-1]..(R-1) /\ k % 2 = 1 /\ k >= 3
  /\ Numbers \subseteq Nat

VARIABLES
  N,       \* the context's modulus
  mem,     \* mem[x]: the limbs in buffer x
  call,    \* the call in progress
  j,       \* limbs done
  borrow,  \* ct::geq's borrow
  diff,    \* ct::equal's accumulated difference
  answer,  \* what the last call returned
  entry    \* history: mem when the call began

apiVars == <<N, mem, call, j, borrow, diff, answer, entry>>

(* limbs_padded: the lowest S limbs, higher ones are cut off.              *)
LimbsPadded(v) == [k \in 0..(S-1) |-> (v \div BPow[k]) % B]

(* a.mod(n_): numbers of any size are reduced before they are cut to size. *)
\* faulty variant of the next definition
NotReduced(v) == v
Reduced(v)    == v % N
Operand(v)    == LimbsPadded(Reduced(v))

(* monpro on any two limb arrays: the digits m add the multiple of N that  *)
(* R divides, T is what the rows leave, and N is subtracted once.          *)
RowDigits(p) == CHOOSE m \in 0..(R-1) : (p + m * N) % R = 0
Product(x, y) ==
  LET p == Value(x) * Value(y)
      T == (p + RowDigits(p) * N) \div R
  IN  LimbsPadded(IF T >= N THEN T - N ELSE T)

(* The constants of the context.                                           *)
One     == LimbsPadded(1)
OneMont == LimbsPadded(R % N)
R2      == LimbsPadded((R * R) % N)

Ring == INSTANCE ResidueRing WITH
          val <- [x \in Bufs |->
                    CHOOSE r \in 0..(N-1) : (r * R - Value(entry[x])) % N = 0]

ApiInit ==
  /\ N \in Contexts
  /\ mem \in [Bufs -> {LimbsPadded(v) : v \in 0..(N-1)}] /\ entry = mem
  /\ call = Ring!NoCall /\ answer = Ring!NoAnswer
  /\ j = 0 /\ borrow = 0 /\ diff = 0

Begin(c) ==
  /\ call = Ring!NoCall
  /\ call' = c
  /\ j' = 0 /\ borrow' = 0 /\ diff' = 0
  /\ answer' = Ring!NoAnswer
  /\ UNCHANGED <<N, mem, entry>>

Return(buffers, result) ==
  /\ mem' = buffers /\ entry' = buffers
  /\ answer' = result
  /\ call' = Ring!NoCall
  /\ j' = 0 /\ borrow' = 0 /\ diff' = 0
  /\ UNCHANGED N

-----------------------------------------------------------------------------
(* The conversions: each is one monpro on reduced, padded operands.        *)
Write(limbs) == Return([mem EXCEPT ![call.out] = limbs], Ring!NoAnswer)

ToMontgomery ==
  /\ call.op = "to_montgomery"
  /\ Write(Product(Operand(call.num), R2))

MontProduct ==
  /\ call.op = "mont_product"
  /\ Write(Product(Operand(call.num), Operand(call.num2)))

FromMontgomery ==
  /\ call.op = "from_montgomery"
  /\ Return(mem, Ring!Number(Value(Product(Operand(call.num), One))))

OneMontgomery ==
  /\ call.op = "one_mont"
  /\ Write(OneMont)

MonPro ==
  /\ call.op = "monpro"
  /\ Write(Product(mem[call.a], mem[call.b]))

-----------------------------------------------------------------------------
(* The array primitives.                                                   *)
Mask == MaskFromBit(call.bit)

SelectLimb ==
  /\ call.op = "select" /\ j < S
  /\ mem' = [mem EXCEPT ![call.out][j] = SelectWord(Mask, mem[call.a][j], mem[call.b][j])]
  /\ j' = j + 1
  /\ UNCHANGED <<N, call, borrow, diff, answer, entry>>

(* a ^= t and then b ^= t, where b may be a.                               *)
Swapped(m, a, b, k, t) ==
  LET first == [m EXCEPT ![a][k] = @ ^^ t] IN [first EXCEPT ![b][k] = @ ^^ t]

CswapLimb ==
  /\ call.op = "cswap" /\ j < S
  /\ mem' = Swapped(mem, call.a, call.b, j,
                    Mask & (mem[call.a][j] ^^ mem[call.b][j]))
  /\ j' = j + 1
  /\ UNCHANGED <<N, call, borrow, diff, answer, entry>>

ArrayReturn ==
  /\ call.op \in {"select", "cswap"} /\ j = S
  /\ Return(mem, Ring!NoAnswer)

(* The borrow is bit 32 of the wrapped 64-bit difference.                  *)
NextBorrow(x, y, b)      == Hi(U64(x - y - b)) % 2

GeqLimb ==
  /\ call.op = "geq" /\ j < S
  /\ borrow' = NextBorrow(mem[call.a][j], mem[call.b][j], borrow)
  /\ j' = j + 1
  /\ UNCHANGED <<N, mem, call, diff, answer, entry>>

EqualLimb ==
  /\ call.op = "equal" /\ j < S
  /\ diff' = (diff | (mem[call.a][j] ^^ mem[call.b][j]))
  /\ j' = j + 1
  /\ UNCHANGED <<N, mem, call, borrow, answer, entry>>

(* The caller reads the mask as a truth value; the properties say that it  *)
(* is one.                                                                 *)
Verdict == IF call.op = "geq" THEN MaskFromBit(U32(1 - borrow)) ELSE IsZero(diff)
CompareReturn ==
  /\ call.op \in {"geq", "equal"} /\ j = S
  /\ Return(mem, Ring!Truth(Verdict = True))

ApiStep ==
  \/ ToMontgomery \/ MontProduct \/ FromMontgomery \/ OneMontgomery \/ MonPro
  \/ SelectLimb \/ CswapLimb \/ ArrayReturn \/ GeqLimb \/ EqualLimb \/ CompareReturn

ApiNext == (\E c \in Ring!Calls : Begin(c)) \/ ApiStep

ApiSpec == ApiInit /\ [][ApiNext]_apiVars

-----------------------------------------------------------------------------
ApiTypeOK ==
  /\ N \in Contexts /\ mem \in [Bufs -> Limbs] /\ entry \in [Bufs -> Limbs]
  /\ call \in Ring!Calls \cup {Ring!NoCall} /\ j \in 0..S
  /\ borrow \in {0, 1} /\ diff \in Word

(* The buffer whose limbs x takes over in the call: select fills out, and  *)
(* cswap exchanges its operands or leaves them.                            *)
Source(x) ==
  CASE call.op = "select" /\ x = call.out -> IF call.bit = 1 THEN call.a ELSE call.b
    [] call.op = "cswap" /\ call.bit = 1 /\ x = call.a -> call.b
    [] call.op = "cswap" /\ call.bit = 1 /\ x = call.b -> call.a
    [] OTHER -> x

(* Between two limbs of a loop: the lower limbs are taken over, from what  *)
(* the buffers held at the call, and the others are untouched, whatever    *)
(* buffers are the same; a mask is all ones or all zeros.                  *)
TakenOver ==
  /\ \A x \in Bufs : \A k \in 0..(S-1) :
       mem[x][k] = entry[IF k < j THEN Source(x) ELSE x][k]
  /\ call.op \in {"select", "cswap"} => Mask = IF call.bit = 1 THEN True ELSE False

(* The lower limbs are compared, and the mask that would be returned is    *)
(* all ones or all zeros.                                                  *)
Low(x) == LimbSum(x, j)
Compared ==
  /\ call.op = "geq" =>
       /\ borrow = 1 <=> Low(mem[call.a]) < Low(mem[call.b])
       /\ Verdict \in {True, False}
  /\ call.op = "equal" =>
       /\ Verdict = True  <=> Low(mem[call.a]) = Low(mem[call.b])
       /\ Verdict = False <=> Low(mem[call.a]) # Low(mem[call.b])

EntryReduced == \A x \in Bufs : Value(entry[x]) < N

(* The inductive invariant.                                                *)
ApiInv == ApiTypeOK /\ EntryReduced /\ TakenOver /\ Compared

(* montgomery.hpp:46: whatever is called, with numbers of any size, every  *)
(* buffer holds a number below N when the client may use it again.         *)
BuffersReduced == call = Ring!NoCall => \A x \in Bufs : Value(mem[x]) < N

(* The API implements arithmetic on residues: any program of conversions,  *)
(* products, swaps, selections and comparisons computes in the ring what   *)
(* it computes on limbs, and the aliasing of buffers changes nothing.      *)
RingSpec == Ring!Spec
=============================================================================
