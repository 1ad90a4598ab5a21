----------------------------- MODULE MonProProofs -----------------------------
(***************************************************************************)
(* Proofs about the limb-level Montgomery product, for every even base,    *)
(* every limb count, every context and every set of caller buffers.        *)
(***************************************************************************)
EXTENDS MonPro, NumberLemmas

-----------------------------------------------------------------------------
(* Facts about words the steps share.                                      *)

(* The low half of any integer is a word.                                  *)
LEMMA LowWord == \A x \in Int : U32(x) \in Word
BY BaseAssumption DEF U32, Word

(* A word is its own low half.                                             *)
LEMMA LowOfWord == \A x \in Word : U32(x) = x
BY BaseAssumption DEF U32, Word

(* The high half of u*v + t + c is a word, and its 64-bit value is exact.  *)
LEMMA AccumulateWord ==
  ASSUME NEW u \in Word, NEW v \in Word, NEW t \in Word, NEW c \in Word
  PROVE  LET p == U64(u * v + t + c)
         IN  /\ p = u * v + t + c
             /\ U32(p) \in Word /\ Hi(p) \in Word
             /\ u * v + t + c = Hi(p) * B + U32(p)
BY ProductFits, NoWrap64, SplitWord

(* The sum of two words has a high half of at most 1.                      *)
LEMMA AddWords ==
  ASSUME NEW t \in Word, NEW c \in Word
  PROVE  LET p == U64(t + c)
         IN  /\ p = t + c
             /\ U32(p) \in Word /\ Hi(p) \in Word
             /\ t + c = Hi(p) * B + U32(p)
<1>1. t + c \in Nat /\ t + c < B * B
  <2>1. t + c < 2 * B /\ t + c \in Nat
    BY BaseAssumption DEF Word
  <2>2. 2 * B <= B * B
    BY BaseAssumption
  <2>3. QED
    BY <2>1, <2>2, BaseAssumption
<1>2. QED
  BY <1>1, NoWrap64, SplitWord

-----------------------------------------------------------------------------
(* Type correctness.                                                       *)

LEMMA TypeInit == Init => TypeOK
<1> SUFFICES ASSUME Init PROVE TypeOK
  OBVIOUS
<1> USE Indices
<1>1. T \in [0..(S+1) -> Word] /\ tmp \in Limbs
  BY DEF Init, Limbs
<1>2. carry \in Word /\ m \in Word /\ borrow \in {0, 1} /\ ge \in {0, 1}
  BY DEF Init
<1>3. QED
  BY <1>1, <1>2 DEF Init, TypeOK

LEMMA TypeMul == TypeOK /\ Mul => TypeOK'
<1> SUFFICES ASSUME TypeOK, Mul PROVE TypeOK'
  OBVIOUS
<1> USE Indices
<1> DEFINE p == U64(mem[call.a][j] * mem[call.b][i] + T[j] + carry)
<1>1. /\ mem[call.a][j] \in Word /\ mem[call.b][i] \in Word
      /\ T[j] \in Word /\ carry \in Word /\ j+1 \in 0..S
  BY DEF TypeOK, Mul, Limbs
<1>2. U32(p) \in Word /\ Hi(p) \in Word
  BY <1>1, AccumulateWord
<1>3. T' \in [0..(S+1) -> Word] /\ carry' \in Word
  BY <1>2 DEF TypeOK, Mul
<1>4. QED
  BY <1>1, <1>3 DEF TypeOK, Mul, counts, context

LEMMA TypeEndMul == TypeOK /\ EndMul => TypeOK'
<1> SUFFICES ASSUME TypeOK, EndMul PROVE TypeOK'
  OBVIOUS
<1> USE Indices
<1> DEFINE sum == U64(T[S] + carry)
<1>1. /\ T[S] \in Word /\ T[0] \in Word /\ carry \in Word
      /\ n[0] \in Word /\ n_prime \in Word
  BY DEF TypeOK, Limbs
<1>2. U32(sum) \in Word /\ U32(Hi(sum)) \in Word
  <2>1. U32(sum) \in Word /\ Hi(sum) \in Word
    BY <1>1, AddWords
  <2>2. QED
    BY <2>1, LowWord DEF Word
<1>3. T' \in [0..(S+1) -> Word]
  BY <1>2 DEF TypeOK, EndMul
<1>4. m' \in Word
  <2>1. U64(T[0] * n_prime) \in Int
    BY <1>1 DEF U64, Word
  <2>2. QED
    BY <2>1, LowWord DEF EndMul, QuotientDigit
<1>5. carry' \in Word
  <2>1. m' * n[0] + T[0] + 0 = m' * n[0] + T[0]
    BY <1>1, <1>4 DEF Word
  <2>2. Hi(U64(m' * n[0] + T[0] + 0)) \in Word
    BY <1>1, <1>4, AccumulateWord
  <2>3. QED
    BY <2>1, <2>2 DEF EndMul
<1>6. QED
  BY <1>3, <1>4, <1>5 DEF TypeOK, EndMul, counts, context

LEMMA TypeRed == TypeOK /\ Red => TypeOK'
<1> SUFFICES ASSUME TypeOK, Red PROVE TypeOK'
  OBVIOUS
<1> USE Indices
<1> DEFINE p == U64(m * n[j] + T[j] + carry)
<1>1. /\ m \in Word /\ n[j] \in Word /\ T[j] \in Word /\ carry \in Word
      /\ j+1 \in 0..S /\ j+1 >= 1 /\ j-1 \in 0..(S+1)
  BY DEF TypeOK, Red, Limbs
<1>2. U32(p) \in Word /\ Hi(p) \in Word
  BY <1>1, AccumulateWord
<1>3. T' \in [0..(S+1) -> Word] /\ carry' \in Word
  BY <1>1, <1>2 DEF TypeOK, Red
<1>4. QED
  BY <1>1, <1>3 DEF TypeOK, Red, counts, context

LEMMA TypeEndRow == TypeOK /\ EndRow => TypeOK'
<1> SUFFICES ASSUME TypeOK, EndRow PROVE TypeOK'
  OBVIOUS
<1> USE Indices
<1> DEFINE sum == U64(T[S] + carry)
<1>1. T[S] \in Word /\ T[S+1] \in Word /\ carry \in Word
  BY DEF TypeOK
<1>2. U32(sum) \in Word /\ Hi(sum) \in Word
  BY <1>1, AddWords
<1>3. TopLimb(T[S+1], sum) \in Word
  <2>1. U32(Hi(sum)) \in Word
    BY <1>2, LowWord DEF Word
  <2>2. QED
    BY <2>1, <1>1, LowWord DEF TopLimb, Word
<1>4. T' \in [0..(S+1) -> Word]
  BY <1>2, <1>3 DEF TypeOK, EndRow
<1>5. i' \in 0..S /\ (pc' \in {"mul", "red"} => i' < S)
      /\ pc' \in {"mul", "sub"}
  BY DEF TypeOK, EndRow, NextRow
<1>6. QED
  BY <1>4, <1>5 DEF TypeOK, EndRow, counts, context

LEMMA TypeSub == TypeOK /\ Sub => TypeOK'
<1> SUFFICES ASSUME TypeOK, Sub PROVE TypeOK'
  OBVIOUS
<1> USE Indices
<1>1. T[j] \in Word /\ n[j] \in Word /\ borrow \in {0, 1} /\ j+1 \in 0..S
  BY DEF TypeOK, Sub, Limbs
<1>2. LET d == U64(T[j] - n[j] - borrow)
      IN  BorrowBit(d) \in {0, 1} /\ U32(d) \in Word
  BY <1>1, SubtractWord DEF BorrowBit
<1>3. tmp' \in Limbs /\ borrow' \in {0, 1}
  BY <1>2 DEF TypeOK, Sub, Limbs
<1>4. QED
  BY <1>1, <1>3 DEF TypeOK, Sub, counts, context

LEMMA TypeFinal == TypeOK /\ Final => TypeOK'
<1> SUFFICES ASSUME TypeOK, Final PROVE TypeOK'
  OBVIOUS
<1> USE Indices
<1>1. ge' \in {0, 1}
  BY DEF Final, GeBit
<1>2. extra_redc' \in Nat
  BY <1>1 DEF TypeOK, Final
<1>3. QED
  BY <1>1, <1>2 DEF TypeOK, Final, context

LEMMA TypeSelect == TypeOK /\ Select => TypeOK'
<1> SUFFICES ASSUME TypeOK, Select PROVE TypeOK'
  OBVIOUS
<1> USE Indices
<1>1. j \in 0..(S-1) /\ j \in 0..(S+1) /\ j+1 \in 0..S /\ call.out \in Bufs
  BY DEF TypeOK, Select
<1>2. SelectLimb(j) \in Word
  BY <1>1 DEF TypeOK, SelectLimb, Limbs
<1>3. [mem[call.out] EXCEPT ![j] = SelectLimb(j)] \in Limbs
  BY <1>1, <1>2 DEF TypeOK, Limbs
<1>4. mem' \in [Bufs -> Limbs]
  BY <1>1, <1>3 DEF TypeOK, Select
<1>5. QED
  BY <1>1, <1>4 DEF TypeOK, Select, counts, context

LEMMA TypeNext == TypeOK /\ [Next]_vars => TypeOK'
<1> SUFFICES ASSUME TypeOK, [Next]_vars PROVE TypeOK'
  OBVIOUS
<1> USE Indices
<1>1. ASSUME NEW c \in [out : Bufs, a : Bufs, b : Bufs], Call(c) PROVE TypeOK'
  <2>1. T' \in [0..(S+1) -> Word] /\ tmp' \in Limbs
    BY <1>1 DEF Call, FreshRow, Limbs
  <2>2. op_counter' \in Nat
    BY <1>1 DEF Call, TypeOK
  <2>3. QED
    BY <1>1, <2>1, <2>2 DEF TypeOK, Call, context
<1>2. ASSUME NEW h \in SUBSET {"op", "extra"}, SetHooks(h) PROVE TypeOK'
  BY <1>2 DEF TypeOK, SetHooks, context, locals
<1>3. CASE Step
  <2>1. CASE Return
    BY <2>1 DEF TypeOK, Return, context, locals, counts
  <2>2. QED
    BY <1>3, <2>1, TypeMul, TypeEndMul, TypeRed, TypeEndRow, TypeSub, TypeFinal,
       TypeSelect DEF Step
<1>4. CASE UNCHANGED vars
  BY <1>4 DEF TypeOK, vars
<1>5. QED
  BY <1>1, <1>2, <1>3, <1>4 DEF Next

(* Limbs stay below the base, the carries stay words and the borrow a bit, *)
(* and no loop counter leaves its array, in every reachable state.         *)
THEOREM TypeCorrect == Spec => []TypeOK
<1>1. Init => TypeOK
  BY TypeInit
<1>2. TypeOK /\ [Next]_vars => TypeOK'
  BY TypeNext
<1>3. QED
  BY <1>1, <1>2, PTL DEF Spec

-----------------------------------------------------------------------------
(* The loop invariants.                                                    *)

(* What the type invariant says of the operands of a running call.         *)
LEMMA OperandTypes ==
  ASSUME TypeOK
  PROVE  /\ entry[call.a] \in Limbs /\ entry[call.b] \in Limbs /\ n \in Limbs
         /\ mem[call.a] \in Limbs /\ mem[call.b] \in Limbs
         /\ call.a \in Bufs /\ call.b \in Bufs /\ call.out \in Bufs
         /\ T \in [0..(S+1) -> Word] /\ tmp \in Limbs
         /\ i \in 0..S /\ j \in 0..S /\ carry \in Word /\ m \in Word
         /\ (i < S => entry[call.b][i] \in Word)
  BY SizeAssumption DEF TypeOK, Limbs

(* In the initial states no call runs.                                     *)
LEMMA LoopInit == Init => LoopInv /\ ResultsReduced /\ DroppedLimbIsZero
BY DEF Init, LoopInv, EntryInv, MulInv, RedInv, SubInv, SelectInv, ResultsReduced,
       DroppedLimbIsZero, Residues

(* A call starts from a cleared row.                                       *)
LEMMA LoopCall ==
  ASSUME IInv, NEW c \in [out : Bufs, a : Bufs, b : Bufs], Call(c)
  PROVE  LoopInv'
<1> USE Indices
<1>1. pc = "idle" /\ pc' = "mul" /\ i' = 0 /\ j' = 0 /\ carry' = 0 /\ borrow' = 0
      /\ n' = n /\ n_prime' = n_prime /\ entry' = mem /\ mem' = mem /\ call' = c
  BY DEF Call, context
<1>2. /\ mem[c.a] \in Limbs /\ mem[c.b] \in Limbs /\ n \in Limbs
  BY DEF IInv, TypeOK
<1>3. Value(n) > 0
  BY OperandSum, <1>2 DEF IInv, LoopInv, ValidContext
<1>4. PartialProduct(0, mem[c.a], mem[c.b], n, 0)
  BY <1>2, <1>3, RowStart
<1>5. LimbSum(T', S+1) = 0
  <2>1. T' \in [0..(S+1) -> Word] /\ \A k \in 0..(S+1) : T'[k] = 0
    BY DEF Call, FreshRow
  <2>2. QED
    BY <2>1, ZeroRow
<1>6. MulInv'
  <2>1. LimbSum(mem[c.a], 0) = 0 /\ BPow[0] = 1 /\ mem[c.b][0] \in Int
    <3>1. mem[c.b][0] \in Word
      BY <1>2 DEF Limbs
    <3>2. LimbSum(mem[c.a], 0) = 0
      BY <1>2, OperandSum
    <3>3. QED
      BY <3>1, <3>2, BPowDef DEF Word
  <2>2. (LimbSum(T', S+1) + 0 * BPow[0]) - LimbSum(mem[c.a], 0) * mem[c.b][0] = 0
    BY <2>1, <1>5
  <2>3. MulRow' = 0
    BY <1>1, <2>2 DEF MulRow, Bi
  <2>4. QED
    BY <1>1, <1>4, <2>3 DEF MulInv, RowOf, PartialProduct, A, N
<1>7. EntryInv'
  BY <1>1 DEF IInv, ResultsReduced, EntryInv, Residues
<1>8. QED
  BY <1>1, <1>6, <1>7 DEF LoopInv, IInv, RedInv, SubInv, SelectInv, ValidContext

(* One limb of the multiplication row leaves the row's number alone.       *)
LEMMA LoopMul == IInv /\ Mul => LoopInv'
<1> SUFFICES ASSUME IInv, Mul PROVE LoopInv'
  OBVIOUS
<1> USE Indices
<1>1. /\ pc = "mul" /\ pc' = "mul" /\ j < S /\ j' = j+1 /\ i' = i /\ borrow' = borrow
      /\ n' = n /\ n_prime' = n_prime /\ entry' = entry /\ mem' = mem /\ call' = call
  BY DEF Mul, context
<1>2. TypeOK /\ mem = entry /\ i < S
  BY <1>1 DEF IInv, LoopInv, EntryInv, TypeOK
<1>3. PICK a \in Limbs, bi \in Word : a = entry[call.a] /\ bi = entry[call.b][i]
  BY <1>2, OperandTypes
<1>4. PICK p : p = U64(a[j] * bi + T[j] + carry)
  OBVIOUS
<1>5. /\ T' = [T EXCEPT ![j] = U32(p)] /\ carry' = Hi(p)
  BY <1>2, <1>3, <1>4 DEF Mul
<1>6. T \in [0..(S+1) -> Word] /\ j \in 0..(S-1) /\ j \in 0..(S+1) /\ carry \in Word
      /\ a[j] \in Word /\ T[j] \in Word
  BY <1>1, <1>2, OperandTypes DEF Limbs
<1>7. PICK h \in Word, u \in Word :
        h = Hi(p) /\ u = U32(p) /\ Accumulated(a[j], bi, T[j], carry, h, u)
  BY <1>4, <1>6, AccumulateWord DEF Accumulated
<1>8. T' \in [0..(S+1) -> Word] /\ Written(T, T', j, u) /\ carry' = h
  BY <1>5, <1>6, <1>7 DEF Written
<1>9. (LimbSum(T', S+1) + h * BPow[j+1]) - LimbSum(a, j+1) * bi
        = (LimbSum(T, S+1) + carry * BPow[j]) - LimbSum(a, j) * bi
  <2>1. MulStep(T, T', a, bi, j, carry, h, u)
    BY <1>6, <1>7, <1>8 DEF MulStep
  <2>2. QED
    BY <2>1, MulLimb
<1>10. MulRow' = MulRow
  BY <1>1, <1>3, <1>8, <1>9 DEF MulRow, Bi
<1>11. MulInv'
  BY <1>1, <1>10 DEF IInv, LoopInv, MulInv, RowOf, A, N
<1>12. EntryInv'
  BY <1>1 DEF IInv, LoopInv, EntryInv, Residues
<1>13. QED
  BY <1>1, <1>11, <1>12 DEF LoopInv, IInv, RedInv, SubInv, SelectInv, ValidContext

(* The carry goes to the top, m is chosen and the lowest limb, which is    *)
(* exactly 0, is dropped: the row's number does not change.                *)
LEMMA LoopEndMul == IInv /\ EndMul => LoopInv' /\ DroppedLimbIsZero'
<1> SUFFICES ASSUME IInv, EndMul PROVE LoopInv' /\ DroppedLimbIsZero'
  OBVIOUS
<1> USE Indices
<1>1. /\ pc = "mul" /\ pc' = "red" /\ j = S /\ j' = 1 /\ i' = i /\ borrow' = borrow
      /\ n' = n /\ n_prime' = n_prime /\ entry' = entry /\ mem' = mem /\ call' = call
  BY DEF EndMul, context
<1>2. TypeOK /\ i < S
  BY <1>1 DEF IInv, TypeOK
<1>3. PICK a \in Limbs, bi \in Word : a = entry[call.a] /\ bi = entry[call.b][i]
  BY <1>2, OperandTypes
<1>4. T \in [0..(S+1) -> Word] /\ T[S] \in Word /\ T[0] \in Word /\ carry \in Word
      /\ n \in Limbs /\ n[0] \in Word /\ n_prime \in Word
  BY <1>2, OperandTypes DEF Limbs, TypeOK
<1>5. PICK sum : sum = U64(T[S] + carry)
  OBVIOUS
<1>6. PICK hi \in Word, lo \in Word :
        hi = U32(Hi(sum)) /\ lo = U32(sum) /\ Carried(T[S], carry, hi, lo)
  <2>1. U32(sum) \in Word /\ Hi(sum) \in Word /\ T[S] + carry = Hi(sum) * B + U32(sum)
    BY <1>4, <1>5, AddWords
  <2>2. U32(Hi(sum)) = Hi(sum)
    BY <2>1, LowOfWord
  <2>3. QED
    BY <2>1, <2>2 DEF Carried
<1>7. T' = [T EXCEPT ![S] = lo, ![S+1] = hi]
  BY <1>5, <1>6 DEF EndMul
<1>8. PICK T1 : T1 = [T EXCEPT ![S] = lo]
  OBVIOUS
<1>9. TopStep(T, T1, T', carry, hi, lo)
  BY <1>4, <1>6, <1>7, <1>8 DEF TopStep, Written
<1>10. /\ LimbSum(T', S+2) = LimbSum(T, S+1) + carry * BPow[S]
       /\ LimbSum(T', 0) = 0 /\ LimbSum(T', 1) = T[0] /\ T'[0] = T[0]
  BY <1>9, MulTop
<1>11. m' \in Word /\ (m' * n[0] + T[0]) % B = 0
  <2>1. (n[0] * n_prime + 1) % B = 0
    BY DEF IInv, LoopInv, ValidContext
  <2>2. m' = U32(U64(T[0] * n_prime))
    BY DEF EndMul, QuotientDigit
  <2>3. QED
    BY <1>4, <2>1, <2>2, Quotient
<1>12. carry' * B = m' * n[0] + T[0]
  <2>1. carry' = Hi(U64(m' * n[0] + T[0]))
    BY DEF EndMul
  <2>2. m' * n[0] + T[0] = m' * n[0] + T[0] + 0
    BY <1>4, <1>11 DEF Word
  <2>3. PICK p : p = m' * n[0] + T[0]
    OBVIOUS
  <2>4. p \in Nat /\ p < B * B
    BY <1>4, <1>11, <2>2, <2>3, ProductFits
  <2>5. U64(p) = p /\ p = Hi(p) * B + U32(p) /\ Hi(p) \in Nat
    BY <2>4, NoWrap64, SplitWord
  <2>6. U32(p) = 0
    BY <1>11, <2>3 DEF U32
  <2>7. QED
    BY <2>1, <2>3, <2>5, <2>6
<1>13. LimbSum(n, 1) = n[0] /\ BPow[1] = B
  <2>1. BPow[0+1] = B * BPow[0] /\ BPow[0] = 1
    BY BPowDef
  <2>2. LimbSum(n, 0+1) = LimbSum(n, 0) + n[0] * BPow[0] /\ LimbSum(n, 0) = 0
    BY <1>4, OperandSum
  <2>3. QED
    BY <2>1, <2>2, <1>4 DEF Word
<1>14. (LimbSum(T', 1-1) * B + carry' * BPow[1] + (LimbSum(T', S+2) - LimbSum(T', 1)))
         - m' * LimbSum(n, 1) = LimbSum(T, S+1) + carry * BPow[S]
  <2>1. PICK mn \in Int, t0 \in Int, V \in Int :
          mn = m' * n[0] /\ t0 = T[0] /\ V = LimbSum(T', S+2)
    <3>1. LimbSum(T', S+2) \in Nat
      BY <1>9, RowLimbs DEF TopStep
    <3>2. QED
      BY <1>4, <1>11, <3>1 DEF Word
  <2>2. LimbSum(T', 1-1) * B = 0
    BY <1>10
  <2>3. carry' * BPow[1] = mn + t0 /\ m' * LimbSum(n, 1) = mn
    BY <1>12, <1>13, <2>1
  <2>4. (0 + (mn + t0) + (V - t0)) - mn = V
    BY <2>1
  <2>5. QED
    BY <1>10, <2>1, <2>2, <2>3, <2>4
<1>15. RedRow' = MulRow
  <2>1. RedRow' = ((LimbSum(T', 1-1) * B + carry' * BPow[1] + (LimbSum(T', S+2) - LimbSum(T', 1)))
                     - m' * LimbSum(n, 1)) - Value(a) * bi
    BY <1>1, <1>3 DEF RedRow, A, Bi
  <2>2. MulRow = (LimbSum(T, S+1) + carry * BPow[S]) - Value(a) * bi
    BY <1>1, <1>3 DEF MulRow, Bi, Value
  <2>3. QED
    BY <2>1, <2>2, <1>14
<1>16. RedInv'
  BY <1>1, <1>15 DEF IInv, LoopInv, MulInv, RedInv, RowOf, A, N
<1>17. EntryInv'
  BY <1>1 DEF IInv, LoopInv, EntryInv, Residues
<1>18. DroppedLimbIsZero'
  BY <1>1, <1>10, <1>11 DEF DroppedLimbIsZero
<1>19. QED
  BY <1>1, <1>16, <1>17, <1>18 DEF LoopInv, IInv, MulInv, SubInv, SelectInv, ValidContext

(* One limb of the reduction row leaves the row's number alone.            *)
LEMMA LoopRed == IInv /\ Red => LoopInv'
<1> SUFFICES ASSUME IInv, Red PROVE LoopInv'
  OBVIOUS
<1> USE Indices
<1>1. /\ pc = "red" /\ pc' = "red" /\ j < S /\ j' = j+1 /\ i' = i /\ borrow' = borrow
      /\ n' = n /\ n_prime' = n_prime /\ entry' = entry /\ mem' = mem /\ call' = call
      /\ m' = m
  BY DEF Red, context
<1>2. TypeOK /\ i < S /\ j \in 1..(S-1)
  BY <1>1 DEF IInv, TypeOK
<1>3. PICK p : p = U64(m * n[j] + T[j] + carry)
  OBVIOUS
<1>4. T \in [0..(S+1) -> Word] /\ T[j] \in Word /\ carry \in Word /\ m \in Word
      /\ n \in Limbs /\ n[j] \in Word /\ j-1 \in 0..(S+1) /\ (j+1)-1 = j
  BY <1>2, OperandTypes DEF Limbs
<1>5. PICK h \in Word, u \in Word :
        h = Hi(p) /\ u = U32(p) /\ Accumulated(m, n[j], T[j], carry, h, u)
  BY <1>3, <1>4, AccumulateWord DEF Accumulated
<1>6. T' = [T EXCEPT ![j-1] = u] /\ carry' = h
  BY <1>3, <1>5 DEF Red
<1>7. RedStep(T, T', n, m, j, carry, h, u)
  BY <1>2, <1>4, <1>5, <1>6 DEF RedStep, Written
<1>8. (LimbSum(T', j) * B + h * BPow[j+1]
         + (LimbSum(T', S+2) - LimbSum(T', j+1))) - m * LimbSum(n, j+1)
      = (LimbSum(T, j-1) * B + carry * BPow[j]
         + (LimbSum(T, S+2) - LimbSum(T, j))) - m * LimbSum(n, j)
  BY <1>7, RedLimb
<1>9. RedInv'
  <2>1. RedRow' = ((LimbSum(T', j) * B + h * BPow[j+1]
                    + (LimbSum(T', S+2) - LimbSum(T', j+1))) - m * LimbSum(n, j+1)) - A * Bi
    BY <1>1, <1>4, <1>6 DEF RedRow, A, Bi
  <2>2. RedRow = ((LimbSum(T, j-1) * B + carry * BPow[j]
                   + (LimbSum(T, S+2) - LimbSum(T, j))) - m * LimbSum(n, j)) - A * Bi
    BY DEF RedRow
  <2>3. RedRow' = RedRow
    BY <2>1, <2>2, <1>8
  <2>4. QED
    BY <1>1, <2>3 DEF IInv, LoopInv, RedInv, RowOf, A, N
<1>10. EntryInv'
  BY <1>1 DEF IInv, LoopInv, EntryInv, Residues
<1>11. QED
  BY <1>1, <1>9, <1>10 DEF LoopInv, IInv, MulInv, SubInv, SelectInv, ValidContext

(* What a number below the bound of a row tells of the operands.           *)
LEMMA OperandsReduced ==
  ASSUME IInv
  PROVE  /\ Value(entry[call.a]) < Value(n) /\ Value(entry[call.b]) < Value(n)
         /\ ValidContext(n, n_prime)
BY OperandTypes DEF IInv, LoopInv, EntryInv, Residues

(* The tail of a reduction row adds at most one bit to the top limb.       *)
LEMMA TailBit ==
  ASSUME IInv, pc = "red", j = S
  PROVE  T[S+1] + Hi(T[S] + carry) <= 1
<1> USE Indices
<1>1. TypeOK /\ i \in 0..(S-1)
  BY DEF IInv, TypeOK
<1>2. PICK a \in Limbs, bi \in Word : a = entry[call.a] /\ bi = entry[call.b][i]
  BY <1>1, OperandTypes
<1>3. T \in [0..(S+1) -> Word] /\ T[S] \in Word /\ T[S+1] \in Word /\ carry \in Word
      /\ n \in Limbs /\ m \in Word
  BY <1>1, OperandTypes
<1>4. PICK sum : sum = U64(T[S] + carry) /\ sum = T[S] + carry
  BY <1>3, AddWords
<1>5. PICK hi \in Word, lo \in Word :
        hi = Hi(sum) /\ lo = U32(sum) /\ Carried(T[S], carry, hi, lo)
  BY <1>3, <1>4, AddWords DEF Carried
<1>6. RedRow = ((LimbSum(T, S-1) * B + carry * BPow[S] + (LimbSum(T, S+2) - LimbSum(T, S)))
                 - m * Value(n)) - Value(a) * bi
  BY <1>2 DEF RedRow, A, Bi, Value
<1>7. RowOf(RedRow)
  BY DEF IInv, LoopInv, RedInv
<1>8. RedRow < Value(a) + Value(n)
  BY <1>2, <1>7 DEF RowOf, A, N
<1>9. Value(a) < Value(n)
  BY <1>2, OperandsReduced
<1>10. RowTail(T, a, n, m, bi, carry, hi, lo)
  BY <1>2, <1>3, <1>5, <1>6, <1>8, <1>9 DEF RowTail
<1>11. T[S+1] + hi <= 1
  BY <1>10, TopFits
<1>12. QED
  BY <1>4, <1>5, <1>11

(* The row ends: its number is a row of one digit more, and the next row   *)
(* or the borrow chain starts from it.                                     *)
LEMMA LoopEndRow == IInv /\ EndRow => LoopInv'
<1> SUFFICES ASSUME IInv, EndRow PROVE LoopInv'
  OBVIOUS
<1> USE Indices
<1>1. /\ pc = "red" /\ j = S /\ j' = 0 /\ i' = i+1 /\ borrow' = borrow /\ carry' = 0
      /\ n' = n /\ n_prime' = n_prime /\ entry' = entry /\ mem' = mem /\ call' = call
      /\ tmp' = tmp /\ pc' = IF i' = S THEN "sub" ELSE "mul"
  BY DEF EndRow, context, NextRow
<1>2. TypeOK /\ i \in 0..(S-1) /\ borrow = 0
  BY <1>1 DEF IInv, TypeOK, LoopInv, SubInv
<1>3. PICK a \in Limbs, b \in Limbs : a = entry[call.a] /\ b = entry[call.b]
  BY <1>2, OperandTypes
<1>4. T \in [0..(S+1) -> Word] /\ T[S] \in Word /\ T[S+1] \in Word /\ carry \in Word
      /\ n \in Limbs /\ m \in Word /\ tmp \in Limbs /\ b[i] \in Word
  BY <1>2, <1>3, OperandTypes DEF Limbs
<1>5. PICK sum : sum = U64(T[S] + carry)
  OBVIOUS
<1>6. PICK hi \in Word, lo \in Word :
        hi = Hi(sum) /\ lo = U32(sum) /\ Carried(T[S], carry, hi, lo)
  BY <1>4, <1>5, AddWords DEF Carried
<1>7. RedRow = ((LimbSum(T, S-1) * B + carry * BPow[S] + (LimbSum(T, S+2) - LimbSum(T, S)))
                 - m * Value(n)) - Value(a) * b[i]
  BY <1>1, <1>3 DEF RedRow, A, Bi, Value
<1>8. RowOf(RedRow)
  BY <1>1 DEF IInv, LoopInv, RedInv
<1>9. PartialProduct(RedRow, a, b, n, i)
  BY <1>3, <1>8 DEF RowOf, PartialProduct, A, N
<1>10. T[S+1] + hi <= 1
  <2>1. T[S+1] + Hi(T[S] + carry) <= 1
    BY <1>1, TailBit
  <2>2. sum = T[S] + carry
    BY <1>4, <1>5, AddWords
  <2>3. QED
    BY <1>6, <2>1, <2>2
<1>11. TopLimb(T[S+1], sum) = T[S+1] + hi /\ T[S+1] + hi \in Word
  <2>1. T[S+1] + hi \in Word
    BY <1>4, <1>10 DEF Word
  <2>2. U32(Hi(sum)) = hi
    BY <1>6, LowOfWord
  <2>3. QED
    BY <2>1, <2>2, LowOfWord DEF TopLimb
<1>12. T' = [T EXCEPT ![S-1] = lo, ![S] = T[S+1] + hi]
  BY <1>5, <1>6, <1>11 DEF EndRow
<1>13. PICK T1 : T1 = [T EXCEPT ![S-1] = lo]
  OBVIOUS
<1>14. ShiftStep(T, T1, T', carry, hi, lo)
  BY <1>4, <1>6, <1>11, <1>12, <1>13 DEF ShiftStep, Written
<1>15. PICK Y \in Nat : Y = LimbSum(T', S+1)
  <2>1. T' \in [0..(S+1) -> Word]
    BY <1>14 DEF ShiftStep
  <2>2. QED
    BY <2>1, RowLimbs
<1>16. RowStep(RedRow, Y, a, b, n, i, m)
  <2>1. Y * B = LimbSum(T, S-1) * B + carry * BPow[S] + (LimbSum(T, S+2) - LimbSum(T, S))
    BY <1>14, <1>15, RowShift
  <2>2. m * Value(n) \in Int /\ Value(a) * b[i] \in Int
    <3>1. Value(n) \in Nat /\ Value(a) \in Nat
      BY <1>4, OperandSum
    <3>2. QED
      BY <1>4, <3>1 DEF Word
  <2>3. PICK y \in Int, mn \in Int, ab \in Int :
          y = Y * B /\ mn = m * Value(n) /\ ab = Value(a) * b[i]
    BY <2>2
  <2>4. RedRow = (y - mn) - ab
    BY <1>7, <2>1, <2>3
  <2>5. RedRow \in Int /\ y = RedRow + mn + ab
    BY <2>4
  <2>6. QED
    BY <1>2, <1>4, <1>9, <2>3, <2>5 DEF RowStep
<1>17. PartialProduct(Y, a, b, n, i+1)
  BY <1>16, RowAdvance
<1>18. MulInv'
  <2> SUFFICES ASSUME pc' = "mul" PROVE RowOf(MulRow)'
    BY DEF MulInv
  <2>1. i' < S
    BY <1>1, <1>2
  <2>2. PICK z \in Int : z = Bi'
    <3>1. b[i+1] \in Word
      BY <1>1, <1>2, <2>1 DEF Limbs
    <3>2. QED
      BY <1>1, <1>3, <3>1 DEF Bi, Word
  <2>3. LimbSum(a, 0) = 0 /\ BPow[0] = 1
    BY OperandSum, BPowDef
  <2>4. MulRow' = (Y + 0 * BPow[0]) - LimbSum(a, 0) * z
    BY <1>1, <1>3, <1>15, <2>2 DEF MulRow
  <2>5. MulRow' = Y
    BY <2>3, <2>4
  <2>6. QED
    BY <1>1, <1>3, <1>17, <2>5 DEF RowOf, PartialProduct, A, N
<1>19. SubInv'
  <2>1. pc' = "sub" => i' = S /\ RowOf(LimbSum(T, S+1))'
    BY <1>1, <1>3, <1>15, <1>17 DEF RowOf, PartialProduct, A, N
  <2>2. LimbSum(tmp', 0) - 0 * BPow[0] = LimbSum(T', 0) - LimbSum(n', 0)
    <3>1. LimbSum(tmp, 0) = 0 /\ LimbSum(n, 0) = 0
      BY <1>4, OperandSum
    <3>2. LimbSum(T', 0) = 0
      BY <1>14, RowLimbs DEF ShiftStep
    <3>3. QED
      BY <1>1, <3>1, <3>2, BPowDef
  <2>3. pc' # "select"
    BY <1>1
  <2>4. QED
    BY <1>1, <1>2, <2>1, <2>2, <2>3 DEF SubInv
<1>20. EntryInv'
  BY <1>1 DEF IInv, LoopInv, EntryInv, Residues
<1>21. QED
  BY <1>1, <1>18, <1>19, <1>20 DEF LoopInv, IInv, RedInv, SelectInv, ValidContext

(* One limb of the borrow chain.                                           *)
LEMMA LoopSub == IInv /\ Sub => LoopInv'
<1> SUFFICES ASSUME IInv, Sub PROVE LoopInv'
  OBVIOUS
<1> USE Indices
<1>1. /\ pc = "sub" /\ pc' = "sub" /\ j < S /\ j' = j+1 /\ i' = i /\ T' = T
      /\ n' = n /\ n_prime' = n_prime /\ entry' = entry /\ mem' = mem /\ call' = call
  BY DEF Sub, context
<1>2. TypeOK /\ j \in 0..(S-1) /\ borrow \in {0, 1} /\ i = S
      /\ RowOf(LimbSum(T, S+1))
      /\ LimbSum(tmp, j) - borrow * BPow[j] = LimbSum(T, j) - LimbSum(n, j)
  BY <1>1 DEF IInv, TypeOK, LoopInv, SubInv
<1>3. T \in [0..(S+1) -> Word] /\ T[j] \in Word /\ n \in Limbs /\ n[j] \in Word
      /\ tmp \in Limbs /\ tmp' \in Limbs
  <2>1. TypeOK'
    BY <1>2, TypeSub
  <2>2. QED
    BY <1>2, <2>1, OperandTypes DEF Limbs, TypeOK
<1>4. PICK d : d = U64(T[j] - n[j] - borrow)
  OBVIOUS
<1>5. PICK u \in Word, b2 \in {0, 1} :
        u = U32(d) /\ b2 = Hi(d) % 2 /\ u - b2 * B = T[j] - n[j] - borrow
  BY <1>2, <1>3, <1>4, SubtractWord
<1>6. tmp' = [tmp EXCEPT ![j] = u] /\ borrow' = b2
  BY <1>4, <1>5 DEF Sub, BorrowBit
<1>7. SubStep(T, tmp, tmp', n, j, u, borrow, b2)
  BY <1>2, <1>3, <1>5, <1>6 DEF SubStep, Written, Limbs
<1>8. LimbSum(tmp', j+1) - b2 * BPow[j+1] = LimbSum(T, j+1) - LimbSum(n, j+1)
  BY <1>7, SubLimb
<1>9. SubInv'
  BY <1>1, <1>2, <1>6, <1>8 DEF SubInv, RowOf, A, N
<1>10. EntryInv'
  BY <1>1 DEF IInv, LoopInv, EntryInv, Residues
<1>11. QED
  BY <1>1, <1>9, <1>10 DEF LoopInv, IInv, MulInv, RedInv, SelectInv, ValidContext

(* A row of two reduced operands is below 2N.                              *)
LEMMA RowsBelow ==
  ASSUME IInv, RowOf(LimbSum(T, S+1))
  PROVE  LimbSum(T, S+1) < 2 * Value(n)
<1>1. TypeOK
  BY DEF IInv
<1>2. PICK a \in Limbs : a = entry[call.a]
  BY <1>1, OperandTypes
<1>3. Value(a) < Value(n)
  BY <1>2, OperandsReduced
<1>4. LimbSum(T, S+1) < Value(a) + Value(n)
  BY <1>2 DEF RowOf, A, N
<1>5. n \in Limbs /\ T \in [0..(S+1) -> Word] /\ S+1 \in Nat
  BY <1>1, OperandTypes, Indices
<1>6. PICK v \in Nat, w \in Nat, X \in Nat :
        v = Value(a) /\ w = Value(n) /\ X = LimbSum(T, S+1)
  <2>1. Value(a) \in Nat
    BY OperandSum
  <2>2. Value(n) \in Nat
    BY <1>5, OperandSum
  <2>3. LimbSum(T, S+1) \in Nat
    BY <1>5, RowLimbs
  <2>4. QED
    BY <2>1, <2>2, <2>3
<1>7. QED
  BY <1>3, <1>4, <1>6

(* What the borrow chain has established when it is done.                  *)
LEMMA ChainDone ==
  ASSUME IInv, pc = "sub", j = S
  PROVE  Subtracted(T, tmp, n, borrow)
<1>1. TypeOK /\ borrow \in {0, 1} /\ RowOf(LimbSum(T, S+1))
      /\ LimbSum(tmp, S) - borrow * BPow[S] = LimbSum(T, S) - LimbSum(n, S)
  BY DEF IInv, TypeOK, LoopInv, SubInv
<1>2. LimbSum(T, S+1) < 2 * Value(n)
  BY <1>1, RowsBelow
<1>3. QED
  BY <1>1, <1>2, OperandTypes DEF Subtracted

(* The sign bit of T[s] - borrow says whether N goes into the row.         *)
LEMMA SignBit ==
  ASSUME NEW t \in 0..1, NEW bw \in {0, 1}
  PROVE  GeBit(U64(t - bw)) = IF t >= bw THEN 1 ELSE 0
<1>1. PICK q \in Nat : q = B * B /\ q >= 4 /\ q \div 2 >= 2 /\ q \div 2 <= q - 1
  <2>1. B * B \in Nat /\ B * B >= 4
    BY BaseAssumption
  <2>2. PICK q \in Nat : q = B * B
    BY <2>1
  <2>3. QED
    BY <2>1, <2>2
<1>2. CASE t >= bw
  <2>1. t - bw \in 0..1
    BY <1>2
  <2>2. U64(t - bw) = t - bw
    BY <2>1, <1>1 DEF U64
  <2>3. QED
    BY <1>1, <1>2, <2>1, <2>2 DEF GeBit
<1>3. CASE ~(t >= bw)
  <2>1. t - bw = -1
    BY <1>3
  <2>2. (-1) % q = q - 1
    BY <1>1
  <2>3. U64(t - bw) = q - 1
    BY <2>1, <2>2, <1>1 DEF U64
  <2>4. QED
    BY <1>1, <1>3, <2>3 DEF GeBit
<1>4. QED
  BY <1>2, <1>3

(* The bit chooses the array that holds the reduced row.                   *)
LEMMA LoopFinal == IInv /\ Final => LoopInv'
<1> SUFFICES ASSUME IInv, Final PROVE LoopInv'
  OBVIOUS
<1> USE Indices
<1>1. /\ pc = "sub" /\ pc' = "select" /\ j = S /\ j' = 0 /\ i' = i /\ T' = T /\ tmp' = tmp
      /\ n' = n /\ n_prime' = n_prime /\ entry' = entry /\ mem' = mem /\ call' = call
      /\ ge' = GeBit(U64(T[S] - borrow))
  BY DEF Final, context
<1>2. TypeOK /\ borrow \in {0, 1} /\ i = S /\ RowOf(LimbSum(T, S+1))
  BY <1>1 DEF IInv, TypeOK, LoopInv, SubInv
<1>3. Subtracted(T, tmp, n, borrow)
  BY <1>1, ChainDone
<1>4. /\ T[S] <= 1
      /\ T[S] >= borrow => /\ LimbSum(T, S+1) >= Value(n)
                           /\ LimbSum(tmp, S) = LimbSum(T, S+1) - Value(n)
      /\ ~(T[S] >= borrow) => /\ LimbSum(T, S+1) < Value(n)
                              /\ LimbSum(T, S) = LimbSum(T, S+1)
  BY <1>3, LastSubtraction
<1>5. T[S] \in 0..1
  <2>1. T[S] \in Word
    BY <1>2, OperandTypes
  <2>2. QED
    BY <1>4, <2>1 DEF Word
<1>6. ge' = IF T[S] >= borrow THEN 1 ELSE 0
  BY <1>1, <1>2, <1>5, SignBit
<1>7. PICK w \in Nat, X \in Nat : w = Value(n) /\ X = LimbSum(T, S+1)
  <2>1. n \in Limbs /\ T \in [0..(S+1) -> Word] /\ S+1 \in Nat
    BY <1>2, OperandTypes
  <2>2. Value(n) \in Nat
    BY <2>1, OperandSum
  <2>3. LimbSum(T, S+1) \in Nat
    BY <2>1, RowLimbs
  <2>4. QED
    BY <2>2, <2>3
<1>8. ge' = 1 <=> X >= w
  BY <1>4, <1>6, <1>7
<1>9. PICK z : z = [k \in 0..(S-1) |-> IF ge' = 1 THEN tmp[k] ELSE T[k]]
  OBVIOUS
<1>10. LimbSum(z, S) = X - (IF ge' = 1 THEN w ELSE 0)
  <2>1. tmp \in Limbs /\ T \in [0..(S+1) -> Word] /\ S+1 \in Nat /\ S-1 \in Nat
    BY <1>2, OperandTypes
  <2>2. CASE ge' = 1
    <3>1. z = tmp
      BY <1>9, <2>1, <2>2 DEF Limbs
    <3>2. QED
      BY <1>4, <1>6, <1>7, <2>2, <3>1
  <2>3. CASE ge' # 1
    <3>1. \A k \in 0..(S-1) : z[k] = T[k]
      BY <1>9, <2>3
    <3>2. z \in [0..(S-1) -> Word]
      BY <1>9, <2>1, <2>3
    <3>3. LimbSum(z, S) = LimbSum(T, S)
      BY <2>1, <3>1, <3>2, SameLimbs
    <3>4. QED
      BY <1>4, <1>6, <1>7, <2>3, <3>3
  <2>4. QED
    BY <2>2, <2>3
<1>11. SelectInv'
  <2>1. [k \in 0..(S-1) |-> SelectLimb(k)]' = z
    BY <1>1, <1>9 DEF SelectLimb
  <2>2. N' = w /\ LimbSum(T', S+1) = X
    BY <1>1, <1>7 DEF N
  <2>3. \A k \in 0..(S-1) : ~(k < j')
    BY <1>1
  <2>4. QED
    BY <1>8, <1>10, <2>1, <2>2, <2>3 DEF SelectInv
<1>12. SubInv'
  BY <1>1, <1>2 DEF SubInv, RowOf, A, N
<1>13. EntryInv'
  BY <1>1 DEF IInv, LoopInv, EntryInv, Residues
<1>14. QED
  BY <1>1, <1>11, <1>12, <1>13 DEF LoopInv, IInv, MulInv, RedInv, ValidContext

(* One limb of the copy: only out changes.                                 *)
LEMMA LoopSelect == IInv /\ Select => LoopInv'
<1> SUFFICES ASSUME IInv, Select PROVE LoopInv'
  OBVIOUS
<1> USE Indices
<1>1. /\ pc = "select" /\ pc' = "select" /\ j < S /\ j' = j+1 /\ i' = i /\ T' = T
      /\ tmp' = tmp /\ ge' = ge
      /\ n' = n /\ n_prime' = n_prime /\ entry' = entry /\ call' = call
      /\ mem' = [mem EXCEPT ![call.out][j] = SelectLimb(j)]
  BY DEF Select, context
<1>2. TypeOK /\ j \in 0..(S-1) /\ call.out \in Bufs /\ mem \in [Bufs -> Limbs]
  BY <1>1 DEF IInv, TypeOK
<1>3. \A x \in Bufs : x # call.out => mem'[x] = mem[x]
  BY <1>1, <1>2
<1>4. \A k \in 0..(S-1) : mem'[call.out][k] = IF k = j THEN SelectLimb(j) ELSE mem[call.out][k]
  <2>1. mem'[call.out] = [mem[call.out] EXCEPT ![j] = SelectLimb(j)]
    BY <1>1, <1>2
  <2>2. mem[call.out] \in [0..(S-1) -> Word]
    BY <1>2 DEF Limbs
  <2>3. QED
    BY <2>1, <2>2, <1>2
<1>5. \A k : SelectLimb(k)' = SelectLimb(k)
  BY <1>1 DEF SelectLimb
<1>6. \A k \in 0..(S-1) : k < j+1 => mem'[call.out][k] = SelectLimb(k)
  <2> SUFFICES ASSUME NEW k \in 0..(S-1), k < j+1
               PROVE  mem'[call.out][k] = SelectLimb(k)
    OBVIOUS
  <2>1. CASE k = j
    BY <1>4, <2>1
  <2>2. CASE k # j
    <3>1. k < j
      BY <1>2, <2>2
    <3>2. mem[call.out][k] = SelectLimb(k)
      BY <1>1, <3>1 DEF IInv, LoopInv, SelectInv
    <3>3. QED
      BY <1>4, <2>2, <3>2
  <2>3. QED
    BY <2>1, <2>2
<1>7. SelectInv'
  <2>1. ge = 1 <=> LimbSum(T, S+1) >= N
    BY <1>1 DEF IInv, LoopInv, SelectInv
  <2>2. LimbSum([k \in 0..(S-1) |-> SelectLimb(k)], S)
          = LimbSum(T, S+1) - (IF ge = 1 THEN N ELSE 0)
    BY <1>1 DEF IInv, LoopInv, SelectInv
  <2>3. [k \in 0..(S-1) |-> SelectLimb(k)]' = [k \in 0..(S-1) |-> SelectLimb(k)]
    BY <1>1 DEF SelectLimb
  <2>4. N' = N /\ T' = T /\ ge' = ge
    BY <1>1 DEF N
  <2>5. \A k \in 0..(S-1) : k < j' => mem'[call'.out][k] = SelectLimb(k)'
    BY <1>1, <1>5, <1>6
  <2>6. QED
    BY <2>1, <2>2, <2>3, <2>4, <2>5 DEF SelectInv
<1>8. SubInv'
  BY <1>1 DEF IInv, LoopInv, SubInv, RowOf, A, N
<1>9. EntryInv'
  BY <1>1, <1>3 DEF IInv, LoopInv, EntryInv, Residues
<1>10. QED
  BY <1>1, <1>7, <1>8, <1>9 DEF LoopInv, IInv, MulInv, RedInv, ValidContext

(* The call returns: out holds the selected array, a residue, and every    *)
(* other buffer holds what it held at the call.                            *)
LEMMA LoopReturn == IInv /\ Return => LoopInv' /\ ResultsReduced'
<1> SUFFICES ASSUME IInv, Return PROVE LoopInv' /\ ResultsReduced'
  OBVIOUS
<1> USE Indices
<1>1. /\ pc = "select" /\ pc' = "idle" /\ j = S /\ mem' = mem /\ n' = n
      /\ n_prime' = n_prime /\ entry' = entry
  BY DEF Return, context
<1>2. TypeOK /\ RowOf(LimbSum(T, S+1))
  BY <1>1 DEF IInv, LoopInv, SubInv
<1>3. n \in Limbs /\ T \in [0..(S+1) -> Word] /\ S+1 \in Nat /\ S-1 \in Nat
      /\ call.out \in Bufs /\ mem \in [Bufs -> Limbs]
  BY <1>2, OperandTypes DEF TypeOK
<1>4. PICK w \in Nat, X \in Nat : w = Value(n) /\ X = LimbSum(T, S+1)
  <2>1. Value(n) \in Nat
    BY <1>3, OperandSum
  <2>2. LimbSum(T, S+1) \in Nat
    BY <1>3, RowLimbs
  <2>3. QED
    BY <2>1, <2>2
<1>5. X < 2 * w
  BY <1>2, <1>4, RowsBelow
<1>6. PICK z : z = [k \in 0..(S-1) |-> SelectLimb(k)]
  OBVIOUS
<1>7. LimbSum(z, S) < w
  <2>1. ge = 1 <=> X >= w
    BY <1>1, <1>4 DEF IInv, LoopInv, SelectInv, N
  <2>2. LimbSum(z, S) = X - (IF ge = 1 THEN w ELSE 0)
    BY <1>1, <1>4, <1>6 DEF IInv, LoopInv, SelectInv, N
  <2>3. QED
    BY <1>4, <1>5, <2>1, <2>2
<1>8. mem[call.out] = z
  <2>1. mem[call.out] \in [0..(S-1) -> Word]
    BY <1>3 DEF Limbs
  <2>2. \A k \in 0..(S-1) : mem[call.out][k] = z[k]
    BY <1>1, <1>6 DEF IInv, LoopInv, SelectInv
  <2>3. QED
    BY <2>1, <2>2, <1>6
<1>9. mem[call.out] \in Residues
  BY <1>3, <1>4, <1>7, <1>8 DEF Residues, Value
<1>10. \A x \in Bufs : mem[x] \in Residues
  <2>1. \A x \in Bufs : x # call.out => mem[x] = entry[x]
    BY <1>1 DEF IInv, LoopInv, EntryInv
  <2>2. \A x \in Bufs : entry[x] \in Residues
    BY DEF IInv, LoopInv, EntryInv
  <2>3. QED
    BY <1>9, <2>1, <2>2
<1>11. ResultsReduced'
  BY <1>1, <1>10 DEF ResultsReduced, Residues
<1>12. EntryInv'
  BY <1>1 DEF IInv, LoopInv, EntryInv, Residues
<1>13. QED
  BY <1>1, <1>11, <1>12 DEF LoopInv, IInv, MulInv, RedInv, SubInv, SelectInv, ValidContext

(* Nothing the loop invariants speak of changes.                           *)
LEMMA LoopStutter ==
  ASSUME IInv,
         UNCHANGED <<n, n_prime, mem, T, tmp, pc, call, i, j, carry, m, borrow, ge, entry>>
  PROVE  LoopInv' /\ ResultsReduced' /\ DroppedLimbIsZero'
BY DEF IInv, LoopInv, ValidContext, EntryInv, Residues, MulInv, MulRow, RedInv, RedRow,
       SubInv, SelectInv, SelectLimb, RowOf, A, N, Bi, ResultsReduced, DroppedLimbIsZero

(* The invariant is inductive: one step per action of the specification.   *)
LEMMA InductionStep == IInv /\ [Next]_vars => IInv'
<1> SUFFICES ASSUME IInv, [Next]_vars PROVE IInv'
  OBVIOUS
<1> USE Indices
<1>1. TypeOK'
  BY TypeNext DEF IInv
<1>2. TypeOK
  BY DEF IInv
<1>3. LoopInv' /\ ResultsReduced' /\ DroppedLimbIsZero'
  <2>1. ASSUME NEW c \in [out : Bufs, a : Bufs, b : Bufs], Call(c)
        PROVE  LoopInv' /\ ResultsReduced' /\ DroppedLimbIsZero'
    <3>1. LoopInv'
      BY <2>1, LoopCall
    <3>2. pc' = "mul"
      BY <2>1 DEF Call
    <3>3. QED
      BY <3>1, <3>2 DEF ResultsReduced, DroppedLimbIsZero
  <2>2. ASSUME NEW h \in SUBSET {"op", "extra"}, SetHooks(h)
        PROVE  LoopInv' /\ ResultsReduced' /\ DroppedLimbIsZero'
    <3>1. UNCHANGED <<n, n_prime, mem, T, tmp, pc, call, i, j, carry, m, borrow, ge, entry>>
      BY <2>2 DEF SetHooks, context, locals
    <3>2. QED
      BY <3>1, LoopStutter
  <2>3. CASE Mul
    <3>1. pc' = "mul"
      BY <2>3 DEF Mul
    <3>2. QED
      BY <2>3, <3>1, LoopMul DEF ResultsReduced, DroppedLimbIsZero
  <2>4. CASE EndMul
    <3>1. pc' = "red"
      BY <2>4 DEF EndMul
    <3>2. QED
      BY <2>4, <3>1, LoopEndMul DEF ResultsReduced
  <2>5. CASE Red
    <3>1. pc' = "red" /\ j' # 1
      BY <1>2, <2>5 DEF Red, TypeOK
    <3>2. QED
      BY <2>5, <3>1, LoopRed DEF ResultsReduced, DroppedLimbIsZero
  <2>6. CASE EndRow
    <3>1. pc' # "idle" /\ pc' # "red"
      BY <2>6 DEF EndRow
    <3>2. QED
      BY <2>6, <3>1, LoopEndRow DEF ResultsReduced, DroppedLimbIsZero
  <2>7. CASE Sub
    <3>1. pc' = "sub"
      BY <2>7 DEF Sub
    <3>2. QED
      BY <2>7, <3>1, LoopSub DEF ResultsReduced, DroppedLimbIsZero
  <2>8. CASE Final
    <3>1. pc' = "select"
      BY <2>8 DEF Final
    <3>2. QED
      BY <2>8, <3>1, LoopFinal DEF ResultsReduced, DroppedLimbIsZero
  <2>9. CASE Select
    <3>1. pc' = "select"
      BY <2>9 DEF Select
    <3>2. QED
      BY <2>9, <3>1, LoopSelect DEF ResultsReduced, DroppedLimbIsZero
  <2>10. CASE Return
    <3>1. pc' = "idle"
      BY <2>10 DEF Return
    <3>2. QED
      BY <2>10, <3>1, LoopReturn DEF DroppedLimbIsZero
  <2>11. CASE UNCHANGED vars
    <3>1. UNCHANGED <<n, n_prime, mem, T, tmp, pc, call, i, j, carry, m, borrow, ge, entry>>
      BY <2>11 DEF vars
    <3>2. QED
      BY <3>1, LoopStutter
  <2>12. QED
    BY <2>1, <2>2, <2>3, <2>4, <2>5, <2>6, <2>7, <2>8, <2>9, <2>10, <2>11 DEF Next, Step
<1>4. QED
  BY <1>1, <1>3 DEF IInv

(* The inductive invariant holds in every reachable state.                 *)
THEOREM Inductive == Spec => []IInv
<1>1. Init => IInv
  BY TypeInit, LoopInit DEF IInv
<1>2. IInv /\ [Next]_vars => IInv'
  BY InductionStep
<1>3. QED
  BY <1>1, <1>2, PTL DEF Spec

(* The scratch rows stand, between any two loop iterations, for the        *)
(* partial product of exactly the operands the call was given, and out is  *)
(* not touched before they have been read to the end.                      *)
THEOREM LoopCorrect == Spec => []LoopInv
<1>1. IInv => LoopInv
  BY DEF IInv
<1>2. QED
  BY <1>1, Inductive, PTL

(* What a call leaves in out is below N: the operand of a later product.   *)
THEOREM ResultsCorrect == Spec => []ResultsReduced
<1>1. IInv => ResultsReduced
  BY DEF IInv
<1>2. QED
  BY <1>1, Inductive, PTL

(* The digit the shift of montgomery.cpp:70 drops is zero.                 *)
THEOREM ShiftIsExact == Spec => []DroppedLimbIsZero
<1>1. IInv => DroppedLimbIsZero
  BY DEF IInv
<1>2. QED
  BY <1>1, Inductive, PTL

-----------------------------------------------------------------------------
(* What the invariant says of the machine words.                           *)

(* No accumulation of the two loops leaves 64 bits, and the addition to    *)
(* the top limb does not leave 32.                                         *)
THEOREM WordsDoNotWrap == Spec => []NoWrap
<1>1. IInv => NoWrap
  <2> SUFFICES ASSUME IInv PROVE NoWrap
    OBVIOUS
  <2> USE Indices
  <2>1. TypeOK
    BY DEF IInv
  <2>2. T \in [0..(S+1) -> Word] /\ carry \in Word /\ m \in Word /\ n \in Limbs
        /\ mem[call.a] \in Limbs /\ mem[call.b] \in Limbs /\ i \in 0..S /\ j \in 0..S
    BY <2>1, OperandTypes
  <2>3. ASSUME pc = "mul", j < S
        PROVE  mem[call.a][j] * mem[call.b][i] + T[j] + carry < B * B
    <3>1. i \in 0..(S-1) /\ j \in 0..(S-1) /\ j \in 0..(S+1)
      BY <2>1, <2>2, <2>3 DEF TypeOK
    <3>2. mem[call.a][j] \in Word /\ mem[call.b][i] \in Word /\ T[j] \in Word
      BY <2>2, <3>1 DEF Limbs
    <3>3. QED
      BY <2>2, <3>2, ProductFits
  <2>4. ASSUME pc = "red", j < S
        PROVE  m * n[j] + T[j] + carry < B * B
    <3>1. j \in 0..(S-1) /\ j \in 0..(S+1)
      BY <2>2, <2>4
    <3>2. n[j] \in Word /\ T[j] \in Word
      BY <2>2, <3>1 DEF Limbs
    <3>3. QED
      BY <2>2, <3>2, ProductFits
  <2>5. ASSUME pc = "red", j = S
        PROVE  T[S+1] + Hi(T[S] + carry) < B
    <3>1. T[S+1] + Hi(T[S] + carry) <= 1
      BY <2>5, TailBit
    <3>2. T[S+1] + Hi(T[S] + carry) \in Int
      <4>1. T[S] \in Word /\ T[S+1] \in Word
        BY <2>2
      <4>2. Hi(T[S] + carry) \in Word
        BY <2>2, <4>1, AddWords
      <4>3. QED
        BY <4>1, <4>2 DEF Word
    <3>3. QED
      BY <3>1, <3>2
  <2>6. QED
    BY <2>3, <2>4, <2>5 DEF NoWrap
<1>2. QED
  BY <1>1, Inductive, PTL

(* When the rows are done the number is below 2N and its top limb is a     *)
(* single bit: one subtraction of N is enough.                             *)
THEOREM OneSubtraction == Spec => []RowsBelow2N
<1>1. IInv => RowsBelow2N
  <2> SUFFICES ASSUME IInv, pc = "sub" PROVE LimbSum(T, S+1) < 2 * N /\ T[S] <= 1
    BY DEF RowsBelow2N
  <2> USE Indices
  <2>1. TypeOK /\ RowOf(LimbSum(T, S+1))
    BY DEF IInv, LoopInv, SubInv
  <2>2. LimbSum(T, S+1) < 2 * Value(n)
    BY <2>1, RowsBelow
  <2>3. n \in Limbs /\ T \in [0..(S+1) -> Word]
    BY <2>1, OperandTypes
  <2>4. T[S] <= 1
    BY <2>2, <2>3, TopLimbBit
  <2>5. QED
    BY <2>2, <2>4 DEF N
<1>2. QED
  BY <1>1, Inductive, PTL

-----------------------------------------------------------------------------
(* The limb-level product implements the one-step product of MontMul: the  *)
(* step that returns is the multiplication, all others are stutters.  The  *)
(* result is the only residue and its quotient the only quotient there is, *)
(* because the modulus and the radix are coprime.                          *)

-----------------------------------------------------------------------------
(* The modulus and the radix.                                              *)

(* A limb array agrees with its lowest limb modulo the base.               *)
LEMMA LowLimb ==
  ASSUME NEW x \in Limbs
  PROVE  \E w \in Int : Value(x) = x[0] + B * w
<1> USE Indices
<1> DEFINE P == {k \in Nat : \E w \in Int : LimbSum(x, k+1) = Limb(x, 0) + B * w}
<1>1. \A k \in Nat : Limb(x, k) \in Int
  BY ArrayLimbs DEF Limbs
<1>2. LimbSum(x, 0) = 0 /\ \A k \in Nat : LimbSum(x, k+1) = LimbSum(x, k) + Limb(x, k) * BPow[k]
  BY <1>1, LimbSumRec
<1>3. 0 \in P
  <2>1. LimbSum(x, 0+1) = Limb(x, 0) + B * 0
    BY <1>1, <1>2, BPowDef
  <2>2. QED
    BY <2>1
<1>4. \A k \in P : k + 1 \in P
  <2> SUFFICES ASSUME NEW k \in Nat, NEW w \in Int, LimbSum(x, k+1) = Limb(x, 0) + B * w
               PROVE  \E w2 \in Int : LimbSum(x, (k+1)+1) = Limb(x, 0) + B * w2
    OBVIOUS
  <2>1. LimbSum(x, (k+1)+1) = LimbSum(x, k+1) + Limb(x, k+1) * BPow[k+1]
    BY <1>2
  <2>2. BPow[k+1] = B * BPow[k] /\ BPow[k] \in Int
    BY BPowDef
  <2>3. PICK l \in Int, p \in Int : l = Limb(x, k+1) /\ p = BPow[k]
    BY <1>1, <2>2
  <2>4. l * (B * p) = B * (l * p)
    OBVIOUS
  <2>5. B * (w + l * p) = B * w + B * (l * p)
    OBVIOUS
  <2>6. LimbSum(x, (k+1)+1) = Limb(x, 0) + B * (w + l * p)
    BY <1>1, <2>1, <2>2, <2>3, <2>4, <2>5
  <2>7. w + l * p \in Int
    OBVIOUS
  <2>8. WITNESS w + l * p \in Int
  <2>9. QED
    BY <2>6
<1>5. P = Nat
  <2> HIDE DEF P
  <2>1. P \subseteq Nat
    BY DEF P
  <2>2. QED
    BY <1>3, <1>4, <2>1, SetInduction
<1>6. S-1 \in P
  BY <1>5
<1>7. PICK w \in Int : LimbSum(x, (S-1)+1) = Limb(x, 0) + B * w
  BY <1>6
<1>8. (S-1)+1 = S /\ Limb(x, 0) = x[0]
  BY DEF Limbs, Limb
<1>9. QED
  BY <1>7, <1>8 DEF Value

(* A usable modulus is odd and coprime to the base: that is what n_prime   *)
(* shows...                                                                *)
LEMMA ModulusAndBase ==
  ASSUME NEW x, NEW np, ValidContext(x, np)
  PROVE  /\ Value(x) \in 3..(R-1) /\ Value(x) % 2 = 1
         /\ Bezout(B, Value(x))
<1> USE Indices
<1>1. x \in Limbs /\ np \in Int /\ x[0] \in Int /\ x[0] % 2 = 1 /\ Value(x) >= 3
      /\ (x[0] * np + 1) % B = 0
  BY DEF ValidContext, Limbs, Word
<1>2. Value(x) \in Nat /\ Value(x) < R /\ R \in Int
  BY <1>1, OperandSum, BPowDef DEF R
<1>3. PICK w \in Int : Value(x) = x[0] + B * w
  BY <1>1, LowLimb
<1>4. PICK v \in Nat, x0 \in Int : v = Value(x) /\ x0 = x[0]
  BY <1>1, <1>2
<1>5. v % 2 = 1
  <2>1. PICK c \in Int : B = 2 * c
    <3>1. B = 2 * (B \div 2) /\ B \div 2 \in Int
      BY BaseAssumption
    <3>2. QED
      BY <3>1, Zenon
  <2>2. PICK z \in Int : z = c * w
    OBVIOUS
  <2>3. B * w = 2 * z
    BY <2>1, <2>2
  <2>4. v = x0 + 2 * z /\ x0 % 2 = 1
    BY <1>1, <1>3, <1>4, <2>3
  <2>5. QED
    BY <2>4
<1>6. PICK t \in Int : x0 * np + 1 = t * B
  <2>1. PICK e \in Int : e = x0 * np + 1
    BY <1>1, <1>4
  <2>2. e % B = 0
    BY <1>1, <1>4, <2>1
  <2>3. B \in Nat \ {0}
    BY BaseAssumption
  <2>4. \E t \in Int : e = t * B
    BY <2>2, <2>3, Multiple
  <2>5. QED
    BY <2>1, <2>4
<1>7. B * (t + w * np) + v * (-np) = 1
  <2>1. v * (-np) = -(x0 * np) - B * (w * np)
    BY <1>1, <1>3, <1>4
  <2>2. B * (t + w * np) = t * B + B * (w * np)
    BY <1>1
  <2>3. QED
    BY <1>1, <1>6, <2>1, <2>2
<1>8. t + w * np \in Int /\ -np \in Int
  BY <1>1
<1>9. Bezout(B, v)
  BY <1>7, <1>8 DEF Bezout
<1>10. QED
  BY <1>1, <1>2, <1>4, <1>5, <1>9

(* ...and hence to the radix.                                              *)
LEMMA ModulusAndRadix ==
  ASSUME NEW x, NEW np, ValidContext(x, np)
  PROVE  Bezout(R, Value(x)) /\ Bezout(Value(x), R)
<1> USE Indices
<1>1. PICK v \in Int : v = Value(x) /\ Bezout(B, v)
  BY ModulusAndBase
<1>2. Bezout(R, v) /\ R \in Int
  BY <1>1, BasePowers, BPowDef DEF R
<1>3. Bezout(v, R)
  <2>1. PICK g \in Int, h \in Int : R * g + v * h = 1
    BY <1>2 DEF Bezout
  <2>2. v * h + R * g = 1
    BY <2>1, <1>2
  <2>3. QED
    BY <2>2 DEF Bezout
<1>4. QED
  BY <1>1, <1>2, <1>3

-----------------------------------------------------------------------------
(* What the rows computed.                                                 *)

(* x*r divided by r is x.                                                  *)
LEMMA ExactQuotient ==
  ASSUME NEW r \in Nat \ {0}, NEW x \in Int
  PROVE  (x * r) % r = 0 /\ (x * r) \div r = x
<1>1. PICK e \in Int : e = x * r
  OBVIOUS
<1>2. e % r = 0
  BY <1>1, Multiple
<1>3. PICK d \in Int : d = e \div r
  OBVIOUS
<1>4. e = d * r
  BY <1>2, <1>3
<1>5. (d - x) * r = 0
  BY <1>1, <1>4
<1>6. d = x
  <2>1. ASSUME d - x >= 1 PROVE FALSE
    <3>1. (d - x) * r >= r
      BY <2>1
    <3>2. QED
      BY <3>1, <1>5
  <2>2. ASSUME d - x <= -1 PROVE FALSE
    <3>1. (d - x) * r <= -r
      BY <2>2
    <3>2. QED
      BY <3>1, <1>5
  <2>3. QED
    BY <2>1, <2>2
<1>7. QED
  BY <1>1, <1>2, <1>3, <1>6

(* There is one multiple q*w, q < r, that makes p divisible by r: whether  *)
(* the quotient is w or more is a question about X alone.                  *)
LEMMA TheQuotient ==
  ASSUME NEW w \in Nat \ {0}, NEW r \in Nat \ {0}, Bezout(w, r), NEW p \in Int,
         NEW q \in 0..(r-1), NEW X \in Int, X * r = p + q * w
  PROVE  (\E q2 \in 0..(r-1) : /\ (p + q2 * w) % r = 0
                               /\ (p + q2 * w) \div r >= w)
           <=> X >= w
<1>1. (p + q * w) % r = 0 /\ (p + q * w) \div r = X
  BY ExactQuotient
<1>2. ASSUME NEW q2 \in 0..(r-1), (p + q2 * w) % r = 0
      PROVE  q2 = q
  <2>1. PICK e \in Int : e = p + q2 * w
    OBVIOUS
  <2>2. PICK t \in Int : e = t * r
    BY <1>2, <2>1, Multiple
  <2>3. PICK d \in Int, k \in Int : d = q2 - q /\ k = t - X
    OBVIOUS
  <2>4. d * w = k * r
    BY <2>1, <2>2, <2>3
  <2>5. d < r /\ -r < d /\ w \in Int /\ r \in Int
    BY <2>3
  <2>6. d = 0
    BY <2>4, <2>5, Cancel
  <2>7. QED
    BY <2>3, <2>6
<1>3. QED
  BY <1>1, <1>2

(* When the select loop is done, the array it copied is the product of the *)
(* numbers the call was given, and ge says whether N was subtracted.       *)
LEMMA Selected ==
  ASSUME IInv, pc = "select"
  PROVE  LET a == Value(entry[call.a])
             b == Value(entry[call.b])
         IN  /\ LimbSum([k \in 0..(S-1) |-> SelectLimb(k)], S) = M!Product(a, b)
             /\ ge = 1 <=> M!Extra(a, b)
<1> USE Indices
<1>1. TypeOK /\ i = S /\ RowOf(LimbSum(T, S+1)) /\ ValidContext(n, n_prime)
  BY DEF IInv, LoopInv, SubInv
<1>2. n \in Limbs /\ T \in [0..(S+1) -> Word] /\ ge \in {0, 1}
      /\ entry[call.a] \in Limbs /\ entry[call.b] \in Limbs
  BY <1>1, OperandTypes DEF TypeOK
<1>3. PICK w \in Nat, X \in Nat, r \in Nat : w = Value(n) /\ X = LimbSum(T, S+1) /\ r = R
  <2>1. Value(n) \in Nat /\ LimbSum(T, S+1) \in Nat /\ R \in Nat
    BY <1>2, OperandSum, RowLimbs, BPowDef DEF R
  <2>2. QED
    BY <2>1
<1>4. PICK a \in Nat, b \in Nat : a = Value(entry[call.a]) /\ b = Value(entry[call.b])
  <2>1. Value(entry[call.a]) \in Nat /\ Value(entry[call.b]) \in Nat
    BY <1>2, OperandSum
  <2>2. QED
    BY <2>1
<1>5. w \in 3..(r-1) /\ Bezout(r, w) /\ Bezout(w, r)
  BY <1>1, <1>3, ModulusAndBase, ModulusAndRadix
<1>6. X < 2 * w
  BY <1>1, <1>3, RowsBelow
<1>7. PICK q \in 0..(r-1) : X * r = a * b + q * w
  BY <1>1, <1>3, <1>4 DEF RowOf, A, N, R, Value
<1>8. ge = 1 <=> X >= w
  BY <1>3 DEF IInv, LoopInv, SelectInv, N
<1>9. PICK p \in Int : p = a * b
  OBVIOUS
<1>10. PICK y \in Int : y = X - (IF ge = 1 THEN w ELSE 0)
  <2>1. (X - (IF ge = 1 THEN w ELSE 0)) \in Int
    OBVIOUS
  <2>2. QED
    BY <2>1, Zenon
<1>11. y \in 0..(w-1)
  BY <1>6, <1>8, <1>10
<1>12. PICK t \in Int : y * r = p + t * w
  <2>1. CASE ge = 1
    <3>1. y * r = X * r - r * w
      BY <2>1, <1>10
    <3>2. y * r = p + (q - r) * w
      BY <3>1, <1>7, <1>9
    <3>3. q - r \in Int
      OBVIOUS
    <3>4. QED
      BY <3>2, <3>3
  <2>2. CASE ge # 1
    BY <2>2, <1>7, <1>9, <1>10
  <2>3. QED
    BY <2>1, <2>2
<1>13. w \in Nat \ {0} /\ r \in Nat \ {0} /\ r \in Int /\ X \in Int
  BY <1>5
<1>14. (CHOOSE z \in 0..(w-1) : (z * r - p) % w = 0) = y
  BY <1>5, <1>11, <1>12, <1>13, TheResidue, Zenon
<1>15. (\E q2 \in 0..(r-1) : (p + q2 * w) % r = 0 /\ (p + q2 * w) \div r >= w)
         <=> X >= w
  <2>1. X * r = p + q * w
    BY <1>7, <1>9
  <2>2. QED
    BY <2>1, <1>5, <1>13, TheQuotient, Zenon
<1>16. M!Product(a, b) = y
  BY <1>3, <1>9, <1>14 DEF M!Product, N
<1>17. M!Extra(a, b) <=> X >= w
  BY <1>3, <1>9, <1>15 DEF M!Extra, N
<1>18. LimbSum([k \in 0..(S-1) |-> SelectLimb(k)], S) = y
  BY <1>3, <1>10 DEF IInv, LoopInv, SelectInv, N
<1>19. QED
  BY <1>4, <1>8, <1>16, <1>17, <1>18

-----------------------------------------------------------------------------
(* The simulation.                                                         *)

(* What MontMul sees of a state: the number in every buffer, as it was at  *)
(* the call while one runs, and the counter without the count of the call  *)
(* that has not returned.                                                  *)
Seen    == [x \in Bufs |-> Value(IF pc = "idle" THEN mem[x] ELSE entry[x])]
Counted == IF pc = "select" /\ "extra" \in hooks THEN extra_redc - ge ELSE extra_redc

(* The initial states are initial states of MontMul.                       *)
LEMMA SimulatesInit == Init => M!Init
<1> SUFFICES ASSUME Init PROVE M!Init
  OBVIOUS
<1>1. TypeOK /\ ValidContext(n, n_prime) /\ pc = "idle"
  BY TypeInit DEF Init
<1>2. N \in {k \in 3..(R-1) : k % 2 = 1}
  BY <1>1, ModulusAndBase DEF N
<1>3. \A x \in Bufs : Value(mem[x]) \in 0..(N-1)
  <2> SUFFICES ASSUME NEW x \in Bufs PROVE Value(mem[x]) \in 0..(N-1)
    OBVIOUS
  <2>1. mem[x] \in Limbs /\ n \in Limbs /\ Value(mem[x]) < Value(n)
    BY <1>1 DEF Init, Residues
  <2>2. Value(mem[x]) \in Nat /\ Value(n) \in Nat
    BY <2>1, OperandSum
  <2>3. QED
    BY <2>1, <2>2 DEF N
<1>4. Seen \in [Bufs -> 0..(N-1)]
  BY <1>1, <1>3 DEF Seen
<1>5. Counted = 0 /\ ("extra" \in hooks) \in BOOLEAN
  BY DEF Counted, Init
<1>6. QED
  BY <1>2, <1>4, <1>5 DEF M!Init, Seen, Counted

(* A step that leaves buffers, call, hooks and counter as they are, and    *)
(* does not cross into or out of the select loop, stutters.                *)
LEMMA SimulatesInner ==
  ASSUME pc' # "idle", pc # "idle",
         UNCHANGED <<n, entry, hooks>>, Counted' = Counted
  PROVE  UNCHANGED M!vars
<1>1. Seen' = Seen
  BY DEF Seen
<1>2. N' = N
  BY DEF N
<1>3. QED
  BY <1>1, <1>2 DEF M!vars, Seen, Counted

(* The return is the multiplication.                                       *)
LEMMA SimulatesReturn == IInv /\ Return => M!Multiply(call.out, call.a, call.b)
<1> SUFFICES ASSUME IInv, Return PROVE M!Multiply(call.out, call.a, call.b)
  OBVIOUS
<1> USE Indices
<1>1. /\ pc = "select" /\ pc' = "idle" /\ j = S
      /\ UNCHANGED <<n, mem, entry, call, hooks, extra_redc, ge>>
  BY DEF Return, context, locals, counts
<1>2. TypeOK /\ call.out \in Bufs /\ call.a \in Bufs /\ call.b \in Bufs
      /\ mem \in [Bufs -> Limbs] /\ ge \in {0, 1} /\ extra_redc \in Nat
  BY DEF IInv, TypeOK
<1>3. PICK z : z = [k \in 0..(S-1) |-> SelectLimb(k)]
  OBVIOUS
<1>4. mem[call.out] = z
  <2>1. mem[call.out] \in [0..(S-1) -> Word]
    BY <1>2 DEF Limbs
  <2>2. \A k \in 0..(S-1) : mem[call.out][k] = z[k]
    BY <1>1, <1>3 DEF IInv, LoopInv, SelectInv
  <2>3. QED
    BY <2>1, <2>2, <1>3
<1>5. \A x \in Bufs : x # call.out => mem[x] = entry[x]
  BY <1>1 DEF IInv, LoopInv, EntryInv
<1>6. PICK a, b : a = Value(entry[call.a]) /\ b = Value(entry[call.b])
  OBVIOUS
<1>7. LimbSum(z, S) = M!Product(a, b) /\ (ge = 1 <=> M!Extra(a, b))
  BY <1>1, <1>3, <1>6, Selected
<1>8. Value(mem[call.out]) = M!Product(a, b)
  BY <1>4, <1>7 DEF Value
<1>9. Seen[call.a] = a /\ Seen[call.b] = b
  BY <1>1, <1>2, <1>6 DEF Seen
<1>10. Seen' = [Seen EXCEPT ![call.out] = M!Product(a, b)]
  <2>1. Seen = [x \in Bufs |-> Value(entry[x])] /\ Seen' = [x \in Bufs |-> Value(mem[x])]
    BY <1>1 DEF Seen
  <2>2. QED
    BY <2>1, <1>2, <1>5, <1>8
<1>11. Counted' = IF "extra" \in hooks /\ M!Extra(a, b) THEN Counted + 1 ELSE Counted
  BY <1>1, <1>2, <1>7 DEF Counted
<1>12. N' = N
  BY <1>1 DEF N
<1>13. QED
  BY <1>1, <1>9, <1>10, <1>11, <1>12 DEF M!Multiply, Seen, Counted

(* Every step of the limb-level product is a step of MontMul or a stutter. *)
LEMMA SimulatesStep == IInv /\ [Next]_vars => [M!Next]_(M!vars)
<1> SUFFICES ASSUME IInv, [Next]_vars PROVE M!Next \/ UNCHANGED M!vars
  OBVIOUS
<1>1. TypeOK
  BY DEF IInv
<1>2. ASSUME NEW c \in [out : Bufs, a : Bufs, b : Bufs], Call(c)
      PROVE  UNCHANGED M!vars
  <2>1. pc = "idle" /\ pc' = "mul" /\ entry' = mem /\ UNCHANGED <<n, hooks, extra_redc>>
    BY <1>2 DEF Call, context
  <2>2. Seen' = Seen /\ Counted' = Counted /\ N' = N
    BY <2>1 DEF Seen, Counted, N
  <2>3. QED
    BY <2>1, <2>2 DEF M!vars, Seen, Counted
<1>3. ASSUME NEW h \in SUBSET {"op", "extra"}, SetHooks(h)
      PROVE  M!Watch
  <2>1. pc = "idle" /\ pc' = "idle" /\ UNCHANGED <<n, mem, extra_redc>>
    BY <1>3 DEF SetHooks, context
  <2>2. Seen' = Seen /\ Counted' = Counted /\ N' = N
    BY <2>1 DEF Seen, Counted, N
  <2>3. QED
    BY <2>2 DEF M!Watch, Seen, Counted
<1>4. CASE Mul
  <2>1. pc = "mul" /\ pc' = "mul" /\ UNCHANGED <<n, entry, hooks, extra_redc>>
    BY <1>4 DEF Mul, context, counts
  <2>2. QED
    BY <2>1, SimulatesInner DEF Counted
<1>5. CASE EndMul
  <2>1. pc = "mul" /\ pc' = "red" /\ UNCHANGED <<n, entry, hooks, extra_redc>>
    BY <1>5 DEF EndMul, context, counts
  <2>2. QED
    BY <2>1, SimulatesInner DEF Counted
<1>6. CASE Red
  <2>1. pc = "red" /\ pc' = "red" /\ UNCHANGED <<n, entry, hooks, extra_redc>>
    BY <1>6 DEF Red, context, counts
  <2>2. QED
    BY <2>1, SimulatesInner DEF Counted
<1>7. CASE EndRow
  <2>1. pc = "red" /\ pc' \in {"mul", "sub"} /\ UNCHANGED <<n, entry, hooks, extra_redc>>
    BY <1>7 DEF EndRow, context, counts
  <2>2. QED
    BY <2>1, SimulatesInner DEF Counted
<1>8. CASE Sub
  <2>1. pc = "sub" /\ pc' = "sub" /\ UNCHANGED <<n, entry, hooks, extra_redc>>
    BY <1>8 DEF Sub, context, counts
  <2>2. QED
    BY <2>1, SimulatesInner DEF Counted
<1>9. CASE Final
  <2>1. pc = "sub" /\ pc' = "select" /\ UNCHANGED <<n, entry, hooks>>
        /\ extra_redc' = IF "extra" \in hooks THEN extra_redc + ge' ELSE extra_redc
    BY <1>9 DEF Final, context
  <2>2. extra_redc \in Nat /\ ge' \in {0, 1}
    BY <1>1, <1>9, TypeFinal DEF TypeOK
  <2>3. Counted' = Counted
    <3>1. Counted = extra_redc
      BY <2>1 DEF Counted
    <3>2. Counted' = IF "extra" \in hooks THEN extra_redc' - ge' ELSE extra_redc'
      BY <2>1 DEF Counted
    <3>3. ASSUME "extra" \in hooks PROVE extra_redc' - ge' = extra_redc
      <4>1. extra_redc' = extra_redc + ge'
        BY <2>1, <3>3, Zenon
      <4>2. PICK e \in Int, g \in Int : e = extra_redc /\ g = ge'
        BY <2>2
      <4>3. extra_redc' = e + g
        BY <4>1, <4>2
      <4>4. (e + g) - g = e
        OBVIOUS
      <4>5. QED
        BY <4>2, <4>3, <4>4, Zenon
    <3>4. QED
      BY <2>1, <3>1, <3>2, <3>3
  <2>4. QED
    BY <2>1, <2>3, SimulatesInner
<1>10. CASE Select
  <2>1. pc = "select" /\ pc' = "select" /\ UNCHANGED <<n, entry, hooks, extra_redc, ge>>
    BY <1>10 DEF Select, context, counts
  <2>2. QED
    BY <2>1, SimulatesInner DEF Counted
<1>11. CASE Return
  <2>1. M!Multiply(call.out, call.a, call.b)
    BY <1>11, SimulatesReturn
  <2>2. call.out \in Bufs /\ call.a \in Bufs /\ call.b \in Bufs
    BY <1>1 DEF TypeOK
  <2>3. QED
    BY <2>1, <2>2 DEF M!Next
<1>12. CASE UNCHANGED vars
  <2>1. UNCHANGED <<n, mem, pc, ge, hooks, extra_redc, entry>>
    BY <1>12 DEF vars
  <2>2. Seen' = Seen /\ Counted' = Counted /\ N' = N
    BY <2>1 DEF Seen, Counted, N
  <2>3. QED
    BY <2>1, <2>2 DEF M!vars, Seen, Counted
<1>13. QED
  BY <1>2, <1>3, <1>4, <1>5, <1>6, <1>7, <1>8, <1>9, <1>10, <1>11, <1>12
     DEF Next, Step, M!Next

(* montgomery.hpp:48, "out = a*b*R^-1 mod N": whatever out                 *)
(* aliases, whatever the scratch rows hold, a sequence of calls is a       *)
(* sequence of one-step products, and the extra-reduction counter counts   *)
(* exactly the products whose unreduced quotient was N or more.            *)
THEOREM Refinement == Spec => MontMulSpec
<1>1. Init => M!Init
  BY SimulatesInit
<1>2. IInv /\ [Next]_vars => [M!Next]_(M!vars)
  BY SimulatesStep
<1>3. Spec => []IInv
  BY Inductive
<1>4. QED
  BY <1>1, <1>2, <1>3, PTL DEF Spec, MontMulSpec, M!Spec
=============================================================================
