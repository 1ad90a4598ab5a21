----------------------------- MODULE ThreadsProofs -----------------------------
(***************************************************************************)
(* Proofs about threads that multiply on one context: for every set of     *)
(* threads, every even base, limb count, modulus and operands, and every   *)
(* interleaving of their rows, each thread gets the one-step products, and *)
(* the shared counters never show more than happened.                      *)
(***************************************************************************)
EXTENDS Threads, NumberLemmas

-----------------------------------------------------------------------------
(* The arithmetic of a row.                                                *)

(* With k digits of b done the row times B^k is the partial product plus a *)
(* multiple of the modulus w.                                              *)
DigitsDone(w, a, b, k, row) ==
  \E q \in 0..(BPow[k] - 1) : row * BPow[k] = a * (b % BPow[k]) + q * w

ClearsDigit(w, np) == w \in Nat \ {0} /\ np \in Word /\ (w * np + 1) % B = 0

NewRow(w, np, a, b, k, row) ==
  LET sum == row + a * Digit(b, k)
  IN  (sum + ((sum * np) % B) * w) \div B

(* So it is with one more, because the multiple of w clears a digit.       *)
LEMMA OneRow ==
  ASSUME NEW w, NEW np, ClearsDigit(w, np), NEW a \in Nat, NEW b \in Nat, NEW k \in Nat,
         NEW row \in Nat, DigitsDone(w, a, b, k, row)
  PROVE  /\ NewRow(w, np, a, b, k, row) \in Int
         /\ DigitsDone(w, a, b, k + 1, NewRow(w, np, a, b, k, row))
<1> DEFINE new == NewRow(w, np, a, b, k, row)
<1>a. w \in Nat \ {0} /\ np \in Word /\ (w * np + 1) % B = 0
  BY DEF ClearsDigit
<1>b. PICK q \in 0..(BPow[k] - 1) : row * BPow[k] = a * (b % BPow[k]) + q * w
  BY DEF DigitsDone
<1>1. PICK P \in Nat \ {0}, g \in Word, l \in Nat :
        /\ P = BPow[k] /\ BPow[k+1] = B * P /\ g = Digit(b, k) /\ l = b % P
        /\ b % BPow[k+1] = l + g * P
  <2>1. BPow[k] \in Nat \ {0} /\ BPow[k+1] = B * BPow[k]
    BY BPowDef
  <2>2. Digit(b, k) \in Word /\ b % BPow[k] \in Nat
    BY <2>1, NextDigit DEF Digit
  <2>3. b % BPow[k+1] = (b % BPow[k]) + Digit(b, k) * BPow[k]
    BY NextDigit DEF Digit
  <2>4. QED
    BY <2>1, <2>2, <2>3, Zenon
<1>2. B \in Nat \ {0} /\ g \in Nat /\ np \in Nat /\ q \in Nat /\ q <= P - 1 /\ w \in Nat
  BY <1>a, <1>b, <1>1, BaseAssumption DEF Word
<1>3. PICK sum \in Nat : sum = row + a * g
  BY <1>2
<1>4. PICK m \in 0..(B-1), u \in Int : m = (sum * np) % B /\ sum * np = m + u * B
  <2>1. PICK s \in Int : s = sum * np
    BY <1>2
  <2>2. QED
    <3>1. PICK u \in Int, m \in 0..(B-1) : u = s \div B /\ m = s % B /\ s = m + u * B
      BY <1>2, Division
    <3>2. QED
      BY <2>1, <3>1, Zenon
<1>5. PICK t \in Int : w * np + 1 = t * B
  <2>1. PICK e \in Int : e = w * np + 1
    BY <1>2
  <2>2. QED
    BY <1>a, <1>2, <2>1, Multiple
<1>6. sum + m * w = (sum * t - u * w) * B
  <2>1. sum * (t * B) = sum * (w * np) + sum
    BY <1>2, <1>5
  <2>2. sum * (w * np) = (sum * np) * w
    BY <1>2
  <2>3. (sum * np) * w = m * w + (u * B) * w
    <3>1. (m + u * B) * w = m * w + (u * B) * w
      BY <1>2
    <3>2. QED
      BY <1>4, <3>1
  <2>4. sum * (t * B) = (sum * t) * B /\ (u * B) * w = (u * w) * B
    BY <1>2
  <2>5. (sum * t - u * w) * B = (sum * t) * B - (u * w) * B
    BY <1>2
  <2>6. PICK x \in Int, y \in Int, v \in Int :
          x = (sum * t) * B /\ y = (u * w) * B /\ v = m * w
    BY <1>2
  <2>7. x = (v + y) + sum
    BY <2>1, <2>2, <2>3, <2>4, <2>6
  <2>8. sum + v = x - y
    BY <2>7
  <2>9. QED
    BY <2>5, <2>6, <2>8
<1>7. PICK z \in Int : z = sum * t - u * w
  BY <1>2
<1>8. (z * B) \div B = z
  BY <1>2
<1>9. new = z
  BY <1>1, <1>3, <1>4, <1>6, <1>7, <1>8 DEF NewRow
<1>10. z * (B * P) = a * (l + g * P) + (q + m * P) * w
  <2>1. z * (B * P) = (z * B) * P
    BY <1>2
  <2>2. (z * B) * P = (row + a * g + m * w) * P
    BY <1>3, <1>6, <1>7
  <2>3. (row + a * g + m * w) * P = row * P + a * (g * P) + (m * P) * w
    BY <1>2
  <2>4. row * P = a * l + q * w
    BY <1>b, <1>1
  <2>5. a * (l + g * P) = a * l + a * (g * P) /\ (q + m * P) * w = q * w + (m * P) * w
    BY <1>2
  <2>6. PICK al \in Int, qw \in Int, agP \in Int, mPw \in Int :
          al = a * l /\ qw = q * w /\ agP = a * (g * P) /\ mPw = (m * P) * w
    BY <1>2
  <2>7. z * (B * P) = ((al + qw) + agP) + mPw
    BY <2>1, <2>2, <2>3, <2>4, <2>6
  <2>8. a * (l + g * P) + (q + m * P) * w = (al + agP) + (qw + mPw)
    BY <2>5, <2>6
  <2>9. QED
    BY <2>7, <2>8
<1>11. q + m * P \in 0..((B * P) - 1)
  <2>1. m * P <= (B - 1) * P /\ m * P \in Nat
    <3>1. m \in Nat /\ B - 1 \in Nat /\ m <= B - 1
      BY <1>2
    <3>2. QED
      BY <3>1, TimesMono
  <2>2. (B - 1) * P = B * P - P /\ B * P \in Int
    BY <1>2
  <2>3. QED
    BY <1>2, <2>1, <2>2
<1>12. QED
  BY <1>1, <1>9, <1>10, <1>11 DEF DigitsDone

(* A row stays below a + N, hence below 2N.                                *)
LEMMA RowBound ==
  ASSUME NEW w \in Nat \ {0}, NEW a \in 0..(w-1), NEW b \in Nat, NEW k \in Nat,
         NEW row \in Int, DigitsDone(w, a, b, k, row)
  PROVE  row \in 0..(2 * w - 1)
<1>a. PICK P \in Nat \ {0} : P = BPow[k]
  BY BPowDef
<1>b. PICK q \in 0..(P-1), l \in 0..(P-1) : l = b % P /\ row * P = a * l + q * w
  <2>1. b % P \in 0..(P-1)
    BY QuotientResidue
  <2>2. QED
    BY <1>a, <2>1 DEF DigitsDone
<1>0. a \in Nat /\ l \in Nat /\ q \in Nat /\ P - 1 \in Nat /\ l <= P - 1 /\ q <= P - 1 /\ a <= w
  OBVIOUS
<1>1. a * l <= w * l /\ l * w <= (P - 1) * w /\ q * w <= (P - 1) * w
  BY <1>0, TimesMono
<1>2. a * l \in Nat /\ q * w \in Nat
  BY <1>0
<1>3. w * l = l * w /\ (P - 1) * w = w * (P - 1)
  BY <1>0
<1>4. row * P <= 2 * (w * (P - 1)) /\ row * P >= 0
  BY <1>b, <1>0, <1>1, <1>2, <1>3
<1>5. 2 * (w * (P - 1)) = (2 * w) * P - 2 * w
  OBVIOUS
<1>6. row >= 0
  <2>1. ASSUME row <= -1 PROVE FALSE
    <3>1. row * P <= (-1) * P
      BY <2>1
    <3>2. QED
      BY <3>1, <1>4
  <2>2. QED
    BY <2>1
<1>7. row < 2 * w
  <2>1. ASSUME row >= 2 * w PROVE FALSE
    <3>1. row * P >= (2 * w) * P
      BY <2>1
    <3>2. QED
      BY <3>1, <1>4, <1>5
  <2>2. QED
    BY <2>1
<1>8. QED
  BY <1>6, <1>7

-----------------------------------------------------------------------------
(* The parts of the invariant.                                             *)

(* The context every thread reads: an odd modulus below R, the word that   *)
(* clears a digit, and R invertible.                                       *)
LEMMA SharedContext ==
  ASSUME N \in Moduli
  PROVE  /\ N \in Nat \ {0} /\ N \in 0..(R-1)
         /\ NPrime \in Word /\ (N * NPrime + 1) % B = 0
         /\ Bezout(R, N)
<1>1. N \in Nat \ {0} /\ N \in 0..(R-1)
  BY ThreadsAssumption
<1>2. \E y \in Word : (N * y + 1) % B = 0
  BY ThreadsAssumption, Zenon
<1>3. NPrime \in Word /\ (N * NPrime + 1) % B = 0
  BY <1>2, Zenon DEF NPrime
<1>4. PICK np \in Int : np = NPrime
  BY <1>3 DEF Word
<1>5. PICK e \in Int : e = N * np + 1
  BY <1>1
<1>6. PICK t \in Int : e = t * B
  <2>1. e % B = 0 /\ B \in Nat \ {0}
    BY <1>3, <1>4, <1>5, BaseAssumption
  <2>2. QED
    BY <2>1, Multiple
<1>7. B * t + N * (-np) = 1
  <2>1. PICK x \in Int, y \in Int : x = N * np /\ y = t * B
    BY <1>1, BaseAssumption
  <2>2. N * (-np) = -x /\ B * t = y
    BY <1>1, <2>1, BaseAssumption
  <2>3. QED
    BY <1>5, <1>6, <2>1, <2>2
<1>8. Bezout(B, N)
  <2>1. -np \in Int
    OBVIOUS
  <2>2. QED
    BY <1>7, <2>1, Zenon DEF Bezout
<1>9. QED
  BY <1>1, <1>3, <1>8, BasePowers

(* One thread's share of OwnRow.                                           *)
Own(t) == DigitsDone(N, acc[t], Operand(t), i[t], T[t])

LEMMA OwnRowIs == OwnRow <=> \A t \in Threads : pc[t] # "idle" => Own(t)
BY Zenon DEF OwnRow, Own, DigitsDone, Scratch

(* It depends on nothing another thread writes.                            *)
LEMMA OwnFrame ==
  ASSUME NEW t \in Threads, Own(t), T'[t] = T[t], i'[t] = i[t], acc'[t] = acc[t],
         other'[t] = other[t], base' = base, N' = N
  PROVE  Own(t)'
<1>1. Operand(t)' = Operand(t)
  BY DEF Operand
<1>2. QED
  BY <1>1 DEF Own

LEMMA OperandRange ==
  ASSUME TypeOK, NEW t \in Threads
  PROVE  Operand(t) \in 0..(N-1)
BY DEF TypeOK, Operand

(* Between them the counters' invariants say that a thread counting alone  *)
(* is the only one inside the product.                                     *)
LEMMA OnlyCaller ==
  ASSUME PhaseInv, Alone, hook, NEW t \in Threads, NEW u \in Threads,
         pc[t] # "idle", pc[u] # "idle"
  PROVE  t = u
<1>1. t \in callers /\ u \in callers
  BY DEF PhaseInv
<1>2. QED
  BY <1>1 DEF Alone

-----------------------------------------------------------------------------
(* The inductive invariant, action by action.                              *)

LEMMA InitInv ==
  ASSUME Init
  PROVE  IInv
<1>1. N \in Nat \ {0}
  BY SharedContext DEF Init
<1>2. TypeOK
  <2>1. 0 \in 0..(2*N - 1) /\ 0 \in 0..S
    BY <1>1, SizeAssumption
  <2>2. T \in [Threads -> 0..(2*N - 1)] /\ i \in [Threads -> 0..S]
    BY <2>1 DEF Init, Nothing
  <2>3. QED
    BY <2>2 DEF Init, TypeOK, Nothing
<1>3. OwnRow
  BY DEF Init, OwnRow
<1>4. PhaseInv
  BY DEF Init, PhaseInv, Nothing
<1>5. CountInv
  BY DEF Init, CountInv
<1>6. AloneInv
  BY DEF Init, AloneInv
<1>7. QED
  BY <1>2, <1>3, <1>4, <1>5, <1>6 DEF IInv, LoopInv

LEMMA AttachInv ==
  ASSUME IInv, Attach
  PROVE  IInv'
<1> USE DEF IInv, LoopInv
<1>0. /\ \A t \in Threads : pc[t] = "idle"
      /\ ~hook /\ hook'
  BY DEF Attach, Quiet
<1>1. TypeOK'
  BY DEF TypeOK, Attach, shared, counts, past
<1>2. OwnRow'
  BY <1>0 DEF OwnRow, Attach
<1>3. PhaseInv'
  BY <1>0 DEF PhaseInv, Attach, Scratch, shared
<1>4. CountInv'
  BY <1>0 DEF CountInv, Attach, counts, past
<1>5. AloneInv'
  BY <1>0 DEF AloneInv, CountInv, Attach, counts, past
<1>6. QED
  BY <1>1, <1>2, <1>3, <1>4, <1>5

LEMMA DetachInv ==
  ASSUME IInv, Detach
  PROVE  IInv'
<1> USE DEF IInv, LoopInv
<1>0. /\ \A t \in Threads : pc[t] = "idle"
      /\ hook /\ ~hook'
  BY DEF Detach, Quiet
<1>1. TypeOK'
  BY DEF TypeOK, Detach, shared
<1>2. OwnRow'
  BY <1>0 DEF OwnRow, Detach
<1>3. PhaseInv'
  BY <1>0 DEF PhaseInv, Detach, Scratch, shared
<1>4. CountInv'
  BY <1>0 DEF CountInv, Detach
<1>5. AloneInv'
  BY <1>0 DEF AloneInv
<1>6. QED
  BY <1>1, <1>2, <1>3, <1>4, <1>5

LEMMA EnterInv ==
  ASSUME IInv, NEW t \in Threads, NEW b \in {Base, t}, Enter(t, b)
  PROVE  IInv'
<1> USE DEF IInv, LoopInv
<1>0. /\ pc[t] = "idle" /\ i[t] = 0 /\ N' = N /\ base' = base /\ acc' = acc
      /\ i' = i /\ ge' = ge /\ hook' = hook /\ op_counter' = op_counter
      /\ extra_redc' = extra_redc /\ reductions' = reductions
      /\ callers \subseteq callers' /\ T' = [T EXCEPT ![t] = 0]
      /\ other' = [other EXCEPT ![t] = b] /\ loaded' = [loaded EXCEPT ![t] = op_counter]
      /\ pc' = [pc EXCEPT ![t] = IF hook THEN "count" ELSE "row"]
  BY DEF Enter, PhaseInv, shared, counts, Scratch
<1>1. TypeOK'
  <2>1. 0 \in 0..(2*N - 1)
    BY SharedContext DEF TypeOK
  <2>2. T' \in [Threads -> 0..(2*N - 1)]
    BY <1>0, <2>1 DEF TypeOK
  <2>3. callers' \subseteq Threads /\ calls' \in Nat
    BY DEF TypeOK, Enter
  <2>4. QED
    BY <1>0, <2>2, <2>3 DEF TypeOK
<1>2. OwnRow'
  <2>1. ASSUME NEW u \in Threads, pc'[u] # "idle"
        PROVE  Own(u)'
    <3>1. CASE u = t
      <4>1. T'[t] = 0 /\ i'[t] = 0
        BY <1>0 DEF TypeOK
      <4>0. N' \in Int /\ acc'[t] \in Int /\ base' \in Int
        <5>1. N \in Int
          BY SharedContext DEF TypeOK
        <5>2. QED
          BY <1>0, <5>1 DEF TypeOK
      <4>2. PICK o \in Int, c \in Int, w \in Int : o = Operand(t)' /\ c = acc'[t] /\ w = N'
        BY <4>0 DEF Operand
      <4>3. BPow[0] = 1 /\ o % 1 = 0
        BY BPowDef
      <4>4. 0 * 1 = c * (o % 1) + 0 * w /\ 0 \in 0..(1 - 1)
        BY <4>3
      <4>5. QED
        BY <3>1, <4>1, <4>2, <4>3, <4>4 DEF Own, DigitsDone
    <3>2. CASE u # t
      <4>1. T'[u] = T[u] /\ i'[u] = i[u] /\ acc'[u] = acc[u] /\ other'[u] = other[u]
            /\ pc[u] # "idle"
        BY <1>0, <2>1, <3>2 DEF TypeOK
      <4>2. Own(u)
        BY <4>1, OwnRowIs
      <4>3. QED
        BY <1>0, <4>1, <4>2, OwnFrame
    <3>3. QED
      BY <3>1, <3>2
  <2>2. QED
    BY <2>1, Zenon DEF OwnRow, Own, DigitsDone, Scratch
<1>3. PhaseInv'
  <2>1. \A u \in Threads : u # t => pc'[u] = pc[u] /\ T'[u] = T[u]
    BY <1>0 DEF TypeOK
  <2>2. hook' => t \in callers'
    BY DEF Enter
  <2>3. pc'[t] = IF hook THEN "count" ELSE "row"
    BY <1>0 DEF TypeOK
  <2>4. QED
    BY <1>0, <2>1, <2>2, <2>3 DEF PhaseInv, Scratch
<1>4. CountInv'
  <2>1. \A u \in Threads : u # t => pc'[u] = pc[u] /\ loaded'[u] = loaded[u]
    BY <1>0 DEF TypeOK
  <2>2. calls' = IF hook THEN calls + 1 ELSE calls
    BY DEF Enter
  <2>3. pc'[t] = (IF hook THEN "count" ELSE "row") /\ loaded'[t] = op_counter
    BY <1>0 DEF TypeOK
  <2>4. ~hook => callers' = callers
    BY DEF Enter
  <2>5. \A u \in Threads : loaded[u] \in Nat
    BY DEF TypeOK
  <2>6. QED
    BY <1>0, <2>1, <2>2, <2>3, <2>4, <2>5 DEF CountInv, TypeOK
<1>5. AloneInv'
  <2> SUFFICES ASSUME hook', Alone' PROVE AloneInv'
    BY DEF AloneInv
  <2>1. hook /\ Alone
    BY <1>0 DEF Alone
  <2>2. \A u \in Threads : u # t => pc[u] = "idle"
    <3> SUFFICES ASSUME NEW u \in Threads, pc[u] # "idle" PROVE u = t
      OBVIOUS
    <3>1. u \in callers'
      BY <1>0, <2>1 DEF PhaseInv
    <3>2. t \in callers'
      BY <2>1 DEF Enter
    <3>3. QED
      BY <3>1, <3>2 DEF Alone
  <2>3. \A u \in Threads : pc[u] = "idle"
    BY <1>0, <2>2
  <2>4. op_counter = calls /\ extra_redc = reductions
    BY <2>1, <2>3 DEF AloneInv
  <2>5. /\ pc'[t] = "count" /\ loaded'[t] = op_counter /\ calls' = calls + 1
        /\ \A u \in Threads : u # t => pc'[u] = "idle"
    BY <1>0, <2>1, <2>3 DEF TypeOK, Enter
  <2>6. QED
    BY <1>0, <2>4, <2>5 DEF AloneInv
<1>6. QED
  BY <1>1, <1>2, <1>3, <1>4, <1>5

LEMMA CountStepInv ==
  ASSUME IInv, NEW t \in Threads, Count(t)
  PROVE  IInv'
<1> USE DEF IInv, LoopInv
<1>0. /\ pc[t] = "count" /\ N' = N /\ base' = base /\ acc' = acc /\ T' = T
      /\ i' = i /\ ge' = ge /\ hook' = hook /\ op_counter' = loaded[t] + 1
      /\ extra_redc' = extra_redc /\ reductions' = reductions
      /\ callers' = callers /\ calls' = calls /\ other' = other /\ loaded' = loaded
      /\ pc' = [pc EXCEPT ![t] = "row"]
  BY DEF Count, shared, past
<1>1. TypeOK'
  BY <1>0 DEF TypeOK
<1>2. OwnRow'
  <2>1. \A u \in Threads : pc'[u] # "idle" => pc[u] # "idle"
    BY <1>0 DEF TypeOK
  <2>2. QED
    BY <1>0, <2>1, OwnRowIs, OwnFrame DEF OwnRow, Own, DigitsDone, Scratch
<1>3. PhaseInv'
  <2>1. \A u \in Threads : u # t => pc'[u] = pc[u]
    BY <1>0 DEF TypeOK
  <2>2. pc'[t] = "row"
    BY <1>0 DEF TypeOK
  <2>3. QED
    BY <1>0, <2>1, <2>2 DEF PhaseInv, Scratch
<1>4. CountInv'
  <2>1. \A u \in Threads : u # t => pc'[u] = pc[u]
    BY <1>0 DEF TypeOK
  <2>2. pc'[t] = "row"
    BY <1>0 DEF TypeOK
  <2>3. hook /\ loaded[t] + 1 <= calls
    BY <1>0 DEF PhaseInv, CountInv
  <2>4. QED
    BY <1>0, <2>1, <2>2, <2>3 DEF CountInv, TypeOK
<1>5. AloneInv'
  <2> SUFFICES ASSUME hook, Alone PROVE AloneInv'
    BY <1>0 DEF AloneInv, Alone
  <2>1. \A u \in Threads : u # t => pc[u] = "idle"
    BY <1>0, OnlyCaller
  <2>2. loaded[t] = op_counter /\ calls = op_counter + 1
    BY <1>0 DEF AloneInv
  <2>3. \A u \in Threads : pc'[u] = "idle" \/ pc'[u] = "row"
    BY <1>0, <2>1 DEF TypeOK
  <2>4. extra_redc = reductions
    BY <1>0, <2>1 DEF AloneInv
  <2>5. QED
    BY <1>0, <2>2, <2>3, <2>4 DEF AloneInv
<1>6. QED
  BY <1>1, <1>2, <1>3, <1>4, <1>5

LEMMA RowStepInv ==
  ASSUME IInv, NEW t \in Threads, Row(t)
  PROVE  IInv'
<1> USE DEF IInv, LoopInv
<1>0. /\ pc[t] = "row" /\ i[t] < S /\ N' = N /\ base' = base /\ acc' = acc
      /\ ge' = ge /\ hook' = hook /\ op_counter' = op_counter /\ pc' = pc
      /\ extra_redc' = extra_redc /\ reductions' = reductions
      /\ callers' = callers /\ calls' = calls /\ other' = other /\ loaded' = loaded
      /\ T' = [T EXCEPT ![t] = RowSum(T[t], acc[t], Operand(t), i[t])]
      /\ i' = [i EXCEPT ![t] = i[t] + 1]
  BY DEF Row, shared, past, counts, Scratch, NextRow
<1>1. PICK k \in Nat, a \in 0..(N-1), b \in 0..(N-1), row \in Nat :
        k = i[t] /\ a = acc[t] /\ b = Operand(t) /\ row = T[t] /\ k + 1 \in 0..S
  BY <1>0, OperandRange, SizeAssumption DEF TypeOK
<1>2. /\ N \in Nat \ {0} /\ NPrime \in Word /\ (N * NPrime + 1) % B = 0
      /\ a \in Nat /\ b \in Nat /\ i'[t] = k + 1 /\ i'[t] \in 0..S /\ acc'[t] = a
      /\ T'[t] = RowSum(row, a, b, k) /\ Operand(t)' = b
  <2>1. N \in Nat \ {0} /\ NPrime \in Word /\ (N * NPrime + 1) % B = 0
    BY SharedContext DEF TypeOK
  <2>2. a \in Nat /\ b \in Nat
    BY <2>1
  <2>3. i'[t] = k + 1 /\ i'[t] \in 0..S /\ acc'[t] = a
    BY <1>0, <1>1 DEF TypeOK
  <2>4. T'[t] = RowSum(row, a, b, k)
    BY <1>0, <1>1 DEF TypeOK
  <2>5. Operand(t)' = b
    BY <1>0, <1>1 DEF Operand
  <2>6. QED
    BY <2>1, <2>2, <2>3, <2>4, <2>5
<1>3. DigitsDone(N, a, b, k, row)
  <2>1. Own(t)
    BY <1>0, OwnRowIs
  <2>2. QED
    BY <1>1, <2>1 DEF Own
<1>4. T'[t] \in Int /\ DigitsDone(N, a, b, k + 1, T'[t])
  <2>1. ClearsDigit(N, NPrime)
    BY <1>2 DEF ClearsDigit
  <2>2. T'[t] = NewRow(N, NPrime, a, b, k, row)
    BY <1>2 DEF RowSum, NewRow
  <2>3. QED
    BY <1>2, <1>3, <2>1, <2>2, OneRow
<1>5. T'[t] \in 0..(2*N - 1)
  <2>1. k + 1 \in Nat
    OBVIOUS
  <2>2. QED
    BY <1>2, <1>4, <2>1, RowBound
<1>6. TypeOK'
  <2>1. T' \in [Threads -> 0..(2*N - 1)]
    BY <1>0, <1>5 DEF TypeOK
  <2>2. i' \in [Threads -> 0..S]
    BY <1>0, <1>2 DEF TypeOK
  <2>3. QED
    BY <1>0, <2>1, <2>2 DEF TypeOK
<1>7. OwnRow'
  <2>1. ASSUME NEW u \in Threads, pc'[u] # "idle"
        PROVE  Own(u)'
    <3>1. CASE u = t
      BY <1>0, <1>2, <1>4, <3>1 DEF Own
    <3>2. CASE u # t
      <4>1. T'[u] = T[u] /\ i'[u] = i[u] /\ acc'[u] = acc[u] /\ other'[u] = other[u]
            /\ pc[u] # "idle"
        BY <1>0, <2>1, <3>2 DEF TypeOK
      <4>2. Own(u)
        BY <4>1, OwnRowIs
      <4>3. QED
        BY <1>0, <4>1, <4>2, OwnFrame
    <3>3. QED
      BY <3>1, <3>2
  <2>2. QED
    BY <2>1, Zenon DEF OwnRow, Own, DigitsDone, Scratch
<1>8. PhaseInv'
  <2>1. \A u \in Threads : u # t => T'[u] = T[u] /\ i'[u] = i[u]
    BY <1>0 DEF TypeOK
  <2>2. QED
    BY <1>0, <2>1 DEF PhaseInv, Scratch
<1>9. CountInv' /\ AloneInv'
  BY <1>0 DEF CountInv, AloneInv, Alone
<1>10. QED
  BY <1>6, <1>7, <1>8, <1>9

LEMMA FinalInv ==
  ASSUME IInv, NEW t \in Threads, Final(t)
  PROVE  IInv'
<1> USE DEF IInv, LoopInv
<1>0. /\ pc[t] = "row" /\ i[t] = S /\ N' = N /\ base' = base /\ acc' = acc
      /\ T' = T /\ i' = i /\ hook' = hook /\ op_counter' = op_counter
      /\ extra_redc' = extra_redc /\ callers' = callers /\ calls' = calls
      /\ other' = other /\ loaded' = [loaded EXCEPT ![t] = extra_redc]
      /\ ge' = [ge EXCEPT ![t] = IF T[t] >= N THEN 1 ELSE 0]
      /\ reductions' = IF hook THEN reductions + ge'[t] ELSE reductions
      /\ pc' = [pc EXCEPT ![t] = IF hook THEN "extra" ELSE "select"]
  BY DEF Final, shared, counts, Scratch
<1>1. ge'[t] = (IF T[t] >= N THEN 1 ELSE 0) /\ loaded'[t] = extra_redc
      /\ pc'[t] = IF hook THEN "extra" ELSE "select"
  BY <1>0 DEF TypeOK
<1>2. \A u \in Threads : u # t => pc'[u] = pc[u] /\ ge'[u] = ge[u] /\ loaded'[u] = loaded[u]
  BY <1>0 DEF TypeOK
<1>3. TypeOK'
  <2>1. ge' \in [Threads -> {0, 1}]
    BY <1>0 DEF TypeOK
  <2>2. ge'[t] \in {0, 1}
    BY <2>1
  <2>3. QED
    BY <1>0, <2>1, <2>2 DEF TypeOK
<1>4. OwnRow'
  <2>1. \A u \in Threads : pc'[u] # "idle" => pc[u] # "idle"
    BY <1>0, <1>2
  <2>2. QED
    BY <1>0, <2>1, OwnRowIs, OwnFrame DEF OwnRow, Own, DigitsDone, Scratch
<1>5. PhaseInv'
  BY <1>0, <1>1, <1>2 DEF PhaseInv, Scratch
<1>6. CountInv'
  <2>1. ge'[t] \in {0, 1}
    BY <1>1
  <2>2. \A u \in Threads : loaded[u] \in Nat /\ ge[u] \in {0, 1}
    BY DEF TypeOK
  <2>3. QED
    BY <1>0, <1>1, <1>2, <2>1, <2>2 DEF CountInv, TypeOK
<1>7. AloneInv'
  <2> SUFFICES ASSUME hook, Alone PROVE AloneInv'
    BY <1>0 DEF AloneInv, Alone
  <2>1. \A u \in Threads : u # t => pc[u] = "idle"
    BY <1>0, OnlyCaller
  <2>2. op_counter = calls /\ extra_redc = reductions
    BY <1>0, <2>1 DEF AloneInv
  <2>3. \A u \in Threads : u # t => pc'[u] = "idle"
    BY <1>2, <2>1
  <2>4. pc'[t] = "extra" /\ reductions' = reductions + ge'[t]
    BY <1>0, <1>1
  <2>5. QED
    BY <1>0, <1>1, <2>2, <2>3, <2>4 DEF AloneInv
<1>8. QED
  BY <1>3, <1>4, <1>5, <1>6, <1>7

LEMMA CountExtraInv ==
  ASSUME IInv, NEW t \in Threads, CountExtra(t)
  PROVE  IInv'
<1> USE DEF IInv, LoopInv
<1>0. /\ pc[t] = "extra" /\ N' = N /\ base' = base /\ acc' = acc /\ T' = T
      /\ i' = i /\ ge' = ge /\ hook' = hook /\ op_counter' = op_counter
      /\ extra_redc' = loaded[t] + ge[t] /\ reductions' = reductions
      /\ callers' = callers /\ calls' = calls /\ other' = other /\ loaded' = loaded
      /\ pc' = [pc EXCEPT ![t] = "select"]
  BY DEF CountExtra, Counted, shared, past
<1>1. pc'[t] = "select" /\ \A u \in Threads : u # t => pc'[u] = pc[u]
  BY <1>0 DEF TypeOK
<1>2. TypeOK'
  <2>1. loaded[t] \in Nat /\ ge[t] \in {0, 1}
    BY DEF TypeOK
  <2>2. loaded[t] + ge[t] \in Nat
    BY <2>1
  <2>3. QED
    BY <1>0, <2>2 DEF TypeOK
<1>3. OwnRow'
  <2>1. \A u \in Threads : pc'[u] # "idle" => pc[u] # "idle"
    BY <1>0, <1>1
  <2>2. QED
    BY <1>0, <2>1, OwnRowIs, OwnFrame DEF OwnRow, Own, DigitsDone, Scratch
<1>4. PhaseInv'
  BY <1>0, <1>1 DEF PhaseInv, Scratch
<1>5. CountInv'
  <2>1. hook /\ loaded[t] + ge[t] <= reductions
    BY <1>0 DEF PhaseInv, CountInv
  <2>2. QED
    BY <1>0, <1>1, <2>1 DEF CountInv
<1>6. AloneInv'
  <2> SUFFICES ASSUME hook, Alone PROVE AloneInv'
    BY <1>0 DEF AloneInv, Alone
  <2>1. \A u \in Threads : u # t => pc[u] = "idle"
    BY <1>0, OnlyCaller
  <2>2. loaded[t] = extra_redc /\ reductions = extra_redc + ge[t]
    BY <1>0 DEF AloneInv
  <2>3. \A u \in Threads : pc'[u] = "idle" \/ pc'[u] = "select"
    BY <1>1, <2>1
  <2>4. op_counter = calls
    BY <1>0, <2>1 DEF AloneInv
  <2>5. QED
    BY <1>0, <2>2, <2>3, <2>4 DEF AloneInv
<1>7. QED
  BY <1>2, <1>3, <1>4, <1>5, <1>6

LEMMA SelectInv ==
  ASSUME IInv, NEW t \in Threads, Select(t)
  PROVE  IInv'
<1> USE DEF IInv, LoopInv
<1>0. /\ pc[t] = "select" /\ N' = N /\ base' = base /\ T' = T
      /\ hook' = hook /\ op_counter' = op_counter
      /\ extra_redc' = extra_redc /\ reductions' = reductions
      /\ callers' = callers /\ calls' = calls
      /\ acc' = [acc EXCEPT ![t] = T[t] - ge[t] * N]
      /\ pc' = [pc EXCEPT ![t] = "idle"] /\ other' = [other EXCEPT ![t] = Base]
      /\ i' = [i EXCEPT ![t] = 0] /\ ge' = [ge EXCEPT ![t] = 0]
      /\ loaded' = [loaded EXCEPT ![t] = 0]
  BY DEF Select, Scratch, shared, counts, past
<1>1. pc'[t] = "idle" /\ i'[t] = 0
  BY <1>0 DEF TypeOK
<1>2. \A u \in Threads : u # t =>
        /\ pc'[u] = pc[u] /\ i'[u] = i[u] /\ ge'[u] = ge[u] /\ loaded'[u] = loaded[u]
        /\ acc'[u] = acc[u] /\ other'[u] = other[u]
  BY <1>0 DEF TypeOK
<1>3. TypeOK'
  <2>1. N \in Nat \ {0} /\ T[t] \in 0..(2*N - 1)
    BY SharedContext DEF TypeOK
  <2>2. ge[t] = (IF T[t] >= N THEN 1 ELSE 0)
    BY <1>0 DEF PhaseInv, Scratch
  <2>3. T[t] - ge[t] * N \in 0..(N-1)
    <3>1. CASE T[t] >= N
      BY <2>1, <2>2, <3>1
    <3>2. CASE ~(T[t] >= N)
      BY <2>1, <2>2, <3>2
    <3>3. QED
      BY <3>1, <3>2
  <2>4. acc' \in [Threads -> 0..(N-1)]
    BY <1>0, <2>3 DEF TypeOK
  <2>5. 0 \in 0..S
    BY SizeAssumption
  <2>6. QED
    BY <1>0, <2>4, <2>5 DEF TypeOK
<1>4. OwnRow'
  <2>1. ASSUME NEW u \in Threads, pc'[u] # "idle"
        PROVE  Own(u)'
    <3>1. u # t /\ pc[u] # "idle"
      BY <1>1, <1>2, <2>1
    <3>2. Own(u)
      BY <3>1, OwnRowIs
    <3>3. QED
      BY <1>0, <1>2, <3>1, <3>2, OwnFrame
  <2>2. QED
    BY <2>1, Zenon DEF OwnRow, Own, DigitsDone, Scratch
<1>5. PhaseInv'
  BY <1>0, <1>1, <1>2 DEF PhaseInv, Scratch
<1>6. CountInv'
  BY <1>0, <1>1, <1>2 DEF CountInv
<1>7. AloneInv'
  <2> SUFFICES ASSUME hook, Alone PROVE AloneInv'
    BY <1>0 DEF AloneInv, Alone
  <2>1. \A u \in Threads : u # t => pc[u] = "idle"
    BY <1>0, OnlyCaller
  <2>2. op_counter = calls /\ extra_redc = reductions
    BY <1>0, <2>1 DEF AloneInv
  <2>3. \A u \in Threads : pc'[u] = "idle"
    BY <1>1, <1>2, <2>1
  <2>4. QED
    BY <1>0, <2>2, <2>3 DEF AloneInv
<1>8. QED
  BY <1>3, <1>4, <1>5, <1>6, <1>7

LEMMA NextInv ==
  ASSUME IInv, [Next]_vars
  PROVE  IInv'
<1>1. CASE Attach
  BY <1>1, AttachInv
<1>2. CASE Detach
  BY <1>2, DetachInv
<1>3. ASSUME NEW t \in Threads, Step(t) PROVE IInv'
  BY <1>3, CountStepInv, RowStepInv, FinalInv, CountExtraInv, SelectInv DEF Step
<1>4. ASSUME NEW t \in Threads, NEW b \in {Base, t}, Enter(t, b) PROVE IInv'
  BY <1>4, EnterInv
<1>5. CASE UNCHANGED vars
  BY <1>5 DEF vars, IInv, LoopInv, TypeOK, OwnRow, PhaseInv, CountInv, AloneInv, Alone,
              Scratch, Operand
<1>6. QED
  BY <1>1, <1>2, <1>3, <1>4, <1>5 DEF Next

-----------------------------------------------------------------------------
(* What follows from it.                                                   *)

(* The scratch rows are thread_local (montgomery.cpp:49-51): whatever the  *)
(* interleaving, the row of a thread is its own partial product and stays  *)
(* below 2N, and the counters stay where CountInv and AloneInv put them.   *)
THEOREM Inductive == Spec => []IInv
<1>1. Init => IInv
  BY InitInv
<1>2. IInv /\ [Next]_vars => IInv'
  BY NextInv
<1>3. QED
  BY <1>1, <1>2, PTL DEF Spec

(* The racing ++*op_counter_ and *extra_redc_ += ge_bit of                 *)
(* montgomery.cpp:45 and 93 lose counts and never invent one.              *)
THEOREM CountersNeverExceed == Spec => []NeverOvercounts
<1>1. IInv => NeverOvercounts
  BY DEF IInv, CountInv, NeverOvercounts
<1>2. QED
  BY <1>1, Inductive, PTL

(* The counters are exact for a thread that is alone with them, as the     *)
(* tests and the laboratory use them.                                      *)
THEOREM CountersExactAlone == Spec => []ExactAlone
<1>1. IInv => ExactAlone
  BY DEF IInv, AloneInv, ExactAlone, Quiet
<1>2. QED
  BY <1>1, Inductive, PTL

(* The last row, with the modulus subtracted when it does not fit, is the  *)
(* product of MontMul.                                                     *)
LEMMA SelectedProduct ==
  ASSUME IInv, NEW t \in Threads, pc[t] = "select"
  PROVE  T[t] - ge[t] * N = M!Product(acc[t], Operand(t))
<1>1. PICK w \in Nat \ {0}, r \in Nat \ {0} : w = N /\ r = R /\ w < r /\ Bezout(r, w)
  <2>1. R \in Nat \ {0}
    BY BPowDef, SizeAssumption DEF R
  <2>2. N \in Nat \ {0} /\ N < R /\ Bezout(R, N)
    BY <2>1, SharedContext DEF IInv, LoopInv, TypeOK
  <2>3. QED
    BY <2>1, <2>2
<1>2. PICK a \in 0..(w-1), b \in 0..(w-1), x \in 0..(2*w - 1), g \in {0, 1} :
        /\ a = acc[t] /\ b = Operand(t) /\ x = T[t] /\ g = ge[t]
        /\ g = IF x >= w THEN 1 ELSE 0
  BY <1>1, OperandRange DEF IInv, LoopInv, TypeOK, PhaseInv, Scratch
<1>3. PICK q \in Int : x * r = a * b + q * w
  <2>1. Own(t) /\ i[t] = S
    BY OwnRowIs DEF IInv, LoopInv, PhaseInv
  <2>2. DigitsDone(w, a, b, S, x) /\ BPow[S] = r
    BY <1>1, <1>2, <2>1 DEF Own, R
  <2>3. b % r = b
    BY <1>1
  <2>4. PICK q \in 0..(BPow[S] - 1) : x * BPow[S] = a * (b % BPow[S]) + q * w
    BY <2>2 DEF DigitsDone
  <2>5. q \in Int /\ x * r = a * b + q * w
    BY <2>2, <2>3, <2>4
  <2>6. QED
    BY <2>5, Zenon
<1>4. PICK y \in 0..(w-1) : y = x - g * w
  <2>1. CASE x >= w
    BY <1>2, <2>1
  <2>2. CASE ~(x >= w)
    BY <1>2, <2>2
  <2>3. QED
    BY <2>1, <2>2
<1>5. PICK p \in Int, z \in Int : p = a * b /\ z = q - g * r
  OBVIOUS
<1>6. y * r = p + z * w
  <2>1. (x - g * w) * r = x * r - (g * r) * w
    OBVIOUS
  <2>2. (q - g * r) * w = q * w - (g * r) * w
    OBVIOUS
  <2>3. PICK u \in Int, v \in Int : u = q * w /\ v = (g * r) * w
    OBVIOUS
  <2>4. y * r = (p + u) - v
    BY <1>3, <1>4, <1>5, <2>1, <2>3
  <2>5. z * w = u - v
    BY <1>5, <2>2, <2>3
  <2>6. QED
    BY <2>4, <2>5
<1>7. (CHOOSE k \in 0..(w-1) : (k * r - p) % w = 0) = y
  <2>1. r \in Int /\ Bezout(r, w)
    BY <1>1
  <2>2. QED
    BY <1>6, <2>1, TheResidue, Zenon
<1>8. M!Product(a, b) = (CHOOSE k \in 0..(w-1) : (k * r - p) % w = 0)
  BY <1>1, <1>5 DEF M!Product
<1>9. QED
  BY <1>1, <1>2, <1>4, <1>7, <1>8

(* The abstract buffers: an accumulator per thread, and the shared operand.*)
Seen == [x \in Threads \cup {Base} |-> IF x = Base THEN base ELSE acc[x]]

LEMMA SimulatesInit ==
  ASSUME Init
  PROVE  M!Init
<1>1. N \in {k \in 3..(R-1) : k % 2 = 1}
  BY ThreadsAssumption DEF Init
<1>2. Seen \in [Threads \cup {Base} -> 0..(N-1)]
  BY DEF Init, Seen
<1>3. QED
  BY <1>1, <1>2 DEF M!Init, Seen

LEMMA SimulatesSelect ==
  ASSUME IInv, NEW t \in Threads, Select(t)
  PROVE  M!Next
<1>1. PICK b \in {Base, t} : Operand(t) = Seen[b] /\ Seen[t] = acc[t]
  <2>1. Seen[t] = acc[t] /\ Seen[Base] = base
    BY ThreadsAssumption DEF Seen
  <2>2. QED
    BY <2>1 DEF Operand
<1>2. acc' = [acc EXCEPT ![t] = M!Product(acc[t], Operand(t))]
  <2>1. acc' = [acc EXCEPT ![t] = T[t] - ge[t] * N]
    BY DEF Select, Scratch
  <2>2. T[t] - ge[t] * N = M!Product(acc[t], Operand(t))
    BY SelectedProduct DEF Select
  <2>3. QED
    BY <2>1, <2>2
<1>3. Seen' = [Seen EXCEPT ![t] = M!Product(Seen[t], Seen[b])]
  <2>1. base' = base /\ acc \in [Threads -> 0..(N-1)]
    BY DEF Select, shared, IInv, LoopInv, TypeOK
  <2>2. QED
    BY <1>1, <1>2, <2>1, ThreadsAssumption DEF Seen
<1>4. M!Multiply(t, t, b)
  BY <1>3 DEF M!Multiply, Seen, Select, shared
<1>5. t \in Threads \cup {Base} /\ b \in Threads \cup {Base}
  OBVIOUS
<1>6. QED
  BY <1>4, <1>5 DEF M!Next

LEMMA SimulatesStep ==
  ASSUME IInv, [Next]_vars
  PROVE  M!Next \/ UNCHANGED M!vars
<1>1. ASSUME N' = N, base' = base, acc' = acc
      PROVE  UNCHANGED M!vars
  BY <1>1 DEF M!vars
<1>2. CASE Attach \/ Detach \/ UNCHANGED vars
  BY <1>1, <1>2 DEF Attach, Detach, shared, vars
<1>3. ASSUME NEW t \in Threads, Step(t) PROVE M!Next \/ UNCHANGED M!vars
  <2>1. CASE Select(t)
    BY <2>1, SimulatesSelect
  <2>2. CASE Count(t) \/ Row(t) \/ Final(t) \/ CountExtra(t)
    BY <1>1, <2>2 DEF Count, Row, Final, CountExtra, shared
  <2>3. QED
    BY <1>3, <2>1, <2>2 DEF Step
<1>4. ASSUME NEW t \in Threads, NEW b \in {Base, t}, Enter(t, b)
      PROVE  UNCHANGED M!vars
  BY <1>1, <1>4 DEF Enter, shared
<1>5. QED
  BY <1>2, <1>3, <1>4 DEF Next

(* Sharing one const Montgomery changes no result: in every interleaving   *)
(* the calls of the threads are the one-step products of MontMul, each on  *)
(* its own accumulator.                                                    *)
THEOREM Refinement == Spec => MontMulSpec
<1>1. Init => M!Init
  BY SimulatesInit
<1>2. IInv /\ [Next]_vars => [M!Next]_(M!vars)
  BY SimulatesStep
<1>3. Spec => []IInv
  BY Inductive
<1>4. QED
  BY <1>1, <1>2, <1>3, PTL DEF Spec, MontMulSpec, M!Spec
=============================================================================
