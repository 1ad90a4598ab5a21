-------------------------------- MODULE MonPro --------------------------------
(***************************************************************************)
(* Montgomery::monpro (montgomery.cpp:44-97), the CIOS product on which    *)
(* everything else in the library stands, one inner-loop iteration a step. *)
(* A context (n, n_prime) serves any number of calls; the caller names the *)
(* buffers, so out may be a, b or both, and the scratch rows T and tmp     *)
(* survive from call to call as the thread_local vectors do.               *)
(***************************************************************************)
EXTENDS LimbArith

CONSTANTS
  Bufs,         \* the caller's limb arrays
  MaxCount      \* bound on the two diagnostic counters

ASSUME MaxCountAssumption == MaxCount \in Nat

VARIABLES
  n, n_prime,             \* the context: n_limbs_ and n_prime_
  mem,                    \* mem[x]: the limbs in the caller's buffer x
  T, tmp,                 \* thread_local scratch, s+2 and s limbs
  pc,                     \* the loop being executed
  call,                   \* the buffers of the current call
  i, j,                   \* loop counters
  carry, m, borrow, ge,   \* locals of monpro
  hooks,                  \* the counters attached to the context
  op_counter, extra_redc, \* their values
  entry                   \* history: mem when the current call began

context == <<n, n_prime>>
locals  == <<i, j, carry, m, borrow, ge>>
counts  == <<hooks, op_counter, extra_redc>>
vars == <<n, n_prime, mem, T, tmp, pc, call, i, j, carry, m, borrow, ge,
          hooks, op_counter, extra_redc, entry>>

Residues == {x \in Limbs : Value(x) < Value(n)}

(* T.assign(s + 2, 0) at the head of every call.                           *)
\* faulty variant of the next definition
StaleRow == T
FreshRow == [k \in 0..(S+1) |-> 0]

(* m: the multiple of N whose addition clears the lowest limb t0.          *)
\* faulty variant of the next definition
QuotientWide(t0)    == U64(t0 * n_prime)
QuotientDigit(t0)   == U32(U64(t0 * n_prime))

(* Where the carry out of a reduction row goes: top is T[s+1], left by the *)
(* multiplication row, sum is T[s] plus the carry of the reduction.        *)
TopLimb(top, sum)          == U32(top + U32(Hi(sum)))

(* Bit 32 of a wrapped 64-bit difference, and the negated sign bit of      *)
(* T[s] - borrow.                                                          *)
BorrowBit(d)        == Hi(d) % 2
\* faulty variant of the next definition
GeBitStrict(final)  == IF final = 0 \/ final >= (B * B) \div 2 THEN 0 ELSE 1
GeBit(final)        == IF final >= (B * B) \div 2 THEN 0 ELSE 1

(* The row loop's counter.                                                 *)
\* faulty variant of the next definition
SameRow(k) == k
NextRow(k) == k + 1

(* The limb the branchless select copies out.                              *)
SelectLimb(k)      == IF ge = 1 THEN tmp[k] ELSE T[k]

Init ==
  /\ n \in Limbs /\ n_prime \in Word /\ ValidContext(n, n_prime)
  /\ mem \in [Bufs -> Limbs] /\ \A x \in Bufs : mem[x] \in Residues
  /\ T = [k \in 0..(S+1) |-> 0] /\ tmp = [k \in 0..(S-1) |-> 0]
  /\ pc = "idle" /\ call \in [out : Bufs, a : Bufs, b : Bufs]
  /\ i = 0 /\ j = 0 /\ carry = 0 /\ m = 0 /\ borrow = 0 /\ ge = 0
  /\ hooks \in SUBSET {"op", "extra"} /\ op_counter = 0 /\ extra_redc = 0
  /\ entry = mem

(* Both hooks only store a pointer; null detaches the counter.             *)
SetHooks(h) ==
  /\ pc = "idle"
  /\ hooks' = h
  /\ UNCHANGED <<context, mem, T, tmp, pc, call, locals,
                 op_counter, extra_redc, entry>>

Call(c) ==
  /\ pc = "idle"
  /\ op_counter < MaxCount /\ extra_redc < MaxCount
  /\ op_counter' = IF "op" \in hooks THEN op_counter + 1 ELSE op_counter
  /\ T' = FreshRow /\ tmp' = [k \in 0..(S-1) |-> 0]
  /\ call' = c
  /\ i' = 0 /\ j' = 0 /\ carry' = 0 /\ m' = 0 /\ borrow' = 0 /\ ge' = 0
  /\ pc' = "mul"
  /\ entry' = mem
  /\ UNCHANGED <<context, mem, hooks, extra_redc>>

(* T += a * b[i], one limb.                                                *)
Mul ==
  /\ pc = "mul" /\ j < S
  /\ LET p == U64(mem[call.a][j] * mem[call.b][i] + T[j] + carry)
     IN  T' = [T EXCEPT ![j] = U32(p)] /\ carry' = Hi(p)
  /\ j' = j + 1
  /\ UNCHANGED <<context, mem, tmp, pc, call, i, m, borrow, ge, counts, entry>>

(* The row's carry goes to T[s] and T[s+1]; m is chosen and the lowest     *)
(* limb, which m makes 0, is dropped.                                      *)
EndMul ==
  /\ pc = "mul" /\ j = S
  /\ LET sum == U64(T[S] + carry)
     IN  T' = [T EXCEPT ![S] = U32(sum), ![S+1] = U32(Hi(sum))]
  /\ m' = QuotientDigit(T[0])
  /\ carry' = Hi(U64(m' * n[0] + T[0]))
  /\ j' = 1
  /\ pc' = "red"
  /\ UNCHANGED <<context, mem, tmp, call, i, borrow, ge, counts, entry>>

(* T = (T + m*N) / B, one limb, written one place down.                    *)
Red ==
  /\ pc = "red" /\ j < S
  /\ LET p == U64(m * n[j] + T[j] + carry)
     IN  T' = [T EXCEPT ![j-1] = U32(p)] /\ carry' = Hi(p)
  /\ j' = j + 1
  /\ UNCHANGED <<context, mem, tmp, pc, call, i, m, borrow, ge, counts, entry>>

(* T[s+1] keeps the carry of the row that just ended.                      *)
EndRow ==
  /\ pc = "red" /\ j = S
  /\ LET sum == U64(T[S] + carry)
     IN  T' = [T EXCEPT ![S-1] = U32(sum), ![S] = TopLimb(T[S+1], sum)]
  /\ i' = NextRow(i)
  /\ j' = 0
  /\ carry' = 0
  /\ pc' = IF i' = S THEN "sub" ELSE "mul"
  /\ UNCHANGED <<context, mem, tmp, call, m, borrow, ge, counts, entry>>

(* tmp = T - N, one limb; the borrow is bit 32 of the wrapped difference.  *)
Sub ==
  /\ pc = "sub" /\ j < S
  /\ LET d == U64(T[j] - n[j] - borrow)
     IN  tmp' = [tmp EXCEPT ![j] = U32(d)] /\ borrow' = BorrowBit(d)
  /\ j' = j + 1
  /\ UNCHANGED <<context, mem, T, pc, call, i, carry, m, ge, counts, entry>>

(* ge_bit is the negated sign bit of T[s] - borrow.                        *)
Final ==
  /\ pc = "sub" /\ j = S
  /\ ge' = GeBit(U64(T[S] - borrow))
  /\ extra_redc' = IF "extra" \in hooks THEN extra_redc + ge' ELSE extra_redc
  /\ j' = 0
  /\ pc' = "select"
  /\ UNCHANGED <<context, mem, T, tmp, call, i, carry, m, borrow,
                 hooks, op_counter, entry>>

(* out = ge_bit ? tmp : T, one limb: only now are the operands at risk.    *)
Select ==
  /\ pc = "select" /\ j < S
  /\ mem' = [mem EXCEPT ![call.out][j] = SelectLimb(j)]
  /\ j' = j + 1
  /\ UNCHANGED <<context, T, tmp, pc, call, i, carry, m, borrow, ge, counts, entry>>

Return ==
  /\ pc = "select" /\ j = S
  /\ pc' = "idle"
  /\ UNCHANGED <<context, mem, T, tmp, call, locals, counts, entry>>

Step == Mul \/ EndMul \/ Red \/ EndRow \/ Sub \/ Final \/ Select \/ Return

Next ==
  \/ \E c \in [out : Bufs, a : Bufs, b : Bufs] : Call(c)
  \/ \E h \in SUBSET {"op", "extra"} : SetHooks(h)
  \/ Step

Spec == Init /\ [][Next]_vars

(* The function body is sequential code: once entered, it keeps running.   *)
FairSpec == Spec /\ WF_vars(Step)

-----------------------------------------------------------------------------
(* The type invariant: limbs stay limbs and the loop counters in range.    *)
TypeOK ==
  /\ n \in Limbs /\ n_prime \in Word
  /\ mem \in [Bufs -> Limbs] /\ entry \in [Bufs -> Limbs]
  /\ T \in [0..(S+1) -> Word] /\ tmp \in Limbs
  /\ pc \in {"idle", "mul", "red", "sub", "select"}
  /\ call \in [out : Bufs, a : Bufs, b : Bufs]
  /\ i \in 0..S /\ j \in 0..S
  /\ (pc \in {"mul", "red"} => i < S) /\ (pc = "red" => j >= 1)
  /\ carry \in Word /\ m \in Word /\ borrow \in {0, 1} /\ ge \in {0, 1}
  /\ hooks \subseteq {"op", "extra"} /\ op_counter \in Nat /\ extra_redc \in Nat

N  == Value(n)
A  == Value(entry[call.a])
Bi == entry[call.b][i]

(* X is an intermediate product after i rows: i*32 bits of b are consumed  *)
(* exactly, X < 2N as montgomery.cpp:79 says.                              *)
RowOf(X) ==
  /\ 0 <= X /\ X < A + N
  /\ \E q \in 0..(BPow[i]-1) :
        X * BPow[i] = A * LimbSum(entry[call.b], i) + q * N

(* The multiplication loop has added a[0..j) * b[i]; carry weighs B^j.     *)
MulRow == (LimbSum(T, S+1) + carry * BPow[j]) - LimbSum(entry[call.a], j) * Bi
MulInv == pc = "mul" => RowOf(MulRow)

(* The reduction loop has added m * n[0..j) and moved the limbs below j    *)
(* one place down; T[j-1] is stale until it is written.                    *)
RedRow == ((LimbSum(T, j-1) * B + carry * BPow[j] + (LimbSum(T, S+2) - LimbSum(T, j)))
           - m * LimbSum(n, j)) - A * Bi
RedInv == pc = "red" => RowOf(RedRow)

(* After the rows, the borrow chain has subtracted the low j limbs.        *)
SubInv ==
  /\ pc \in {"mul", "red"} => borrow = 0
  /\ pc \in {"sub", "select"} => i = S /\ RowOf(LimbSum(T, S+1))
  /\ pc = "sub" =>
       LimbSum(tmp, j) - borrow * BPow[j] = LimbSum(T, j) - LimbSum(n, j)

(* The selected array is the reduced row, and out has its j low limbs.     *)
SelectInv == pc = "select" =>
  LET sub == IF ge = 1 THEN N ELSE 0
  IN  /\ ge = 1 <=> LimbSum(T, S+1) >= N
      /\ LimbSum([k \in 0..(S-1) |-> SelectLimb(k)], S) = LimbSum(T, S+1) - sub
      /\ \A k \in 0..(S-1) : k < j => mem[call.out][k] = SelectLimb(k)

(* Until the select loop nothing is written to the caller's buffers, and   *)
(* then only to out: b[i] and a[j] are read from intact operands.          *)
EntryInv ==
  /\ \A x \in Bufs : entry[x] \in Residues
  /\ pc # "idle" =>
       /\ \A x \in Bufs : x # call.out => mem[x] = entry[x]
       /\ pc # "select" => mem = entry

(* The inductive core: a usable context, and where the partial product     *)
(* stands in every loop.                                                   *)
LoopInv == ValidContext(n, n_prime) /\ EntryInv /\ MulInv /\ RedInv /\ SubInv /\ SelectInv

(* Every buffer an idle caller looks at holds a residue: what one call     *)
(* leaves in out is a legal operand of the next.                           *)
ResultsReduced == pc = "idle" => \A x \in Bufs : mem[x] \in Residues

-----------------------------------------------------------------------------
(* montgomery.cpp:57-77: no accumulation ever leaves its machine word.     *)
(* The last conjunct, T[s] = T[s+1] + carry, holds only because the row is *)
(* below 2N.                                                               *)
NoWrap ==
  /\ pc = "mul" /\ j < S =>
       mem[call.a][j] * mem[call.b][i] + T[j] + carry < B * B
  /\ pc = "red" /\ j < S => m * n[j] + T[j] + carry < B * B
  /\ pc = "red" /\ j = S => T[S+1] + Hi(T[S] + carry) < B

(* montgomery.cpp:70, "T[0] becomes 0, shifted out": the digit dropped by  *)
(* the shift is exactly zero, whatever context and operands.               *)
DroppedLimbIsZero == pc = "red" /\ j = 1 => (m * n[0] + T[0]) % B = 0

(* The inductive invariant: with it every step can be justified from the   *)
(* state it starts in.                                                     *)
IInv == TypeOK /\ LoopInv /\ ResultsReduced /\ DroppedLimbIsZero

(* montgomery.cpp:79: when the rows are done the value is below 2N, so one *)
(* subtraction is enough and the top limb is a single bit.                 *)
RowsBelow2N == pc = "sub" => LimbSum(T, S+1) < 2 * N /\ T[S] <= 1

(* The limb-level call implements the one-step product: out changes from   *)
(* its old number to a*b*R^-1 mod N when the call returns, nothing else    *)
(* changes, and the extra-reduction counter reports the unreduced results. *)
M == INSTANCE MontMul WITH
       val     <- [x \in Bufs |-> Value(IF pc = "idle" THEN mem[x] ELSE entry[x])],
       watched <- "extra" \in hooks,
       extra   <- IF pc = "select" /\ "extra" \in hooks
                  THEN extra_redc - ge ELSE extra_redc
MontMulSpec == M!Spec

(* A call that was entered returns.                                        *)
CallReturns == (pc # "idle") ~> (pc = "idle")
=============================================================================
