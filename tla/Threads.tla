-------------------------------- MODULE Threads --------------------------------
(***************************************************************************)
(* Several threads that multiply on one const Montgomery.  What they share *)
(* is the context, an operand all of them read, and the two diagnostic     *)
(* counters; what each has of its own is its accumulator and, because they *)
(* are thread_local, the scratch rows.  A step is a row of the product:    *)
(* MonPro has the limbs.                                                   *)
(***************************************************************************)
EXTENDS LimbArith

CONSTANTS
  Threads,
  Base,       \* names the shared operand
  Moduli,     \* the contexts tried
  Operands,   \* the numbers the threads start from
  MaxCalls    \* calls made while the counters are attached

ASSUME ThreadsAssumption ==
  /\ Base \notin Threads /\ MaxCalls \in Nat
  /\ \A k \in Moduli : /\ k \in 3..(R-1) /\ k % 2 = 1
                        /\ \E y \in Word : (k * y + 1) % B = 0

VARIABLES
  N,                  \* the context's modulus
  base,               \* an operand all threads read
  acc,                \* acc[t]: the number in the thread's own buffer
  pc, other,          \* per thread: place in monpro, and its second operand
  T, i,               \* per thread: the row and how many are done
  ge,                 \* per thread: the row needs the subtraction
  loaded,             \* per thread: the counter value read and not yet written
  hook,               \* the counters are attached
  op_counter, extra_redc,
  callers,            \* history, since the counters were attached: who called,
  calls, reductions   \* how many calls were made and reductions needed

shared == <<N, base>>
counts == <<op_counter, extra_redc>>
past   == <<callers, calls, reductions>>
vars == <<N, base, acc, pc, other, T, i, ge, loaded, hook,
          op_counter, extra_redc, callers, calls, reductions>>

NPrime == CHOOSE k \in Word : (N * k + 1) % B = 0
Digit(b, k) == (b \div BPow[k]) % B

(* thread_local: a row of scratch belongs to the thread that runs.         *)
\* faulty variant of the next definition
OneForAll(t) == CHOOSE u \in Threads : TRUE
Scratch(t)   == t

(* X + a * b[k], and the multiple of N that clears its lowest digit.       *)
RowSum(row, a, b, k) ==
  LET sum == row + a * Digit(b, k)
  IN  (sum + ((sum * NPrime) % B) * N) \div B

(* What a finished call adds to the extra-reduction counter: ge_bit.       *)
\* faulty variant of the next definition
CountedAlways(t) == 1
Counted(t)       == ge[t]

(* The row loop's counter.                                                 *)
\* faulty variant of the next definition
SameRow(k) == k
NextRow(k) == k + 1

Operand(t) == IF other[t] = Base THEN base ELSE acc[t]

Nothing == [t \in Threads |-> 0]

Init ==
  /\ N \in Moduli
  /\ base \in Operands \cap 0..(N-1) /\ acc \in [Threads -> Operands \cap 0..(N-1)]
  /\ pc = [t \in Threads |-> "idle"] /\ other = [t \in Threads |-> Base]
  /\ T = Nothing /\ i = Nothing /\ ge = Nothing /\ loaded = Nothing
  /\ hook = FALSE /\ op_counter = 0 /\ extra_redc = 0
  /\ callers = {} /\ calls = 0 /\ reductions = 0

Quiet == \A t \in Threads : pc[t] = "idle"

(* As the tests and the laboratory do it: a fresh counter is attached      *)
(* before a run, and detached after it, when what it says is the caller's. *)
Attach ==
  /\ Quiet /\ ~hook
  /\ hook' = TRUE
  /\ UNCHANGED <<shared, acc, pc, other, T, i, ge, loaded, counts, past>>

Detach ==
  /\ Quiet /\ hook
  /\ hook' = FALSE
  /\ op_counter' = 0 /\ extra_redc' = 0
  /\ callers' = {} /\ calls' = 0 /\ reductions' = 0
  /\ UNCHANGED <<shared, acc, pc, other, T, i, ge, loaded>>

(* monpro(acc, acc, b): with a counter attached, ++*op_counter_ begins by  *)
(* reading it.                                                             *)
Enter(t, b) ==
  /\ pc[t] = "idle" /\ (hook => calls < MaxCalls)
  /\ other' = [other EXCEPT ![t] = b]
  /\ T' = [T EXCEPT ![Scratch(t)] = 0]
  /\ loaded' = [loaded EXCEPT ![t] = op_counter]
  /\ callers' = IF hook THEN callers \cup {t} ELSE callers
  /\ calls' = IF hook THEN calls + 1 ELSE calls
  /\ pc' = [pc EXCEPT ![t] = IF hook THEN "count" ELSE "row"]
  /\ UNCHANGED <<shared, acc, i, ge, hook, counts, reductions>>

(* ...and ends by writing one more than was read.                          *)
Count(t) ==
  /\ pc[t] = "count"
  /\ op_counter' = loaded[t] + 1
  /\ pc' = [pc EXCEPT ![t] = "row"]
  /\ UNCHANGED <<shared, acc, other, T, i, ge, loaded, hook, extra_redc, past>>

Row(t) ==
  /\ pc[t] = "row" /\ i[t] < S
  /\ T' = [T EXCEPT ![Scratch(t)] = RowSum(T[Scratch(t)], acc[t], Operand(t), i[t])]
  /\ i' = [i EXCEPT ![t] = NextRow(i[t])]
  /\ UNCHANGED <<shared, acc, pc, other, ge, loaded, hook, counts, past>>

(* The comparison with N; *extra_redc_ += ge_bit begins by reading.        *)
Final(t) ==
  /\ pc[t] = "row" /\ i[t] = S
  /\ ge' = [ge EXCEPT ![t] = IF T[Scratch(t)] >= N THEN 1 ELSE 0]
  /\ loaded' = [loaded EXCEPT ![t] = extra_redc]
  /\ reductions' = IF hook THEN reductions + ge'[t] ELSE reductions
  /\ pc' = [pc EXCEPT ![t] = IF hook THEN "extra" ELSE "select"]
  /\ UNCHANGED <<shared, acc, other, T, i, hook, counts, callers, calls>>

CountExtra(t) ==
  /\ pc[t] = "extra"
  /\ extra_redc' = loaded[t] + Counted(t)
  /\ pc' = [pc EXCEPT ![t] = "select"]
  /\ UNCHANGED <<shared, acc, other, T, i, ge, loaded, hook, op_counter, past>>

(* The select writes the caller's buffer, and the call returns: parameter  *)
(* and locals die, the scratch row does not.                               *)
Select(t) ==
  /\ pc[t] = "select"
  /\ acc' = [acc EXCEPT ![t] = T[Scratch(t)] - ge[t] * N]
  /\ pc' = [pc EXCEPT ![t] = "idle"]
  /\ other' = [other EXCEPT ![t] = Base] /\ i' = [i EXCEPT ![t] = 0]
  /\ ge' = [ge EXCEPT ![t] = 0] /\ loaded' = [loaded EXCEPT ![t] = 0]
  /\ UNCHANGED <<shared, T, hook, counts, past>>

Step(t) == Count(t) \/ Row(t) \/ Final(t) \/ CountExtra(t) \/ Select(t)

Next ==
  \/ Attach \/ Detach
  \/ \E t \in Threads : Step(t) \/ \E b \in {Base, t} : Enter(t, b)

Spec == Init /\ [][Next]_vars

(* A thread inside monpro runs on: nothing in it waits for another.        *)
FairSpec == Spec /\ \A t \in Threads : WF_vars(Step(t))

-----------------------------------------------------------------------------
(* The type invariant.                                                     *)
TypeOK ==
  /\ N \in Moduli /\ base \in 0..(N-1) /\ acc \in [Threads -> 0..(N-1)]
  /\ pc \in [Threads -> {"idle", "count", "row", "extra", "select"}]
  /\ other \in [Threads -> Threads \cup {Base}]
  /\ T \in [Threads -> 0..(2*N - 1)] /\ i \in [Threads -> 0..S]
  /\ ge \in [Threads -> {0, 1}] /\ loaded \in [Threads -> Nat]
  /\ hook \in BOOLEAN /\ op_counter \in Nat /\ extra_redc \in Nat
  /\ callers \subseteq Threads /\ calls \in Nat /\ reductions \in Nat

(* What a thread has in its scratch is its own row: k digits of its own    *)
(* operand b consumed, whatever the other threads did in between.          *)
OwnRow ==
  \A t \in Threads : pc[t] # "idle" =>
    \E q \in 0..(BPow[i[t]] - 1) :
      T[Scratch(t)] * BPow[i[t]] = acc[t] * (Operand(t) % BPow[i[t]]) + q * N

LoopInv == TypeOK /\ OwnRow

(* The row counter and the reduction bit in each phase of a call.          *)
PhaseInv == \A t \in Threads :
  /\ pc[t] \in {"idle", "count"} => i[t] = 0
  /\ pc[t] \in {"extra", "select"} =>
       i[t] = S /\ ge[t] = (IF T[Scratch(t)] >= N THEN 1 ELSE 0)
  /\ pc[t] \in {"count", "extra"} => hook
  /\ pc[t] # "idle" /\ hook => t \in callers

(* What a thread is about to write to a counter has happened.              *)
CountInv ==
  /\ ~hook => /\ callers = {} /\ calls = 0 /\ reductions = 0
              /\ op_counter = 0 /\ extra_redc = 0
  /\ op_counter <= calls /\ extra_redc <= reductions
  /\ \A t \in Threads :
       /\ pc[t] = "count" => loaded[t] + 1 <= calls
       /\ pc[t] = "extra" => loaded[t] + ge[t] <= reductions

(* A thread alone with the counters writes what is missing in them.        *)
Alone == \A t, u \in callers : t = u
AloneInv == hook /\ Alone =>
  /\ (\A t \in Threads : pc[t] # "count") => op_counter = calls
  /\ (\A t \in Threads : pc[t] # "extra") => extra_redc = reductions
  /\ \A t \in Threads :
       /\ pc[t] = "count" => loaded[t] = op_counter /\ calls = op_counter + 1
       /\ pc[t] = "extra" => loaded[t] = extra_redc /\ reductions = extra_redc + ge[t]

(* The inductive invariant.                                                *)
IInv == LoopInv /\ PhaseInv /\ CountInv /\ AloneInv

(* Racing increments lose counts and never invent one: both counters stay  *)
(* at or below what happened.                                              *)
NeverOvercounts == hook => op_counter <= calls /\ extra_redc <= reductions

(* montgomery.hpp:52-63 hold for the way the tests and the laboratory use  *)
(* the counters: when a single thread multiplied since they were attached, *)
(* both are exact.                                                         *)
ExactAlone ==
  Quiet /\ hook /\ Alone => op_counter = calls /\ extra_redc = reductions

(* To each thread its calls are the one-step products of MontMul: sharing  *)
(* the context changes no result, in any interleaving.                     *)
M == INSTANCE MontMul WITH
       Bufs    <- Threads \cup {Base},
       R       <- R,
       val     <- [x \in Threads \cup {Base} |-> IF x = Base THEN base ELSE acc[x]],
       watched <- FALSE,
       extra   <- 0
MontMulSpec == M!Spec

(* Every call a thread enters returns, however the others run.             *)
CallReturns == \A t \in Threads : (pc[t] # "idle") ~> (pc[t] = "idle")
=============================================================================
