-------------------------------- MODULE Primes --------------------------------
(***************************************************************************)
(* Random draws, the Miller-Rabin test and the prime search (primes.cpp).  *)
(* The random source is the environment: a draw may return any value the   *)
(* code lets through.  The search calls the test and the test calls        *)
(* random_below, so the three share one thread of control; pc says where   *)
(* it is and task what the caller asked for.                               *)
(***************************************************************************)
EXTENDS Numbers, FiniteSets

CONSTANTS
  SmallPrimes,  \* kSmallPrimes: 54 primes in the code
  Scan,         \* candidates tried per draw, 4096 in the code
  Rounds,       \* witnesses per test
  Tasks         \* what callers ask: [kind |-> "below" | "test" | "generate", arg |-> Nat]

ASSUME PrimesAssumption ==
  /\ SmallPrimes \subseteq Nat \ {0, 1} /\ {2, 3} \subseteq SmallPrimes
  /\ Scan \in Nat \ {0} /\ Rounds \in Nat
  /\ Tasks \subseteq [kind : {"below", "test", "generate"}, arg : Nat]

VARIABLES
  pc, task,
  below,        \* random_below's argument
  drawn,        \* its result
  cand, step,   \* generate_prime: candidate and place in the scan window
  n, d, r,      \* is_probable_prime: the number, n-1 = 2^r * d
  round, a, x, j,
  result,       \* the number or verdict returned
  witnesses     \* history: the witnesses the running test has used

tested == <<n, d, r, round, a, x, j, witnesses>>
vars == <<pc, task, below, drawn, cand, step, tested, result>>

(* random_bits: the generator fills the limbs, the excess is cut off and   *)
(* the top bit is forced, so every value of exactly that many bits.        *)
RandomBits(bits) == IF bits = 0 THEN {0} ELSE Pow2[bits-1]..(Pow2[bits] - 1)

(* random_below draws as many bits as its bound has, masks the value to    *)
(* that width, which changes nothing, and accepts it if it is below.       *)
Masked(v, bits) == v % Pow2[bits]
Draws(bound)    == {Masked(v, BitLength(bound)) : v \in RandomBits(BitLength(bound))}
Accepted(bound) == {v \in Draws(bound) : v < bound}

(* Trial division: some small prime divides v and is not v itself.         *)
\* faulty variant of the next definition
HasSmallDivisor(v) == \E p \in SmallPrimes : v % p = 0
HasSmallFactor(v) == \E p \in SmallPrimes : p # v /\ v % p = 0

(* The exponent r of the power of two in v = n-1.                          *)
TwosIn(v) == CHOOSE k \in 0..v : v % Pow2[k] = 0 /\ (v \div Pow2[k]) % 2 = 1

-----------------------------------------------------------------------------
Init ==
  /\ task \in Tasks
  /\ pc = task.kind
  /\ below = (IF task.kind = "below" THEN task.arg ELSE 0)
  /\ n = (IF task.kind = "test" THEN task.arg ELSE 0)
  /\ drawn = 0 /\ cand = 0 /\ step = 0
  /\ d = 0 /\ r = 0 /\ round = 0 /\ a = 0 /\ x = 0 /\ j = 0
  /\ result = 0 /\ witnesses = {}

(* random_below: one iteration of its loop.  A rejected value leaves no    *)
(* trace; an accepted one is the witness of a test, or goes to the caller. *)
Draw(v) ==
  /\ pc = "below"
  /\ IF v < below
       THEN /\ drawn' = v
            /\ pc' = IF task.kind = "below" THEN "done" ELSE "witness"
            /\ result' = IF task.kind = "below" THEN v ELSE result
       ELSE UNCHANGED <<drawn, pc, result>>
  /\ UNCHANGED <<task, below, cand, step, tested>>

(* generate_prime: a fresh odd candidate, and the scan upward from it.     *)
DrawCandidate(v) ==
  /\ pc = "generate"
  /\ cand' = IF v % 2 = 0 THEN v + 1 ELSE v
  /\ step' = 0
  /\ pc' = "scan"
  /\ UNCHANGED <<task, below, drawn, tested, result>>

\* faulty variant of the next definition
NoSmallFactor(c, bits) == ~HasSmallFactor(c)
WorthTesting(c, bits)  == ~HasSmallFactor(c) /\ BitLength(c) = bits
ScanSkip ==
  /\ pc = "scan" /\ step < Scan
  /\ ~WorthTesting(cand, task.arg)
  /\ cand' = cand + 2 /\ step' = step + 1
  /\ UNCHANGED <<pc, task, below, drawn, tested, result>>

ScanTest ==
  /\ pc = "scan" /\ step < Scan
  /\ WorthTesting(cand, task.arg)
  /\ n' = cand
  /\ pc' = "test"
  /\ UNCHANGED <<task, below, drawn, cand, step, d, r, round, a, x, j, witnesses, result>>

ScanExhausted ==
  /\ pc = "scan" /\ step = Scan
  /\ pc' = "generate"
  /\ UNCHANGED <<task, below, drawn, cand, step, tested, result>>

(* The end of is_probable_prime with verdict v, in whichever caller: the   *)
(* search returns the candidate or moves on to the next.                   *)
Verdict(v) ==
  IF task.kind = "generate"
  THEN /\ pc' = IF v THEN "done" ELSE "scan"
       /\ result' = IF v THEN cand ELSE result
       /\ cand' = IF v THEN cand ELSE cand + 2
       /\ step' = IF v THEN step ELSE step + 1
  ELSE /\ pc' = "done"
       /\ result' = IF v THEN 1 ELSE 0
       /\ UNCHANGED <<cand, step>>

(* Numbers below 2 and the trial division decide without a witness.        *)
TrialDivision ==
  /\ pc = "test"
  /\ witnesses' = {} /\ round' = 0
  /\ IF n < 2 \/ HasSmallFactor(n) \/ n \in SmallPrimes
       THEN /\ Verdict(n \in SmallPrimes)
            /\ UNCHANGED <<d, r>>
       ELSE /\ r' = TwosIn(n - 1)
            /\ d' = (n - 1) \div Pow2[r']
            /\ pc' = "round"
            /\ UNCHANGED <<cand, step, result>>
  /\ UNCHANGED <<task, below, drawn, n, a, x, j>>

(* witness_hi: the bound of the draw a witness is made of.                 *)
\* faulty variant of the next definition
WitnessBelow(v) == v - 1
WitnessHi(v)    == v - 2

(* The next witness is drawn below n-2, or the rounds are used up.         *)
NextRound ==
  /\ pc = "round" /\ round < Rounds
  /\ below' = WitnessHi(n)
  /\ pc' = "below"
  /\ UNCHANGED <<task, drawn, cand, step, tested, result>>

RoundsDone ==
  /\ pc = "round" /\ round >= Rounds
  /\ Verdict(TRUE)
  /\ UNCHANGED <<task, below, drawn, tested>>

(* x = a^d mod n; 1 and n-1 say nothing against n.                         *)
\* faulty variant of the next definition
PassesAtOnceOne(v) == v = 1
PassesAtOnce(v)    == v = 1 \/ v = n - 1
Witness ==
  /\ pc = "witness"
  /\ a' = drawn + 2
  /\ x' = Power(a', d, n)
  /\ witnesses' = witnesses \cup {a'}
  /\ j' = 0
  /\ IF PassesAtOnce(x')
       THEN pc' = "round" /\ round' = round + 1
       ELSE pc' = "square" /\ UNCHANGED round
  /\ UNCHANGED <<task, below, drawn, cand, step, n, d, r, result>>

(* At most r-1 squarings look for n-1.                                     *)
\* faulty variant of the next definition
SquaringsShort(k) == k + 1 < r - 1
MoreSquarings(k)  == k + 1 < r
Square ==
  /\ pc = "square" /\ MoreSquarings(j)
  /\ x' = (x * x) % n
  /\ j' = j + 1
  /\ IF x' = n - 1
       THEN pc' = "round" /\ round' = round + 1
       ELSE UNCHANGED <<pc, round>>
  /\ UNCHANGED <<task, below, drawn, cand, step, n, d, r, a, witnesses, result>>

Composite ==
  /\ pc = "square" /\ ~MoreSquarings(j)
  /\ Verdict(FALSE)
  /\ UNCHANGED <<task, below, drawn, tested>>

Compute ==
  \/ ScanSkip \/ ScanTest \/ ScanExhausted
  \/ TrialDivision \/ NextRound \/ RoundsDone \/ Witness \/ Square \/ Composite

RandomBelow     == pc = "below" /\ \E v \in Draws(below) : Draw(v)
RandomCandidate == pc = "generate" /\ \E v \in RandomBits(task.arg) : DrawCandidate(v)

Next == RandomBelow \/ RandomCandidate \/ Compute

Spec == Init /\ [][Next]_vars

(* A number the scan from candidate v would return.                        *)
Lucky(v) == \E k \in 0..(Scan-1) :
  LET c == (IF v % 2 = 0 THEN v + 1 ELSE v) + 2 * k
  IN  IsPrime(c) /\ BitLength(c) = task.arg

(* The code between two draws runs on.  A uniform source asked again and   *)
(* again gives, with probability 1, a value below the bound if there is    *)
(* one, and a candidate with a prime in its window if there is one.        *)
FairSpec ==
  /\ Spec
  /\ WF_vars(Compute)
  /\ WF_vars(RandomCandidate)
  /\ SF_vars(pc = "below" /\ \E v \in Accepted(below) : Draw(v))
  /\ SF_vars(pc = "generate" /\ \E v \in RandomBits(task.arg) : Lucky(v) /\ DrawCandidate(v))

-----------------------------------------------------------------------------
TypeOK ==
  /\ pc \in {"below", "test", "generate", "scan", "round", "witness", "square", "done"}
  /\ task \in Tasks
  /\ \A v \in {below, drawn, cand, step, n, d, r, round, a, x, j, result} : v \in Nat
  /\ step <= Scan /\ round <= Rounds

(* The textbook condition: w does not prove v composite.                   *)
StrongLiar(w, v) ==
  LET k   == TwosIn(v - 1)
      odd == (v - 1) \div Pow2[k]
  IN  \/ Power(w, odd, v) = 1
      \/ \E e \in 0..(k-1) : Power(w, odd * Pow2[e], v) = v - 1

(* No draw makes the test reject a prime; a rejected number has a witness  *)
(* among those drawn or a small factor, and an accepted one that is not a  *)
(* small prime was excused by every witness of all the rounds.             *)
Accepts == pc = "done" /\ task.kind = "test" /\ result = 1
Rejects == pc = "done" /\ task.kind = "test" /\ result = 0
VerdictSound ==
  /\ Rejects => ~IsPrime(n)
  /\ Rejects => \/ n < 2 \/ HasSmallFactor(n)
                \/ \E w \in witnesses : ~StrongLiar(w, n)
  /\ Accepts => \/ n \in SmallPrimes
                \/ round = Rounds /\ \A w \in witnesses : StrongLiar(w, n)

(* primes.cpp:77-80: inside the squaring loop x is a^(d*2^j) and neither   *)
(* n-1 nor the first 1 has been passed over.                               *)
SquaringChain == pc = "square" =>
  /\ x = Power(a, d * Pow2[j], n) /\ j < r /\ Power(a, d, n) # 1
  /\ \A e \in 0..j : Power(a, d * Pow2[e], n) # n - 1
LoopInv == TypeOK /\ SquaringChain

(* The candidate of a search is odd, and once it is tested it has the      *)
(* width and no small factor, and the scan window is not used up.          *)
InTest == pc \in {"round", "witness", "square"} \/ (pc = "below" /\ task.kind # "below")
SearchInv ==
  /\ pc \in {"generate", "scan"} => task.kind = "generate"
  /\ pc = "test" => task.kind # "below"
  /\ pc = "scan" => cand % 2 = 1
  /\ InTest => task.kind # "below"
  /\ (InTest \/ pc = "test") /\ task.kind = "generate" =>
       n = cand /\ cand % 2 = 1 /\ WorthTesting(cand, task.arg) /\ step < Scan

(* The number under test has survived the trial division and n-1 = 2^r*d;  *)
(* every witness before the current one has excused it.                    *)
WitnessInv == InTest =>
  /\ n > 3 /\ n % 2 = 1 /\ ~HasSmallFactor(n) /\ n \notin SmallPrimes
  /\ r = TwosIn(n - 1) /\ d = (n - 1) \div Pow2[r]
  /\ pc # "round" => round < Rounds
  /\ pc = "below" => below = n - 2
  /\ pc = "witness" => drawn < n - 2
  /\ pc = "square" => a \in witnesses
  /\ witnesses \subseteq 1..(n-1)
  /\ \A w \in witnesses : StrongLiar(w, n) \/ (pc = "square" /\ w = a)

(* primes.hpp:27, "a probable prime of exactly `bits` bits": no carry of   *)
(* the upward scan leaves the width, and what is returned is odd and has   *)
(* been through the trial division.                                        *)
GeneratedWidth == pc = "done" /\ task.kind = "generate" =>
  /\ BitLength(result) = task.arg
  /\ ~HasSmallFactor(result) /\ result % 2 = 1

(* The witness loop asks random_below only for bounds it can answer: n-2   *)
(* is odd and above 1, so never the power of two that rejects every draw.  *)
WitnessDrawable == pc = "below" /\ task.kind # "below" => Accepted(below) # {}

(* All of it: what keeps the verdicts sound from one step to the next.     *)
IInv == LoopInv /\ SearchInv /\ WitnessInv /\ VerdictSound /\ GeneratedWidth

(* A test, and a search for a width that has an odd prime, come back.      *)
TaskEnds == <>(pc = "done")

-----------------------------------------------------------------------------
(* What the header and the comments say.                                   *)

(* primes.hpp:20, random_below: "Uniform random integer in [0, n)".        *)
BelowCovers == pc = "below" /\ task.kind = "below" => Accepted(below) = 0..(below - 1)

(* primes.hpp:20: the call returns such an integer.                        *)
BelowReturns == (pc = "below") ~> (pc # "below")

(* primes.hpp:24: "Composite numbers pass with probability < 4^-rounds":   *)
(* less than a quarter of the witnesses that can be drawn excuse one.      *)
LiarsAreFew == pc = "round" /\ ~IsPrime(n) =>
  LET drawable == {v + 2 : v \in Accepted(n - 2)}
      liars    == {w \in drawable : StrongLiar(w, n)}
  IN  4 * Cardinality(liars) < Cardinality(drawable)
=============================================================================
