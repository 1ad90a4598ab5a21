# Verification of MontX

MontX is a from-scratch C++17 big-integer and Montgomery-arithmetic library
(`include/montx`, `src`), with RSA and a prime generator on top, a command-line
tool (`apps`), a side-channel laboratory (`lab`), a fuzz target and a benchmark.
This directory holds TLA+ models of it, TLC configurations that check them on
small instances, and TLAPS proofs of the central ones for all sizes.  Paths below
are relative to the repository root.

Almost all of the library is sequential.  What is hard about it is not
scheduling but long loops whose intermediate state is only right because of a
numeric invariant no test looks at, scratch and output buffers shared between
calls, loops that end only if a random source cooperates, and agreement between
three implementations of the same function.  The models follow those loops.

## 1. Inventory

| Component | State it keeps | Operations | Interactions | What is hard, and what must hold |
|---|---|---|---|---|
| Limb arithmetic (`bigint.hpp`, `ct.hpp`) | none: 32-bit limbs, 64-bit intermediates | wrap-around, high/low half, masks | used by every component | every intermediate fits its word, or wraps on purpose |
| Montgomery product (`montgomery.cpp:44-97`) | thread_local rows `T`, `tmp`; two counters behind pointers | `monpro(out, a, b)` | called by everything Montgomery; `out` may alias operands | row below 2N at every row end; dropped limb is zero; operands intact until read; result below N; counters right |
| Montgomery context (`montgomery.cpp:16-42`) | `s_`, `n_limbs_`, `n_prime_`, `one_mont_`, `r2_` (const afterwards) | constructor, accessors | built per exponentiation | refusal of unusable moduli; Newton lifting reaches 32 bits; 32*s doublings give R mod N |
| Modular exponentiation (`modexp.cpp`, `montgomery.cpp:129-171`) | locals | `mod_exp`, `pow`, `pow_ct` | calls context and product; used by RSA, primality, CLI | three routines agree; ladder R1 = R0*g; operation count independent of the exponent; windows shorter than the exponent do not truncate it |
| Domain conversion (`montgomery.cpp:99-127`) | none | `to_montgomery`, `from_montgomery`, `mont_product`, `one_mont` | lab, tests, fuzz | inverse of each other; operands reduced first |
| Primality (`primes.cpp`) | locals | `random_bits`, `random_below`, `is_probable_prime`, `generate_prime` | draws from a callback; calls `mod_exp_montgomery`; used by RSA, CLI | primes never rejected; composites only excused by all witnesses; exact width; termination under random draws |
| BigInt (`bigint.cpp`) | the normalised limb vector | construct, compare, add, sub, mul, divmod, gcd, mod_inverse, shl, shr, bits, text and byte conversions | used by everything but the hot path | normal form after every operation; carries and borrows across limbs; `divmod` results; Bezout sign handling |
| Constant-time primitives (`ct.hpp`) | none | `select`, `cswap`, `geq`, `equal`, masks | product, ladder | masks are all ones or all zeros; aliasing of swap operands |
| RSA (`rsa.cpp`) | the key pair | `rsa_generate`, `rsa_encrypt`, `rsa_decrypt`, `rsa_decrypt_crt`, `rsa_sign`, `rsa_verify` | primes, BigInt, exponentiation | retry loop; d*e = 1 mod phi; CRT agrees with plain decryption for p < q and p > q |
| Random sources (`rng.cpp`) | one generator shared by all copies of a seeded source | `os_random`, `seeded_random` | primes | the unused bytes of a word are dropped per call; copies share state; a seed reproduces its sequence |
| Threads | one const `Montgomery` used by several threads | concurrent `monpro` | product | scratch is per thread; counters are read, incremented and written without a lock |
| Laboratory (`timing_attack.cpp`) | locals | a traced exponentiation, recovery of the exponent from the trace, timing experiments | context, product, `pow`, `pow_ct` | the trace and the operation count determine what the notes say they do |
| CLI, fuzz, bench | none that outlives a command | `modexp`, `genprime`, `rsa`, `selftest`; drivers | all of the above | dispatch; exceptions become exit code 1 |

The hazards this code is exposed to, each at its line and with the property that
covers it, are the `hazards` of `PROJECT.json`.

## 2. What is hard here

* **Numeric invariants of long loops.** The CIOS product keeps a row of `s+2`
  limbs below `2N`, drops a limb that is zero only because `n'` is right, and
  subtracts once because the row is below `2N`.  None of the three can be seen in
  a result unless it goes wrong, and the cases where the top limb is used are rare.
* **State that survives or is shared.** The scratch rows are `thread_local` and
  outlive a call; `out` may be the buffer of an operand; the contexts are shared
  by reference, with counters behind pointers.
* **Protocols over many calls.** A residue left unreduced by one product breaks a
  later one; a limb vector left with a high zero limb breaks a later comparison.
* **Loops that end for a numeric or a probabilistic reason.** `gcd`,
  `mod_inverse`, `random_below`, `generate_prime`, `rsa_generate`.
* **Agreement.** Schoolbook, `pow` and `pow_ct` must compute one function, and
  the ladder must do so with an operation count that depends on the window only;
  decryption by CRT must agree with plain decryption for either order of the primes.
* **Interleaving.** Two threads in one context meet in the counters and, were it not
  for `thread_local`, in the scratch rows.

There is no persistence and no message passing.  The only concurrency is several
threads on one `const Montgomery`.

## 3. Modules

*(spec)* marks an abstract specification; a run of section 5 checks the detailed
module against it, and section 7 says for which of them this is also proved.

| Module | Models | State and actions against the code |
|---|---|---|
| `LimbArith` | words and limb arrays | `U32`, `U64`, `Hi` are the casts and `>> 32`; `Value` is the number an array stands for; `ValidContext` is what the constructor establishes |
| `MonPro` | `Montgomery::monpro` | one action per iteration of each inner loop (`Mul`, `Red`, `Sub`, `Select`) and one per block between loops (`Call`, `EndMul`, `EndRow`, `Final`, `Return`); `mem` is the caller's memory, `call` says which buffers the three arguments are; `T` and `tmp` survive a call; `SetHooks` is the pair of setters; `entry` is a history variable |
| `MontMul` *(spec)* | what `montgomery.hpp` says of `monpro` | one step replaces `out` by `a*b*R^-1 mod N` |
| `MontgomerySetup` | `neg_inv_mod_2_32` and the constructor | `Lift` is a Newton step, `Double` a doubling step, `Finish` the two constants; `Drop` the end of the object's life |
| `Threads` | threads that call `monpro` on one const context | per thread an accumulator, a scratch row and a program counter; a step is a row of the product, the load or the store of a counter, or the final selection; each thread is shown to implement `MontMul` |
| `Words` | limbs as machine words | a word is a number; `&`, `\|`, `^^` act on its binary digits, in a form that can be proved about |
| `ConstantTime` | the word primitives of `ct.hpp` | masks as words of bits, with the code's own bit tricks |
| `LimbApi` | the domain conversions and `mont_product`; `select`, `cswap`, `geq`, `equal` on arrays | a call on any buffers, the loops one limb a step and in place; `monpro` is one step, on residues the product `MontMul` promises |
| `ResidueRing` *(spec)* | what a client of that interface relies on | buffers stand for residues modulo `N`; no limbs, no masks |
| `Numbers` | `bit_length`, powers, primes, coprimality, inverses | by definition, as the routines above the limbs see them |
| `ModExp` | `mod_exp`, `Montgomery::pow`, `Montgomery::pow_ct`, the laboratory's `leaky_modexp_with_trace` | one action per loop iteration (for `pow` and the traced routine, one per product); numbers instead of limbs; `Recovered` is the laboratory's reading of the trace, `Weight` its Hamming weight |
| `ModPow` *(spec)* | what `modexp.hpp` says of them | one step replies with the power or the exception |
| `Primes` | `random_bits`, `random_below`, `is_probable_prime`, `generate_prime` | one action per loop iteration and per call; every value a source can produce is a successor |
| `RandomSource` | `os_random`, `seeded_random` and `random_bits` on the bytes they give | `gens` are the generators on the heap, `src` which of them a copy of a source holds; a step is a word of a call; the output of a seed is a tape that is revealed as generators reach it |
| `Rsa` | `rsa_generate` and the operations on a key | one action per draw, one per acceptance test, one per statement of `rsa_decrypt_crt` |
| `Trapdoor` *(spec)* | what `rsa.hpp` says | a public key, and two kinds of calls that undo each other; no `d`, `p` or `q` |
| `BigInt` | the algorithms of `bigint.cpp` | operators on sequences of limbs; the carry of a loop is a recursive function of the limb index (`Carries`, `Borrows`), the rows of a product and the steps of long division recursive functions of the limbs and bits consumed |
| `BigIntMachine` | a program that uses `BigInt` | one action per operation that makes a number; `divmod` writes through its two output references in the code's order; `gcd` and `mod_inverse` one division a step; a throwing operation sets `thrown` and changes no variable |
| `NumberLemmas` | nothing: facts about numbers and about limb arrays | section 7 |
| `MonProProofs`, `ThreadsProofs`, `ModExpProofs`, `RsaProofs` | nothing: the theorems about the module each is named after | section 7 |
| `MontgomeryProofs` | nothing: the theorems about `MontgomerySetup` and `LimbApi` | section 7 |
| `PrimesProofs` | nothing: the theorems about `Primes` and about the draws of `RandomSource` | section 7 |
| `BigIntProofs` | nothing: the theorems about `BigInt` and `BigIntMachine` | section 7 |

How they compose.  `MonPro` uses the context `MontgomerySetup` builds
(`ContextUsable` ends in `ValidContext`, which is how `MonPro` starts).  `Threads`
takes a row of the product, `LimbApi` and `ModExp` the whole product, as `MonPro` is
shown to compute them.  `Primes` takes from `RandomSource` what `WidthExact` says of a
draw (`DrawsAreOfTheWidth` proves that the two agree), and the power `ModExp` is shown to answer.  `Rsa` takes the primes `Primes`
lets `generate_prime` return, the power of `ModExp`, and the `gcd` and `mod_inverse`
`BigIntMachine` is shown to return.  The levels are checked one at a time,
each against the specification of the one below.

Abstractions, by module:

* `MonPro`: the limb base is a parameter `B` (2^32 in the code) and 64-bit
  arithmetic is arithmetic modulo `B*B`.  `pc` and the loop counters replace the
  program counter.  The sub-steps of one iteration are one step: nothing else
  runs in between, since all it writes is local to the thread.
* `MontgomerySetup`: `one_mont` and `r2` use `BigInt` operations by their result.
* `Threads`: a row is one step, since what it writes is local to the thread; the
  counters are shared and their increments are two steps.  A value another thread
  is writing is read as the old one or the new one: a torn read does not occur for
  an aligned word.  The shared operand is only read while threads run.
* `ModExp`: `fixed_bits` is a window; the branchless swap of the ladder is its
  effect, as `LimbApi` shows.  The two schoolbook reductions are `%`.
* `Primes`: `random_bits(0)` returns 0; otherwise a draw has its top bit forced,
  so any number of exactly the width asked for.  `mod_exp_montgomery` is `Power`.
* `RandomSource`: the generator's and the device's outputs are external, any word.
* `Rsa`: an odd prime of the width is one step; that `generate_prime` is only
  probably right belongs to `Primes`.
* `BigInt`: hexadecimal characters and bytes are digits of a base, with one
  character that is no digit and the `0x` prefix as two marks.

A definition marked *faulty variant of the next definition* is not part of the
model.  It is a plausible error in the code it stands beside; replacing the
definition by it makes TLC report the property named in `mutants` of
`PROJECT.json`, which shows that the property depends on that line.

## 4. Plan

In the order of importance for the library:

1. `MonPro` with `MontMul`: **done**, checked; every safety property and the
   refinement proved.
2. `MontgomerySetup`, `ModExp` with `ModPow`, `Primes`: **done**, checked; every safety
   property and the refinement proved.
3. `Rsa` with `Trapdoor`, `Threads`: **done**, checked; every safety property and the
   refinements proved.
4. `LimbApi` with `ResidueRing`, on `ConstantTime` and `Words`; `RandomSource`:
   **done**, checked; every safety property and the refinement proved.
5. `BigInt`, `BigIntMachine`: **done**, checked; every safety property proved.

## 5. Runs

| Run | Question and answer |
|---|---|
| `monpro_b4s2` | Two limbs of base 4, every odd modulus from 5 to 15 (a zero top limb is refused by `ValidContext`), every pair of residues, two buffers and hence every aliasing of the three arguments, hooks on and off, any number of calls after one another while a counter is below its bound. The inductive invariant, the word widths and the refinement of `MontMul` hold, and every call returns. |
| `setup_w7s2` | Seven-bit limbs. Every lowest limb occurs, so the Newton loop runs on all its inputs; moduli of one limb, around the first limb boundary, and up to the largest of two limbs, the refused ones included. The inductive invariant holds, the context is right and construction ends. |
| `modexp` | The four routines on moduli 0 to 15, exponents 0 to 17 and windows that are absent, shorter and longer than the exponent. They compute the specified power, refuse what they should, and use the stated number of products; the laboratory's trace gives back the exponent. The inductive invariant, which says so half way through every loop, holds. |
| `primes` | Every number below 128 tested with every choice of two witnesses, and searches for 2- to 6-bit primes from every draw. Verdicts are justified by the witnesses, the width is exact, tests and searches end, and the inductive invariant holds. |
| `bigint` | Every operation on two variables in any order and aliasing, for numbers below 20 in limbs of two bits; `gcd` and `mod_inverse` on every pair. The inductive invariant holds, vectors stay normalised, arithmetic, comparison, bit queries and conversions agree with the numbers, the loops return the right result or throw, and end. |
| `rsa` | Keys of 5 to 9 bits with five exponents, every pair of primes drawn in every order, every argument up to two beyond `n`. The inductive invariant holds, keys are sound, decryption by CRT agrees with plain decryption, the operations undo each other, and generation ends where a usable pair exists. |
| `threads` | Two threads square or multiply by a shared operand, interleaved row by row. Each gets the one-step products; counters may lose counts but never invent them, and are exact for one thread; the inductive invariant holds and every call returns. |
| `limbapi` | Programs of conversions, products, selections, swaps and comparisons on three two-limb buffers, every aliasing, numbers by value of up to five limbs. They compute on limbs what they compute on residues, and leave only residues behind. |
| `rng` | Up to two sources and their copies, filling buffers and drawing numbers in turn. Draws have exactly their width, no word reaches two calls, and a seed reproduces its answers. |
| `below_range`, `below_returns`, `liars` | Statements of the header that the code does not meet, section 8. |

### Bounds, and why they are enough

* `B`, `S` (`MonPro`): the code never looks at the width of a limb, only at
  overflow out of it, and in every base the accumulations have no room to spare:
  `(B-1)*(B-1) + 2*(B-1) = B*B - 1`.  Base 4 and not 2 so that `n'`
  takes values other than 1.  Two limbs give a first and a last limb; a middle
  limb, and the rare carry of a multiplication row into `T[s+1]` (three squarings of
  base 4 have it), are left to the proofs, which cover all `B` and `S`.
* `Bufs`: two buffers make `out = a # b`, `out = b # a`, `out = a = b`, `a = b # out`
  possible; the code compares no addresses, so a third adds nothing but `out # a # b`,
  in which no write meets a read.  `LimbApi` has three, so that a program can keep
  one buffer while it changes two.
* `MaxCount = 1`: a call needs both counters below it.  Counters only count; a
  detached counter never reaches the bound, so sequences of calls of any length occur.
* `W = 7`, `NewtonSteps = 2`: three correct bits doubled twice cover seven bits
  with the last step needed in full, as four steps cover 32 bits in the code (three
  would reach 24).
* `Radix = 16` (`ModExp`): a power of two above all moduli; that it is coprime to the
  odd ones is all the algorithms use.
* `SmallPrimes = {2, 3}`: numbers from 25 on reach the witness loop.  `Scan = 4` is
  shorter than some prime gaps, so windows run empty and are redrawn.  `Rounds = 2`:
  one witness after another.
* `BigInt`: three limbs of two bits, two digits a limb, decimal base 3; results of
  20 and above are computed and compared but not stored.  `Shifts` has 0, less than
  a limb, one limb, more than one limb, more than two.  `Vectors` has up to two
  superfluous limbs, `Texts` leading zeros, the `0x` prefix and a bad character.
* `Rsa`: `MinBits = 6` where the code has 16, since below six bits no pair of
  different odd primes of the right widths exists.  Six bits give 5*7 in both orders
  and equal primes; at seven and nine `q` is a bit longer than `p`, and some
  products are a bit short; five is refused.  The exponents 3, 5 and 7 are refused
  by some pairs and kept by others, 4 is refused by all, 65 exceeds `phi`.
  `MaxOver = 2` gives arguments at and above `n`.
* `Threads`: `N = 9` and operand 5 in base 4: 5*5 needs the extra reduction, other
  products do not, so the second counter moves on some calls only.  `MaxCalls = 3`
  bounds the calls made while the counters are attached; without counters their
  number is unbounded.
* `LimbApi`: two limbs of two bits, moduli 5 and 7; the numbers passed by value lie
  below and above the modulus, at and above the radix 16, and one of them is wider
  than two operands; its lowest limbs alone are 15, an operand `monpro` would not
  bring below the modulus.
* `RandomSource`: bytes of one bit, limbs and device words of two bytes, generator
  words of four: a limb takes half a generator word, as in the code.  Requests take
  part of a word, exactly one, more than one and none; widths are zero, inside a limb,
  and at a limb's end.  `MaxSources = 2` makes one seed be used twice, `MaxCalls = 3` puts
  a call on a copy or another source between two calls on one; draws from the device are
  not counted.  With three calls `Reproducible` compares the first calls of two sources;
  a fourth, and with it a second portion on both sides, does not finish in the time of a
  run, and rests on the theorem `AnswersReproducible`.  The two handles play the same part, so they are a symmetry set.

`CHECK_DEADLOCK FALSE` is set where a behaviour is one call that comes back
(`ModExp`, `Primes`) or a key whose generation was refused (`Rsa`): after that
nothing is left to do.

### Fairness

Sequential code runs on: weak fairness of the steps of a call that was entered
(`Step`, `Loop`, `Compute`, `Next` of `ModExp`, the two calls of `generate_prime` in
`Rsa`), never of the decision to make a call.  In `Threads` the same holds for each
thread: the scheduler lets every runnable thread run, and nothing in `monpro` waits.
In `Primes` a random source asked again and again gives, with probability 1,
a value below the bound if there is one, and a candidate with a prime in its window
if there is one: strong fairness of those two draws.  In `Rsa` it gives a first prime
that has a partner, and then such a partner: strong fairness of those draws.  Nothing
is assumed where no acceptable value exists, which is what `below_returns` shows; an
RSA exponent refused by every pair is therefore not promised an answer.

## 6. Properties

* `MonPro`: `IInv` is the inductive invariant.  Its part `LoopInv` says after every
  iteration where the partial product stands (`MulInv`, `RedInv`, `SubInv`,
  `SelectInv`) and that operands are intact until they have been read (`EntryInv`);
  `DroppedLimbIsZero` is the comment at `montgomery.cpp:70`, `ResultsReduced` the
  contract between calls.  `RowsBelow2N` and `NoWrap` are the comments at lines
  57-79; `MontMulSpec` is the refinement.
* `MontgomerySetup`: `IInv` adds to `LoopInv` what each phase starts from
  (`PhaseInv`).  `LoopInv` joins `NewtonPrecision` (three bits, then six, then
  twelve) and `DoublingExact`; `ContextUsable` is what `monpro` starts from.
* `ModExp`: `IInv` adds the counts to `LoopInv`: `CountInv` says in every iteration how
  many products the bits done have cost and what the trace shows of them.  `LoopInv` joins `StageInv` (what has been established when a loop is
  entered), `LadderInv` (`R1 = R0*g`), `PowInv` and `SchoolbookInv`; `LadderUniform`
  is the claim of `docs/constant-time.md:45-56`, `PowCount` the leak: the operation
  count gives the Hamming weight and the trace the whole exponent; `ModPowSpec`.
* `Primes`: `VerdictSound` (no prime is rejected; a rejected number has a witness
  or a factor), `GeneratedWidth`, `WitnessDrawable`, `TaskEnds`.  `IInv` joins them with
  `SquaringChain` (what `x` is in the squaring loop), `SearchInv` (the candidate under
  test has the width, whatever the scan passed) and `WitnessInv` (what trial division has
  excluded, and that every earlier witness excused the number).
* `BigIntMachine`: `ArithmeticRight` and `ObserversRight` say of every pair of variables
  what each operation and query answers; `EuclidInv` (the gcd, the Bezout relation and
  its bound), `ReturnsRight` (result or exception), `LoopEnds`.  `IInv` joins `TypeOK`
  (normal form everywhere) and `EuclidInv` with what keeps the coefficients of
  `mod_inverse` small: `Determinant` and `Alternating`.
* `Rsa`: `KeySound` (width, distinct primes, every exponent undoes `e` in its group),
  `NeverThrows` (no inverse that key generation asks for is missing), `CrtIsPlain`,
  `TrapdoorSpec`, `Responds`.  `IInv` joins the first two with what a pair of
  candidates, a key and the residues in flight are (`PairInv`, `KeyInv`, `CallInv`)
  and with `CrtResidues` (Garner's number is below `n` and has the right residues
  for `p < q` and `p > q`).
* `Threads`: `IInv` joins `LoopInv` (a thread's row holds its own partial product) with
  what a thread between the load and the store of a counter knows (`CountInv`,
  `AloneInv`); `NeverOvercounts`, `ExactAlone` (the counts the tests and the laboratory read),
  `MontMulSpec` for every thread, `CallReturns`.
* `LimbApi`: `ApiInv` is the inductive invariant: a call begins with residues in every
  buffer (`EntryReduced`), half way through a loop each buffer holds new limbs below and
  old ones above (`TakenOver`), and the mask and the borrow say how the limbs read so far
  compare (`Compared`).  `BuffersReduced` is the contract between calls, `RingSpec` the
  refinement.  `Product` is what the rows compute on any operands, so one that reaches
  `monpro` without being reduced shows.
* `RandomSource`: `DrawInv` is the inductive invariant: one generator for each
  `seeded_random` (`OwnGenerator`), calls on it take consecutive stretches of its tape
  (`WordsOnce`) and get what stands there, no word more than they need (`Determined`), and
  a draw has the exact width and can be any number of it (`WidthExact`).
  `Reproducible` is `rng.hpp:26`.

## 7. Proofs

All theorems are about `Spec` without fairness, and hold for every value of the
constants that satisfies the assumptions named below.

| Module | Theorem | States |
|---|---|---|
| `MonProProofs` | `TypeCorrect` | `Spec => []TypeOK` |
| | `Inductive` | `Spec => []IInv` |
| | `LoopCorrect` | `Spec => []LoopInv` |
| | `ResultsCorrect` | `Spec => []ResultsReduced` |
| | `ShiftIsExact` | `Spec => []DroppedLimbIsZero` |
| | `WordsDoNotWrap` | `Spec => []NoWrap` |
| | `OneSubtraction` | `Spec => []RowsBelow2N` |
| | `Refinement` | `Spec => MontMulSpec` |
| `MontgomeryProofs` | `Inductive` | `Spec => []IInv` |
| | `ConstructorCorrect` | `Spec => []ContextUsable` |
| | `ApiInductive` | `ApiSpec => []ApiInv` |
| | `ReducedBetweenCalls` | `ApiSpec => []BuffersReduced` |
| | `ApiRefinement` | `ApiSpec => RingSpec` |
| `ThreadsProofs` | `Inductive` | `Spec => []IInv` |
| | `CountersNeverExceed` | `Spec => []NeverOvercounts` |
| | `CountersExactAlone` | `Spec => []ExactAlone` |
| | `Refinement` | `Spec => MontMulSpec`, for every thread |
| `ModExpProofs` | `Inductive` | `Spec => []IInv` |
| | `LoopsCorrect` | `Spec => []LoopInv` |
| | `LadderConstant` | `Spec => []LadderUniform` |
| | `CountLeaks` | `Spec => []PowCount` |
| | `Refinement` | `Spec => ModPowSpec` |
| `PrimesProofs` | `Inductive` | `Spec => []IInv` |
| | `VerdictsSound` | `Spec => []VerdictSound` |
| | `WidthsRight` | `Spec => []GeneratedWidth` |
| | `WitnessesDrawable` | `Spec => []WitnessDrawable` |
| | `DrawsAreOfTheWidth` | `random_bits` on all buffers of bytes gives exactly the numbers of the width |
| | `DrawsConsecutive` | `SourceSpec => []DrawInv` |
| | `AnswersReproducible` | `SourceSpec => []Reproducible` |
| `BigIntProofs` | `Inductive` | `Spec => []IInv` |
| | `TypeCorrect` | `Spec => []TypeOK` |
| | `EuclidCorrect` | `Spec => []EuclidInv` |
| | `ReturnsCorrect` | `Spec => ReturnsRight` |
| | `ArithmeticCorrect` | `Spec => []ArithmeticRight` |
| | `ObserversCorrect` | `Spec => []ObserversRight` |
| `RsaProofs` | `Inductive` | `Spec => []IInv` |
| | `TypeCorrect` | `Spec => []TypeOK` |
| | `KeyCorrect` | `Spec => []KeySound` |
| | `CrtCorrect` | `Spec => []CrtResidues` |
| | `SubtractionSafe` | `m1 + p - m2 mod p` is never negative |
| | `NoException` | `Spec => []NeverThrows` |
| | `CrtEqualsPlain` | `Spec => []CrtIsPlain` |
| | `Refinement` | `Spec => TrapdoorSpec` |

In each the argument has one shape: an inductive invariant that a run also checks,
one lemma per action that the action keeps it, and the properties from it.

**Lemmas.** `NumberLemmas` first derives induction over `Nat` and primitive recursion
from well-foundedness, with sets and curried functions in place of predicates and
operators (`SetInduction`, `PrimRec`).  From them come the recursions of `Power` and
`Pow2`, then residues (`QuotientResidue`, `Residue`, `Congruent...`), `Bezout...` and
`InverseExists`, `Chinese`, and `Fermat`.  Fermat's little theorem is proved by
counting: multiplication by a unit `g` splits the units modulo a prime into orbits
(`OrbitClosed`) of one size, the order of `g` (`OrbitSize`), so the order divides
`p - 1` (`OrbitsDivide`).  For limbs there are the recursions, bounds and update laws of
`BPow` and `LimbSum`, the algebra of the product, one lemma per loop body, and digits put
together (`Joined...`).

**Product.** From `BaseAssumption` (an even base), `SizeAssumption` and
`MaxCountAssumption`, all of which hold in the code (`B = 2^32`; `s_` is a
`word_count()`, at least 1).  `LoopInv` alone is not inductive: a step into
the multiplication loop needs the operands to be residues (`ResultsReduced`, at the
call), a step out of the reduction row needs to know that the dropped digit was zero
(`DroppedLimbIsZero`, when the row begins), and every step needs the ranges of the
words.  The lemmas say what one limb of each loop does to the sums (`MulLimb`,
`RedLimb`, `SubLimb`), what a row does to the partial product (`RowStart`,
`RowAdvance`: `X' * B = X + a*b[i] + m*N`, hence again below `A + N`), why `m` clears
the lowest digit (`Quotient`), why the top limb holds the carry (`TopFits`,
`TopLimbBit`), and why the borrow against the top limb decides the selection
(`LastSubtraction`).  For the refinement, `Return` is the abstract product and every
other step a stutter or a change of the hooks.  That needs the result to be *the*
residue: from `n[0]*n' + 1 = 0 mod B` the modulus is coprime to `B`, hence to `R`, so
there is one residue with `r*R = a*b mod N` and one quotient, which the
extra-reduction counter depends on.

**Constructor.** From `WidthAssumption` (`B = 2^W` and `3 * 2^NewtonSteps >= W`, in the
code `3 * 16 >= 32`) and `ModuliAssumption`.  An odd `n0` is its own inverse modulo 8
(`FirstBits`), a lifting step squares the error (`LiftDoubles`, with the wrap-around of
`Wrapped`), and after the last step all `W` bits are right (`LiftEnds`).  One doubling
with one conditional subtraction keeps `2^k mod N` (`DoublingStep`); the number of
doublings is the width of the limbs, so the last is `R mod N`.  The limbs are those of
the modulus with a top limb that is not zero (`TopLimb`, `SplitValue`), which is
`ValidContext`, the initial condition of `MonPro`.

**Threads.** From `ThreadsAssumption`: the moduli are odd, above 2 and below `R`, and
have an `n'`.  `OwnRow` says that a thread's row is the partial product of its own
operand; `OneRow` and `RowBound` are a row of `Product` taken whole.  No step of another
thread touches it (`OwnFrame`), because the scratch is per thread and the shared operand
is only read.  The counters need more than their bound: what a thread has loaded plus
one is at most the number of calls made, because its own call is counted already
(`CountInv`).  With one caller the load is what the counter still shows (`AloneInv`).
The refinement follows one thread; the steps of the others are stutters of it.

**Exponentiation.** For every set of bases, exponents, windows and moduli below a
radix that is a power of two (`ArgumentsAssumption`; in the code `Radix` is
`R = 2^(32*s) > N`).
A power of two is coprime to an odd modulus, so a residue has one Montgomery form and
forms multiply (`RadixCoprime`, `FormsMultiply`); powers of `g` add exponents; and the
digits read so far are `exp \div 2^i`, which one more digit doubles.  The counts are a
second layer on the first: `CountInv` adds a product for every bit and one for every
set bit (`OneBitMore`), and a trace with one entry per bit is read back as the
exponent (`TraceRead`, on the recursion of `Recovered`).

**Primality.** From `PrimesAssumption`: the table of small primes has 2 and 3
(`kSmallPrimes` does) and the window is not empty.  That a prime is never rejected is
`PrimeExcused`: by `Fermat` the chain `a^d, a^2d, ...` ends in 1, by `RootsOfOne` the
number before the first 1 is `n-1`, and `NextSquare` says the loop walks this chain, so
one of its two exits is taken.  `SquaringChain` alone is not inductive; `WitnessInv`
adds `n-1 = 2^r * d` and what trial division has excluded, an even `n` among it, without
which the chain need not end in 1.  The same facts make the bound `n-2` of a witness odd
and above 1, and such a bound is never the power of two that rejects all draws
(`OddBoundDrawable`).  The width of a generated prime is a matter of `SearchInv`: what
is tested has been through the width test.

**RSA.** For every set of wanted widths and exponents and every argument
(`RsaAssumption`).  `KeySound` alone is not inductive: a key is made of the pair that
passed the test (`PairInv`), and `dp`, `dq` and the residues in flight must belong to
the key (`KeyInv`, `CallInv`).  `NoException` is `InverseExists`: what is coprime to the
modulus has an inverse, and different primes are coprime.  `CrtEqualsPlain` is
`Chinese` with `FermatExponent`, which lets `d` be reduced modulo `p-1` also for the
multiples of `p`.  The refinement maps key generation to `Publish` and a reply to the
abstract one; `RootOfPower` says that `x^(e*d) = x` modulo both primes, hence modulo `n`,
and so for the other order of the calls.

**Limb interface.** From `WordAssumption` (a base `2^W`) and `LimbApiAssumption` (odd
moduli whose top limb is not zero).  A word is the number of its binary digits, and only
one (`SelectedWord` and its neighbours go digit by digit); with a mask of all ones or
all zeros the code's `((a ^ b) & mask) ^ b` is a selection, also in place and with one
buffer for several arguments.  A borrow chain over the limbs is a comparison of the numbers
(`NextBorrowLimb`), a disjunction of differences an equality test.  `ApiInv` ties these to
the buffers half way through each loop, where a source that is also a target has limbs of
both kinds.  For the refinement a limb step is a stutter and a return the abstract call,
under `Held`: a buffer stands for its number times `R^-1 mod N`, which exists because the
modulus is odd.  That one subtraction is enough (`ReducedOnce`) needs one operand below `N`
and the other below `R` only; `ProductIs` takes that from the reduction of a number passed by
value and from `ApiInv` for a buffer.

**Random sources.** From `RandomSourceAssumption`, which only says that sizes are positive.
Digits below their weight put together give a number that division takes apart again
(`JoinedBound`, `DigitsJoined`), so the limbs of a draw can be any; trimming and forcing
touch the last limb only (`Layout`), which is `DrawnWidth`, and every number of the width
has bytes that give it (`DrawnAny`).  For the sources, `SourcesOK` states `DrawInv` source by
source (`SplitInv`).  Tapes only grow (`TapeKept`), so what a call has been given stays
what its stretch says (`StretchKept`, `PastKept`); the word a call takes next goes where
the buffer ends (`NextWord`), and a full buffer has taken `WordsFor` words (`WordsForIs`).
`AnswersReproducible` is then an induction over the calls: asked the same so far, two
sources of one seed stand at the same place (`SamePlace`).

**BigInt.** From `WordAssumption`, `DigitAssumption` (a limb is a whole number of digits,
`to_dec` has a base of at least 2) and `MachineAssumption`, which bounds the numbers a
program stores by what `S` limbs hold, any number of them.  Every limb loop is one of two: a carry
that runs up a sum of terms (`SummedTerms`: the limbs written, with the last carry above
them, are the sum), or a borrow (`SubLimbs`).  From these `AddNumbers`, `SubNumbers`, `MulNumbers` (row by
row: a row adds one limb's multiple and its last carry goes into a limb that is still 0),
`ShlNumbers` and `ShrNumbers` say what number the normalised result stands for.
`CompareNumbers` needs normal form, which is why `TypeOK` comes first; `BitNumber` and
`NumBitsBound` lead to `DivModNumbers`: after `k` bits the pair is the quotient and the
remainder of the `k` highest bits.  The signed helpers of `mod_inverse` are sums and
products of integers (`SignedSum`, `SignedProduct`).  `EuclidInv` is not inductive: that a coefficient
stays at most `m` cannot be seen from the coefficients.  `Determinant`, kept by a division step
(`DeterminantKept`), is a sum of two products of naturals because the signs alternate, and
its value is `m`; as the remainder beside a coefficient is at least 1, the coefficient is
at most `m`.  The Bezout relation goes along by `CongruenceKept`, and the gcd by
`GcdResidue`.  At the end the remainder is the gcd: if it is 1 the coefficient, folded
into `[0, m)`, is the inverse (`FoldedResidue`, `InverseResidue`), and otherwise there is none.
Text and bytes: a digit of the vector is a digit of the number (`DigitNumber`), so enough of
them denote it (`DigitsRight`); `to_hex` starts at the highest that is not 0 (`HexText`), and
`to_bytes_be` refuses exactly what does not fit (`BytesNumber`).  Limbs put together from
digits stand for the number the string denotes (`DigitsNumber`), which in normal form only
the vector written does: `ReadsBack`.  For `to_dec`, `ShortDivNumber` is one division in place
(no quotient outgrows a limb); `WrittenDown` says that what is left and the digits written
make up the number, and that what is left loses a bit a step.

Only model-checked:

* All liveness: it needs fairness and `ENABLED`, which are beyond the prover.  What a
  recursively defined operator computes on arbitrary data is beyond it too, since the
  library's induction theorems take an operator as parameter; for that reason
  `LimbSum`, `BPow`, `Pow2`, `Power`, `BitSum`, `Joined` and `Recovered` are recursive
  functions.

## 8. Where code and documents disagree

| Run | Code | Document |
|---|---|---|
| `below_range` | `random_below` forces the top bit of a draw and its mask keeps it: nothing below the highest power of two is returned | `include/montx/primes.hpp:20`: uniform in `[0, n)` |
| `below_returns` | for `n` a power of two no draw is accepted and the loop does not end | the same line |
| `liars` | for a composite `2^k + 3` the only witness that can be drawn is `n-1`, which excuses every odd number; 16777219 = 2^24 + 3 = 1549 * 10831 is reported prime | `include/montx/primes.hpp:24`: composites pass with probability below `4^-rounds` |

Seen while modelling, without a run of their own:

* `R` is `2^(32*s)` for the `s` limbs of `N`; `docs/montgomery-reduction.md:12` says the
  next power of two above `N`.  Harmless.
* `montgomery.cpp:41` computes `R^2 mod N` by `BigInt::mod`, a division, although
  `README.md:29-30` and `docs/montgomery-reduction.md:74-76` speak of a setup without one.
* The comment at `primes.cpp:74` gives the witness range as `[2, n-2]`; `n-1` is reachable.
* `rsa_generate` with an even `e` never returns (`rsa.cpp:25`): `gcd(e, phi)` is even.
  `rsa.hpp:42` states no condition on `e`.  `Responds` asks for an answer only where a
  usable pair exists.
* `montgomery.hpp:60` says the counter counts every `MonPro` executed; with two threads
  the increments at `montgomery.cpp:45` lose counts.  `NeverOvercounts` and `ExactAlone`
  say what is left.
* `divmod` with its quotient reference bound to the dividend returns remainder 0 for a
  dividend below the divisor (`bigint.cpp:188`).  `BigIntMachine` has the case, and
  `ArithmeticRight` excepts it; no caller in the library does this.

## 9. Not modelled

* The command-line tool: argument parsing, dispatch to one library call, printing.
* The fuzz target and the benchmark only drive the library; what the fuzz target
  compares is `RingSpec` and `ModPowSpec`.
* The laboratory's wall-clock experiments and statistics.  The operation counts and
  the trace they rest on are in `MonPro`, `ModExp` and `Threads`.
* Attaching or detaching a hook while another thread multiplies (`montgomery.hpp:56`),
  a data race no caller in the repository commits.
* `is_probable_prime` with `rounds <= 0` and `generate_prime` with `bits <= 1`: the
  first accepts what survives trial division, the second never returns.  The interface
  excludes neither; only the command line can ask for them.
