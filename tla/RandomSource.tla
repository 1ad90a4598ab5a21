----------------------------- MODULE RandomSource -----------------------------
(***************************************************************************)
(* The random sources (rng.cpp) and random_bits (primes.cpp:22-38), which  *)
(* is how the library draws from them.  A source is a std::function; a     *)
(* copy of a seeded one shares the generator through a shared_ptr, and a   *)
(* call keeps no byte for the next.  The outputs of mt19937_64 and of the  *)
(* device are external: a seed has a tape of words, revealed as some       *)
(* generator first reaches them; the device gives any word.                *)
(***************************************************************************)
EXTENDS Numbers, Sequences
LOCAL INSTANCE Functions

CONSTANTS
  Handles, Seeds,
  ByteBits,     \* 8 in the code
  LimbBytes,    \* bytes of a limb and of a device word, 4 in the code
  WordBytes,    \* bytes of a generator word, 8 in the code
  Outputs,      \* generator and device words tried
  Requests,     \* calls tried: [kind |-> "fill" | "bits", size |-> Nat]
  MaxSources,   \* seeded sources made
  MaxCalls      \* calls on them

ASSUME RandomSourceAssumption ==
  /\ ByteBits \in Nat \ {0} /\ LimbBytes \in Nat \ {0} /\ WordBytes \in Nat \ {0}
  /\ Outputs \subseteq Nat /\ MaxSources \in Nat /\ MaxCalls \in Nat
  /\ Requests \subseteq [kind : {"fill", "bits"}, size : Nat]

VARIABLES
  gens,   \* the generators: [seed, pos]
  src,    \* src[h]: the generator of the source held as h, 0 for os_random
  tape,   \* tape[s]: the words seed s yields, as far as anyone has seen
  call,   \* the call in progress: [h, kind, size], or Idle
  buf,    \* the bytes written
  first,  \* history: the generator's place when the call began
  log,    \* history: of each call of seeded_random the seed, and the calls
          \* made on that source and its copies
  origin  \* history: the call of seeded_random that made the source held
          \* as h, or a source it is a copy of

sourceVars == <<gens, src, tape, call, buf, first, log, origin>>

Device == 0
Idle   == [kind |-> "none"]
Shorter(u, v) == IF u < v THEN u ELSE v

LimbBits == ByteBits * LimbBytes
LimbsFor(bits) == (bits + LimbBits - 1) \div LimbBits

(* The buffer a call asks the source to fill.                              *)
Bytes(c) == IF c.kind = "fill" THEN c.size ELSE LimbBytes * LimbsFor(c.size)

(* The bytes of w, lowest first, as many as there is room for.             *)
ByteOf(w, k) == (w \div Pow2[ByteBits * k]) % Pow2[ByteBits]
Spread(w, size, room) == [k \in 1..Shorter(size, room) |-> ByteOf(w, k-1)]

(* random_bits: little-endian limbs, the excess of the last one trimmed,   *)
(* the top bit forced.                                                     *)
ByteAt(bytes, k)  == IF k \in DOMAIN bytes THEN bytes[k] ELSE 0
LimbAt(bytes, i)  ==
  Joined([k \in Nat |-> ByteAt(bytes, LimbBytes * i + k + 1)], ByteBits, LimbBytes)
Trim(limb, top)   == IF top = 0 THEN limb ELSE limb % Pow2[top]
Forced(limb, bit) == IF (limb \div Pow2[bit]) % 2 = 1 THEN limb ELSE limb + Pow2[bit]
LastLimb(bytes, bits) ==
  Forced(Trim(LimbAt(bytes, LimbsFor(bits) - 1), bits % LimbBits), (bits - 1) % LimbBits)
BitsFrom(bytes, bits) ==
  Joined([i \in Nat |-> IF i = LimbsFor(bits) - 1 THEN LastLimb(bytes, bits) ELSE LimbAt(bytes, i)],
         LimbBits, LimbsFor(bits))

SourceInit ==
  /\ gens = <<>> /\ src = [h \in Handles |-> Device]
  /\ tape = [s \in Seeds |-> <<>>]
  /\ call = Idle /\ buf = <<>> /\ first = 0
  /\ log = <<>> /\ origin = [h \in Handles |-> 0]

(* seeded_random(s): a generator of its own, from the start of the tape.   *)
\* faulty variant of the next definition
OnePerSeed(s) ==
  IF \E g \in DOMAIN gens : gens[g].seed = s
    THEN <<gens, CHOOSE g \in DOMAIN gens : gens[g].seed = s>>
    ELSE <<Append(gens, [seed |-> s, pos |-> 0]), Len(gens) + 1>>
NewGenerator(s) == <<Append(gens, [seed |-> s, pos |-> 0]), Len(gens) + 1>>

SeededRandom(h, s) ==
  /\ call = Idle /\ Len(log) < MaxSources
  /\ gens' = NewGenerator(s)[1]
  /\ src' = [src EXCEPT ![h] = NewGenerator(s)[2]]
  /\ log' = Append(log, [seed |-> s, calls |-> <<>>])
  /\ origin' = [origin EXCEPT ![h] = Len(log) + 1]
  /\ UNCHANGED <<tape, call, buf, first>>

OsRandom(h) ==
  /\ call = Idle
  /\ src' = [src EXCEPT ![h] = Device]
  /\ origin' = [origin EXCEPT ![h] = 0]
  /\ UNCHANGED <<gens, tape, call, buf, first, log>>

(* h = k: the closure captures the shared_ptr by value.                    *)
\* faulty variant of the next definition
StateCopied(g) ==
  IF g = Device THEN <<gens, Device>> ELSE <<Append(gens, gens[g]), Len(gens) + 1>>
Shared(g) == <<gens, g>>

Copy(h, k) ==
  /\ call = Idle /\ h # k /\ src[h] # src[k]
  /\ gens' = Shared(src[k])[1]
  /\ src' = [src EXCEPT ![h] = Shared(src[k])[2]]
  /\ origin' = [origin EXCEPT ![h] = origin[k]]
  /\ UNCHANGED <<tape, call, buf, first, log>>

-----------------------------------------------------------------------------
Called == FoldFunction(+, 0, [o \in DOMAIN log |-> Len(log[o].calls)])

Call(h, q) ==
  /\ call = Idle
  /\ src[h] # Device => Called < MaxCalls
  /\ call' = [h |-> h, kind |-> q.kind, size |-> q.size]
  /\ buf' = <<>>
  /\ first' = IF src[h] = Device THEN 0 ELSE gens[src[h]].pos
  /\ UNCHANGED <<gens, src, tape, log, origin>>

Room == Bytes(call) - Len(buf)

(* One iteration of the while loop: a word of the device, taken low byte   *)
(* first...                                                                *)
DeviceWord(w) ==
  /\ call # Idle /\ Room > 0 /\ src[call.h] = Device
  /\ buf' = buf \o Spread(w, LimbBytes, Room)
  /\ UNCHANGED <<gens, src, tape, call, first, log, origin>>

(* ...or the next word of the generator, which advances for good.          *)
GeneratorWord(w) ==
  /\ call # Idle /\ Room > 0 /\ src[call.h] # Device
  /\ LET g == src[call.h]
         s == gens[g].seed
     IN  /\ IF gens[g].pos < Len(tape[s])
              THEN w = tape[s][gens[g].pos + 1] /\ UNCHANGED tape
              ELSE tape' = [tape EXCEPT ![s] = Append(@, w)]
         /\ gens' = [gens EXCEPT ![g].pos = @ + 1]
  /\ buf' = buf \o Spread(w, WordBytes, Room)
  /\ UNCHANGED <<src, call, first, log, origin>>

(* What the caller gets: the bytes, or random_bits's number, 0 for no bits.*)
Result(bytes, c) ==
  CASE c.kind = "fill" -> bytes
    [] c.kind = "bits" /\ c.size = 0 -> <<0>>
    [] OTHER -> <<BitsFrom(bytes, c.size)>>

Return ==
  /\ call # Idle /\ Room = 0
  /\ log' = IF src[call.h] = Device THEN log
            ELSE [log EXCEPT ![origin[call.h]].calls =
                    Append(@, [first |-> first, last |-> gens[src[call.h]].pos,
                               kind |-> call.kind, size |-> call.size,
                               given |-> Result(buf, call)])]
  /\ call' = Idle /\ buf' = <<>> /\ first' = 0
  /\ UNCHANGED <<gens, src, tape, origin>>

SourceNext ==
  \/ \E h \in Handles : \/ \E s \in Seeds : SeededRandom(h, s)
                        \/ OsRandom(h)
                        \/ \E k \in Handles : Copy(h, k)
                        \/ \E q \in Requests : Call(h, q)
  \/ \E w \in Outputs : DeviceWord(w) \/ GeneratorWord(w)
  \/ Return

SourceSpec == SourceInit /\ [][SourceNext]_sourceVars

-----------------------------------------------------------------------------
Byte == 0..(Pow2[ByteBits] - 1)
Calls == [h : Handles, kind : {"fill", "bits"}, size : Nat]
Entries == [first : Nat, last : Nat, kind : {"fill", "bits"}, size : Nat, given : Seq(Nat)]
SourceTypeOK ==
  /\ gens \in Seq([seed : Seeds, pos : Nat])
  /\ src \in [Handles -> 0..Len(gens)]
  /\ tape \in [Seeds -> Seq(Outputs)]
  /\ call \in Calls \cup {Idle} /\ first \in Nat
  /\ buf \in Seq(Byte) /\ (call # Idle => Len(buf) <= Bytes(call))
  /\ log \in Seq([seed : Seeds, calls : Seq(Entries)])

(* Every call of seeded_random has the generator it made, and so do all    *)
(* copies of its source.                                                   *)
OwnGenerator ==
  /\ Len(gens) = Len(log) /\ origin = src
  /\ \A o \in DOMAIN log : gens[o].seed = log[o].seed

(* No word reaches two callers, however a source was copied: the calls on  *)
(* one seeded_random take consecutive stretches of its tape, and the next  *)
(* one, which may be in progress, goes on from there.                      *)
Reached(o, k) == IF k = 0 THEN 0 ELSE log[o].calls[k].last
Drawing(o) == call # Idle /\ src[call.h] = o
WordsOnce ==
  \A o \in DOMAIN log :
    /\ \A k \in DOMAIN log[o].calls : log[o].calls[k].first = Reached(o, k-1)
    /\ gens[o].pos <= Len(tape[gens[o].seed])
    /\ IF Drawing(o) THEN first = Reached(o, Len(log[o].calls)) /\ first <= gens[o].pos
                     ELSE gens[o].pos = Reached(o, Len(log[o].calls))

(* What a seed's tape gives from a place on, WordBytes bytes a word.       *)
Stretch(s, place, size) ==
  [k \in 1..size |-> ByteOf(tape[s][place + 1 + ((k-1) \div WordBytes)], (k-1) % WordBytes)]

WordsFor(size) == (size + WordBytes - 1) \div WordBytes

(* A call got what stands on the tape at its place, and took no word more  *)
(* than it needed; a call in progress has the beginning of it.             *)
Determined ==
  /\ \A o \in DOMAIN log : \A k \in DOMAIN log[o].calls :
       LET c == log[o].calls[k]
       IN  /\ c.last = c.first + WordsFor(Bytes(c))
           /\ c.last <= gens[o].pos
           /\ c.given = Result(Stretch(log[o].seed, c.first, Bytes(c)), c)
  /\ call # Idle /\ src[call.h] # Device =>
       LET g == gens[src[call.h]]
       IN  /\ Len(buf) = Shorter(Bytes(call), WordBytes * (g.pos - first))
           /\ WordBytes * (g.pos - first) < Bytes(call) + WordBytes
           /\ buf = Stretch(g.seed, first, Len(buf))

(* primes.cpp:22-38: whatever the bytes, random_bits gives a number of     *)
(* exactly the width asked for, and some bytes give each of them.  This is *)
(* all that Primes assumes of a draw.                                      *)
WidthExact == call # Idle /\ call.kind = "bits" /\ call.size > 0 =>
  {BitsFrom(bytes, call.size) : bytes \in [1..Bytes(call) -> Byte]}
    = Pow2[call.size - 1]..(Pow2[call.size] - 1)

(* The inductive invariant, and what a draw is for the rest of the library.*)
DrawInv == SourceTypeOK /\ OwnGenerator /\ WordsOnce /\ Determined /\ WidthExact

(* rng.hpp:26, "Deterministic RNG for tests and reproducible demos": two   *)
(* sources of the same seed that are asked the same, in the same portions, *)
(* give the same, whatever happens in between on them, their copies, and   *)
(* other sources.                                                          *)
Asked(o, k) == <<log[o].calls[k].kind, log[o].calls[k].size>>
Reproducible ==
  \A o, p \in DOMAIN log : log[o].seed = log[p].seed =>
    \A k \in DOMAIN log[o].calls \cap DOMAIN log[p].calls :
      (\A l \in 1..k : Asked(o, l) = Asked(p, l)) =>
        log[o].calls[k].given = log[p].calls[k].given
=============================================================================
