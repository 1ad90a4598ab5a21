-------------------------------- MODULE BigInt --------------------------------
(***************************************************************************)
(* The algorithms of BigInt (bigint.cpp) on limb vectors of any length:    *)
(* sequences of words, least significant first.  Limb k of a vector is its *)
(* element k+1, and 0 beyond its end, as the loops over two operands of    *)
(* different length read it.  The carry into limb k is a recursive         *)
(* function of k: a loop of the code is the chain of its carries and the   *)
(* limbs it writes.                                                        *)
(***************************************************************************)
EXTENDS Words, Sequences, FiniteSetsExt

CONSTANTS
  Per,      \* digits of a text or byte string in a limb: 8 (hex), 4 (bytes)
  Ten       \* the base of to_dec

ASSUME DigitAssumption ==
  /\ Per \in Nat \ {0} /\ W % Per = 0
  /\ Ten \in Nat /\ Ten >= 2

LimbAt(x, k) == IF k < Len(x) THEN x[k+1] ELSE 0
Array(x)     == [k \in Nat |-> LimbAt(x, k)]
Number(x)    == LimbSum(Array(x), Len(x))

(* normalize: no high zero limbs, never empty.                             *)
\* faulty variant of the next definition
NormalOneLimb(x) ==
  IF x = <<>> THEN <<0>>
  ELSE IF Len(x) > 1 /\ x[Len(x)] = 0 THEN SubSeq(x, 1, Len(x) - 1) ELSE x
Normal(x) ==
  IF x = <<>> THEN <<0>>
  ELSE SubSeq(x, 1, Max({1} \cup {k \in DOMAIN x : x[k] # 0}))

Zero == <<0>>
One  == <<1>>
IsZero(x) == x = Zero

(* Longer vectors are larger; otherwise the highest different limb says.   *)
\* faulty variant of the next definition
CompareLow(x, y) ==
  LET differ == {k \in DOMAIN x : x[k] # y[k]}
  IN  IF Len(x) # Len(y) THEN (IF Len(x) < Len(y) THEN -1 ELSE 1)
      ELSE IF differ = {} THEN 0
      ELSE IF x[Min(differ)] < y[Min(differ)] THEN -1 ELSE 1
Compare(x, y) ==
  LET differ == {k \in DOMAIN x : x[k] # y[k]}
  IN  IF Len(x) # Len(y) THEN (IF Len(x) < Len(y) THEN -1 ELSE 1)
      ELSE IF differ = {} THEN 0
      ELSE IF x[Max(differ)] < y[Max(differ)] THEN -1 ELSE 1

(* The carries of a loop that adds up the terms f[0], f[1], ..., and the n *)
(* limbs it writes.                                                        *)
Carries(f) ==
  LET carry[k \in Nat] == IF k = 0 THEN 0 ELSE Hi(U64(f[k-1] + carry[k-1])) IN carry
Summed(f, n) == [k \in 1..n |-> U32(U64(f[k-1] + Carries(f)[k-1]))]

(* One limb more than the longer operand takes the last carry.             *)
Add(x, y) ==
  Normal(Summed([k \in Nat |-> LimbAt(x, k) + LimbAt(y, k)], Max({Len(x), Len(y)}) + 1))

(* Defined for Compare(x, y) >= 0; the borrow is bit W of the wrapped      *)
(* difference.                                                             *)
Borrows(f) ==
  LET borrow[k \in Nat] == IF k = 0 THEN 0 ELSE Hi(U64(f[k-1] - borrow[k-1])) % 2 IN borrow
Sub(x, y) ==
  LET f == [k \in Nat |-> LimbAt(x, k) - LimbAt(y, k)]
  IN  Normal([k \in DOMAIN x |-> U32(U64(f[k-1] - Borrows(f)[k-1]))])

(* A row adds x[i]*y, i limbs up, to r; its last carry goes to the limb    *)
(* above the row.                                                          *)
RowCarry(top, carry) == U32(top + U32(carry))
MulRow(r, xi, y, i) ==
  LET f == [k \in Nat |-> xi * LimbAt(y, k) + LimbAt(r, i+k)]
  IN  [k \in DOMAIN r |->
         CASE k - i \in DOMAIN y -> Summed(f, Len(y))[k-i]
           [] k - i = Len(y) + 1 -> RowCarry(r[k], Carries(f)[Len(y)])
           [] OTHER              -> r[k]]
Mul(x, y) ==
  LET rows[i \in Nat] ==
        IF i = 0 THEN [k \in 1..(Len(x) + Len(y)) |-> 0]
        ELSE MulRow(rows[i-1], LimbAt(x, i-1), y, i-1)
  IN  IF IsZero(x) \/ IsZero(y) THEN Zero ELSE Normal(rows[Len(x)])

(* Whole limbs and bits: the bits that leave a limb enter the next one.    *)
Shl(x, bits) ==
  LET limbs == bits \div W
      f     == [k \in Nat |-> LimbAt(x, k) * Pow2[bits % W]]
  IN  IF IsZero(x) \/ bits = 0 THEN x
      ELSE Normal([k \in 1..(limbs + Len(x) + 1) |->
             IF k <= limbs THEN 0 ELSE Summed(f, Len(x) + 1)[k-limbs]])

\* faulty variant of the next definition
FallingLow(x, k, low) == 0
Falling(x, k, low)    == U32((LimbAt(x, k+1) % Pow2[low]) * Pow2[W-low])
Shr(x, bits) ==
  LET limbs == bits \div W
      low   == bits % W
  IN  IF IsZero(x) \/ bits = 0 THEN x
      ELSE IF limbs >= Len(x) THEN Zero
      ELSE Normal([k \in 1..(Len(x) - limbs) |->
             LimbAt(x, k+limbs-1) \div Pow2[low] + Falling(x, k+limbs-1, low)])

TestBit(x, k) == (LimbAt(x, k \div W) \div Pow2[k % W]) % 2 = 1
NumBits(x) ==
  IF IsZero(x) THEN 0
  ELSE (Len(x) - 1) * W + BitLength(x[Len(x)])

(* Bitwise long division, from the highest bit of x down: quotient and     *)
(* remainder are doubled, the remainder takes the bit, and the divisor is  *)
(* subtracted if it goes in.                                               *)
Pair        == [q : Seq(Word), r : Seq(Word)]
Doubled     == [p \in Pair |-> [q |-> Shl(p.q, 1), r |-> Shl(p.r, 1)]]
Taking(bit) == [p \in Pair |-> IF bit THEN [p EXCEPT !.r = Add(@, One)] ELSE p]
\* faulty variant of the next definition
Exceeds(rem, d) == Compare(rem, d) > 0
Reaches(rem, d) == Compare(rem, d) >= 0
Reduced(d)  == [p \in Pair |-> IF Reaches(p.r, d) THEN [q |-> Add(p.q, One), r |-> Sub(p.r, d)]
                                                  ELSE p]
DivMod(x, d) ==
  LET bits == NumBits(x)
      after[k \in Nat] == IF k = 0 THEN [q |-> Zero, r |-> Zero]
                          ELSE Reduced(d)[Taking(TestBit(x, bits-k))[Doubled[after[k-1]]]]
  IN  IF Compare(x, d) < 0 THEN [q |-> Zero, r |-> x] ELSE after[bits]

(* The public divmod assigns q and then r, either of which may be one of   *)
(* the operands: m holds the variables.                                    *)
Assigned(m, q, r, quo, rem) == [[m EXCEPT ![q] = quo] EXCEPT ![r] = rem]
DivModInto(m, a, d, q, r) ==
  IF Compare(m[a], m[d]) < 0
    THEN Assigned(m, q, r, Zero, IF q = a THEN Zero ELSE m[a])
    ELSE Assigned(m, q, r, DivMod(m[a], m[d]).q, DivMod(m[a], m[d]).r)

-----------------------------------------------------------------------------
(* Signed numbers, for the extended Euclidean algorithm only.              *)

Signed(neg, mag) == [neg |-> neg, mag |-> mag]
SZero == Signed(FALSE, Zero)

SAdd(x, y) ==
  IF IsZero(x.mag) THEN y
  ELSE IF IsZero(y.mag) THEN x
  ELSE IF x.neg = y.neg THEN Signed(x.neg, Add(x.mag, y.mag))
  ELSE IF Compare(x.mag, y.mag) = 0 THEN SZero
  ELSE IF Compare(x.mag, y.mag) > 0 THEN Signed(x.neg, Sub(x.mag, y.mag))
  ELSE Signed(y.neg, Sub(y.mag, x.mag))
Negated(y) == IF IsZero(y.mag) THEN y ELSE Signed(~y.neg, y.mag)
SSub(x, y) == SAdd(x, Negated(y))
\* faulty variant of the next definition
SMulUnscaled(x, y) == x
SMul(x, y) == IF IsZero(x.mag) \/ IsZero(y) THEN SZero ELSE Signed(x.neg, Mul(x.mag, y))

-----------------------------------------------------------------------------
(* Digit strings, most significant digit first: hexadecimal text and       *)
(* big-endian bytes, which differ in the digits a limb holds.              *)

DigitBits == W \div Per
CeilDiv(u, v) == (u + v - 1) \div v

FromDigits(ds) ==
  LET words == Max({1, CeilDiv(Len(ds), Per)})
      digit(p) == IF p < Len(ds) THEN ds[Len(ds) - p] ELSE 0
  IN  Normal([k \in 1..words |->
                Joined([p \in Nat |-> digit((k-1) * Per + p)], DigitBits, Per)])

DigitOf(x, p)   == (LimbAt(x, p \div Per) \div Pow2[DigitBits * (p % Per)]) % Pow2[DigitBits]
Digits(x, size) == [p \in 1..size |-> DigitOf(x, size - p)]

(* The constructor from text: a prefix 0x is dropped if something follows, *)
(* and then every character must be a digit; X is the character that is    *)
(* not.  An exception is <<>>, which is no number.                         *)
X == Pow2[DigitBits]
Stripped(t)     == IF Len(t) >  2 /\ t[1] = 0 /\ t[2] = X THEN SubSeq(t, 3, Len(t)) ELSE t
FromHex(t) ==
  IF t = <<>> \/ \E k \in DOMAIN Stripped(t) : Stripped(t)[k] = X THEN <<>>
  ELSE FromDigits(Stripped(t))

(* to_hex: from the highest nibble that is not 0.                          *)
ToHex(x) ==
  IF IsZero(x) THEN <<0>>
  ELSE Digits(x, 1 + Max({p \in 0..(Len(x) * Per - 1) : DigitOf(x, p) # 0}))

(* to_bytes_be: as many bytes as asked for, or as needed, at least one; an *)
(* exception, <<>>, if they are too few.                                   *)
ByteNeed(x) == CeilDiv(NumBits(x), DigitBits)
ToBytes(x, size) ==
  IF size # 0 /\ size < ByteNeed(x) THEN <<>>
  ELSE Digits(x, IF size # 0 THEN size ELSE Max({1, ByteNeed(x)}))

(* to_u64: -1 is the exception for more than two limbs.                    *)
ToU64(x) == IF Len(x) > 2 THEN -1 ELSE LimbAt(x, 0) + LimbAt(x, 1) * B

(* to_dec: divide by ten in place, from the highest limb down, until      *)
(* nothing is left; Rests are the remainders after each limb.              *)
Rests(x) ==
  LET rest[k \in Nat] ==
        IF k \in DOMAIN x THEN (rest[k-1] * B + LimbAt(x, Len(x) - k)) % Ten ELSE 0
  IN  rest
ShortDiv(x) ==
  [q |-> Normal([k \in DOMAIN x |-> U32((Rests(x)[Len(x)-k] * B + x[k]) \div Ten)]),
   r |-> Rests(x)[Len(x)]]
Decimals   == [t : Seq(Word), out : Seq(Nat)]
Shortened  == [d \in Decimals |->
                 IF IsZero(d.t) THEN d
                 ELSE [t |-> ShortDiv(d.t).q, out |-> <<ShortDiv(d.t).r>> \o d.out]]
ToDec(x) ==
  LET after[k \in Nat] == IF k = 0 THEN [t |-> x, out |-> <<>>] ELSE Shortened[after[k-1]]
  IN  IF IsZero(x) THEN <<0>> ELSE after[NumBits(x)].out
=============================================================================
