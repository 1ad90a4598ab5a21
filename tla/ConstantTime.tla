----------------------------- MODULE ConstantTime -----------------------------
(***************************************************************************)
(* The word primitives of ct.hpp, bit by bit: a mask is a word of ones for *)
(* true and of zeros for false.  The array primitives, one limb a step,    *)
(* are in LimbApi.                                                         *)
(***************************************************************************)
EXTENDS Words

True  == B - 1
False == 0

\* faulty variant of the next definition
MaskOfOne(bit)   == U32(bit & 1)
MaskFromBit(bit) == U32(0 - (bit & 1))

(* x | -x has the top bit set unless x is 0.                               *)
\* faulty variant of the next definition
TopBitOfNegative(x) == U32(0 - (U32(0 - x) \div (B \div 2)))
IsNonzero(x) == U32(0 - ((x | U32(0 - x)) \div (B \div 2)))
IsZero(x)    == True - IsNonzero(x)

SelectWord(mask, a, b)  == b ^^ (mask & (a ^^ b))
=============================================================================
