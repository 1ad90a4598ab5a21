----------------------------- MODULE ResidueRing ------------------------------
(***************************************************************************)
(* What a client of Montgomery's limb API can rely on: a buffer stands for *)
(* a residue modulo N, a product for the product of residues, and masks    *)
(* for decisions.  Nothing here knows of limbs, words or loops; R enters   *)
(* only where the interface lets the representation through.               *)
(***************************************************************************)
EXTENDS Integers

CONSTANTS
  Bufs,     \* the client's buffers
  R,        \* the radix
  Numbers   \* arguments tried

VARIABLES
  N,       \* the modulus
  val,     \* val[x]: the residue buffer x stands for
  call,    \* the call in progress
  answer   \* what the last one returned: <<kind, number>>

vars == <<N, val, call, answer>>

Inside(r)  == (r * R) % N                                   \* a*R mod N
Outside(v) == CHOOSE r \in 0..(N-1) : (r * R - v) % N = 0   \* a*R^-1 mod N

NoCall   == [op |-> "none"]
NoAnswer == <<"none", 0>>
Number(v) == <<"number", v>>
Truth(p)  == <<"truth", IF p THEN 1 ELSE 0>>

Calls ==
  [op : {"to_montgomery"}, out : Bufs, num : Numbers]
    \cup [op : {"mont_product"}, out : Bufs, num : Numbers, num2 : Numbers]
    \cup [op : {"from_montgomery"}, num : Numbers]
    \cup [op : {"one_mont"}, out : Bufs]
    \cup [op : {"monpro"}, out : Bufs, a : Bufs, b : Bufs]
    \cup [op : {"select"}, out : Bufs, a : Bufs, b : Bufs, bit : {0, 1}]
    \cup [op : {"cswap"}, a : Bufs, b : Bufs, bit : {0, 1}]
    \cup [op : {"geq", "equal"}, a : Bufs, b : Bufs]

Init ==
  /\ N % 2 = 1 /\ N >= 3 /\ val \in [Bufs -> 0..(N-1)]
  /\ call = NoCall /\ answer = NoAnswer

Begin ==
  /\ call = NoCall
  /\ call' \in Calls
  /\ answer' = NoAnswer
  /\ UNCHANGED <<N, val>>

(* The buffers after the call...                                           *)
Put(r) == [val EXCEPT ![call.out] = r]
ValAfter ==
  CASE call.op = "to_montgomery" -> Put(call.num % N)
    [] call.op = "mont_product"  -> Put((Outside(call.num) * Outside(call.num2)) % N)
    [] call.op = "one_mont"      -> Put(1)
    [] call.op = "monpro"        -> Put((val[call.a] * val[call.b]) % N)
    [] call.op = "select"        -> Put(IF call.bit = 1 THEN val[call.a] ELSE val[call.b])
    [] call.op = "cswap" /\ call.bit = 1 ->
         [val EXCEPT ![call.a] = val[call.b], ![call.b] = val[call.a]]
    [] OTHER -> val

(* ...and its result.                                                      *)
AnswerAfter ==
  CASE call.op = "from_montgomery" -> Number(Outside(call.num))
    [] call.op = "geq"   -> Truth(Inside(val[call.a]) >= Inside(val[call.b]))
    [] call.op = "equal" -> Truth(val[call.a] = val[call.b])
    [] OTHER -> NoAnswer

End ==
  /\ call # NoCall
  /\ val' = ValAfter /\ answer' = AnswerAfter
  /\ call' = NoCall
  /\ UNCHANGED N

Next == Begin \/ End

Spec == Init /\ [][Next]_vars
=============================================================================
