------------------------------- MODULE Trapdoor -------------------------------
(***************************************************************************)
(* What rsa.hpp promises: a public key of the width asked for, and two     *)
(* kinds of calls that undo each other.  encrypt and verify raise to the   *)
(* public exponent; decrypt, decrypt_crt and sign answer with the number   *)
(* whose power the argument is.  Nothing here knows of d, p or q.          *)
(***************************************************************************)
EXTENDS Numbers

CONSTANT MinBits  \* narrower keys are refused

VARIABLES
  phase,  \* "new", "ready", "called", "answered"; "refused" without a key
  want,   \* the key asked for: [bits, e]
  pub,    \* [n, e], zeros before there is a key
  op, x,  \* the call and its argument
  answer  \* its result, -1 for an exception

vars == <<phase, want, pub, op, x, answer>>

PublicOps  == {"encrypt", "verify"}
PrivateOps == {"decrypt", "decrypt_crt", "sign"}

NoKey == [n |-> 0, e |-> 0]
NoOp  == "none"

Init ==
  /\ phase = "new" /\ pub = NoKey
  /\ op = NoOp /\ x = 0 /\ answer = 0

Refuse ==
  /\ phase = "new" /\ want.bits < MinBits
  /\ phase' = "refused"
  /\ UNCHANGED <<want, pub, op, x, answer>>

Publish ==
  /\ phase = "new" /\ want.bits >= MinBits
  /\ \E n \in Pow2[want.bits-1]..(Pow2[want.bits] - 1) : pub' = [n |-> n, e |-> want.e]
  /\ phase' = "ready"
  /\ UNCHANGED <<want, op, x, answer>>

Call ==
  /\ phase = "ready"
  /\ op' \in PublicOps \cup PrivateOps /\ x' \in Nat
  /\ phase' = "called"
  /\ UNCHANGED <<want, pub, answer>>

(* A public call answers with the power, a private one with the root.      *)
Inverts(r) ==
  /\ r \in 0..(pub.n - 1)
  /\ IF op \in PublicOps THEN r = Power(x, pub.e, pub.n)
                         ELSE Power(r, pub.e, pub.n) = x

Reply ==
  /\ phase = "called"
  /\ IF x >= pub.n THEN answer' = -1 ELSE answer' \in Int /\ Inverts(answer')
  /\ phase' = "answered"
  /\ UNCHANGED <<want, pub, op, x>>

Return ==
  /\ phase = "answered"
  /\ phase' = "ready"
  /\ op' = NoOp /\ x' = 0 /\ answer' = 0
  /\ UNCHANGED <<want, pub>>

Next == Refuse \/ Publish \/ Call \/ Reply \/ Return

Spec == Init /\ [][Next]_vars
=============================================================================
