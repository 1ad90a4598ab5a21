-------------------------------- MODULE ModPow --------------------------------
(***************************************************************************)
(* What the three exponentiation routines promise (modexp.hpp): a request  *)
(* is answered by base^exp mod m, or by an exception for a modulus the     *)
(* routine does not accept.                                                *)
(***************************************************************************)
EXTENDS Numbers

VARIABLES
  busy,     \* the request is being served
  request,  \* [alg, base, exp, mod, fixed]
  answer    \* the number, or -1 for an exception

vars == <<busy, request, answer>>

(* Montgomery routines need an odd modulus of at least 3; the schoolbook   *)
(* routine works for any modulus but 0.                                    *)
Accepted(q) ==
  IF q.alg = "schoolbook" THEN q.mod # 0 ELSE q.mod % 2 = 1 /\ q.mod >= 3

Answer(q) == IF Accepted(q) THEN Power(q.base, q.exp, q.mod) ELSE -1

Init == busy = TRUE /\ answer = 0

Reply ==
  /\ busy
  /\ busy' = FALSE
  /\ answer' = Answer(request)
  /\ UNCHANGED request

Spec == Init /\ [][Reply]_vars
=============================================================================
