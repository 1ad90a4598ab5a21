------------------------------- MODULE MCPrimes -------------------------------
(***************************************************************************)
(* Small instances of Primes.  With 2 and 3 as the small primes the        *)
(* numbers from 25 on that are prime to 6 reach the witness loop, composite *)
(* ones (25, 35, 49, 55, 65, 77, 85, 91, 95) and primes with n-1 divisible *)
(* by 2 up to 2^6 (97: 2^5, 17: 2^4) among them.                           *)
(***************************************************************************)
EXTENDS Primes

TestTasks     == [kind : {"test"}, arg : 0..127]
GenerateTasks == [kind : {"generate"}, arg : 2..6]
SearchTasks   == TestTasks \cup GenerateTasks
BelowTasks    == [kind : {"below"}, arg : 1..20]
(* Bounds that are no power of two: some draw is accepted.                 *)
NonPowerTasks == [kind : {"below"}, arg : {3, 5, 6, 7, 9, 10, 11, 12, 13}]
(* Composites of the form 2^k + 3: only n-1 can be drawn as a witness.     *)
PowerPlus3Tasks == [kind : {"test"}, arg : {35, 259}]
=============================================================================
