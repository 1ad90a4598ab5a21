------------------------------- MODULE MCModExp -------------------------------
(***************************************************************************)
(* The three routines on the same requests.  Moduli 0 to 15 include the    *)
(* refused ones and 1; bases and exponents go beyond the moduli; windows   *)
(* are absent, shorter than some exponents, and longer than all.           *)
(***************************************************************************)
EXTENDS ModExp

SomeBases  == {0, 1, 2, 3, 7, 14, 16}
SomeExps   == 0..17
SomeMods   == 0..15
SomeFixeds == {0, 2, 4, 6}
=============================================================================
