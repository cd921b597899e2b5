-------------------------------- MODULE Int128 --------------------------------
(*****************************************************************************)
(* The integers of the Soroban contracts.  The workspace builds its release  *)
(* profile without overflow checks, so a sum of amounts that leaves the i128 *)
(* comes back at the other end.                                              *)
(*****************************************************************************)
EXTENDS Integers

CONSTANT I128Max         \* 2^127 - 1 in the code

I128(x) == ((x + I128Max + 1) % (2 * (I128Max + 1))) - (I128Max + 1)
=============================================================================
