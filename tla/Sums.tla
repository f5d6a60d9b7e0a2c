-------------------------------- MODULE Sums --------------------------------
(***************************************************************************)
(* The sum of the values of a function over a finite set.                  *)
(***************************************************************************)
EXTENDS FiniteSetsExt

Sum(f, S) == MapThenSumSet(LAMBDA x : f[x], S)
=============================================================================
