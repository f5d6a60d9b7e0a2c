---------------------------- MODULE MCFreePages ----------------------------
(* FreePages for TLC; lists and threads are numbered, so there is no symmetry. *)
EXTENDS FreePages
=============================================================================
