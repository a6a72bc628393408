-------------------------- MODULE MCBookingWork --------------------------
(***************************************************************************)
(* BookingWork for TLC: neither requests nor rows have an identity that    *)
(* matters, and the run that declares the symmetry checks safety only.     *)
(***************************************************************************)
EXTENDS BookingWork, TLC

Symmetric == Permutations(Workers) \cup Permutations(Lines)
=============================================================================
