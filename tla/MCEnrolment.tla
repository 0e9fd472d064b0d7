----------------------------- MODULE MCEnrolment -----------------------------
(***************************************************************************)
(* Enrolment for TLC: the hosts can be exchanged.                          *)
(***************************************************************************)
EXTENDS Enrolment, TLC

Symmetry == Permutations(Hosts)
=============================================================================
