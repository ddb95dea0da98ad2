-------------------------- MODULE MCClanMembership --------------------------
(***************************************************************************)
(* Constants of the runs of ClanMembership.                                 *)
(***************************************************************************)
EXTENDS ClanMembership, TLC

CONSTANTS c1, c2, g

\* The clients play the same part.
Symmetry == Permutations({c1, c2})
=============================================================================
