----------------------------- MODULE MCClanFund -----------------------------
(***************************************************************************)
(* Constants of the runs of ClanFund.                                       *)
(***************************************************************************)
EXTENDS ClanFund, TLC

CONSTANTS c1, c2

\* An edit may turn a contribution negative: the DTO asks for an int only.
MCEditAmount == {-1}

AllRoles == Client \X Clan

\* The clients play the same part.
Symmetry == Permutations({c1, c2})
=============================================================================
