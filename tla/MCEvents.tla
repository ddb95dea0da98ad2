------------------------------ MODULE MCEvents ------------------------------
(***************************************************************************)
(* Constants of the run of Events.                                          *)
(***************************************************************************)
EXTENDS Events

CONSTANTS c1, c2, f1, f2

\* An owner and a plain member.
OwnerAndLaborer == [r \in {c1, c2} |-> IF r = c1 THEN "OWNER" ELSE "LABORER"]
=============================================================================
