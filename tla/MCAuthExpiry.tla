---------------------------- MODULE MCAuthExpiry -----------------------------
(***************************************************************************)
(* The runs of AuthExpiry; a unit of time is 30 s.                          *)
(***************************************************************************)
EXTENDS AuthExpiry
=============================================================================
