----------------------------- MODULE MCInProcess -----------------------------
(* InProcess on small instances.                                           *)
EXTENDS InProcess
=============================================================================
