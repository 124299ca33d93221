------------------------------- MODULE MCDemo -------------------------------
(* The whole scenario of eight steps, as the engine scripts it. *)
EXTENDS Demo

MCSteps == Len(Script)
=============================================================================
