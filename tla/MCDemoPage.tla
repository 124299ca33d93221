----------------------------- MODULE MCDemoPage -----------------------------
(* The page against a server with a short scenario. *)
EXTENDS DemoPage
=============================================================================
