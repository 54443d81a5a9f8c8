----------------------------- MODULE MCRuntime -----------------------------
(* Three processes, two models and two ports, so that a second serve meets *)
(* the port of the first, or not; two health checks.                       *)
EXTENDS Runtime
=============================================================================
