-------------------------- MODULE MCResponseChain --------------------------
(* Every status an HTTP client can report (three digits). *)
EXTENDS ResponseChain

MCStatuses == 100..999
=============================================================================
