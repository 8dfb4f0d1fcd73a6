-------------------------- MODULE MCRotationHistory --------------------------
(* Two requests, every way to give them models, over the configurations of  *)
(* MCProxyLoop, with the history of what was drawn and handed out.          *)
EXTENDS RotationHistory, MCProxyLoop
=============================================================================
