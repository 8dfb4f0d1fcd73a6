--------------------------- MODULE MCConfigReload ---------------------------
(* Two proxied requests, a health check and two administrators. *)
EXTENDS ConfigReload, TLC

MCSymmetry == Permutations(Proxies)

\* A configuration without any group is refused.
MCValidConfigs == (SUBSET Editors) \ {{}}
=============================================================================
