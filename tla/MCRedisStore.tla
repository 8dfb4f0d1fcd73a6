---------------------------- MODULE MCRedisStore ----------------------------
(* Instances that may be configured with one key, the other, or both. *)
EXTENDS RedisStore, TLC

CONSTANTS k1, k2

MCKeys == {k1, k2}

MCConfigs == {{k1}, {k1, k2}}

MCSymmetry == Permutations(Instances)
=============================================================================
