--------------------------- MODULE MCRedisLimiter ---------------------------
(* Model-checking instance of RedisLimiter.                                *)
EXTENDS RedisLimiter

ClientSymmetry == Permutations(Clients)
=============================================================================
