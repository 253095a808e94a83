---------------------------- MODULE MCRedisCache ----------------------------
EXTENDS RedisCache
=============================================================================
