----------------------------- MODULE MCRedisSlots -----------------------------
EXTENDS RedisSlots, TLC

AnyRequest == Permutations(Requests)
===============================================================================
