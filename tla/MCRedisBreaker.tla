---------------------------- MODULE MCRedisBreaker ----------------------------
(* Small instances of RedisBreaker.                                        *)
EXTENDS RedisBreaker

CONSTANTS o1, o2, o3

=============================================================================
