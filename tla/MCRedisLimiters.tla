-------------------------- MODULE MCRedisLimiters --------------------------
(***************************************************************************)
(* The Redis limiters for TLC.                                             *)
(***************************************************************************)
EXTENDS RedisLimiters

\* Stands for a policy such as 3 per 59 seconds, whose keys live 58 seconds
ShortPolicies == {<<2, 2>>}
=============================================================================
