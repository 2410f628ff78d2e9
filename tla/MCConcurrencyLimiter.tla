------------------------ MODULE MCConcurrencyLimiter ------------------------
(* A limiter small enough to saturate: more calls than slots, so that the  *)
(* queue fills, drains and is overtaken if it can be.                      *)
EXTENDS ConcurrencyLimiter

CONSTANTS t1, t2, t3, t4

MCTask == {t1, t2, t3, t4}
=============================================================================
