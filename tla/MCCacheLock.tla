----------------------------- MODULE MCCacheLock -----------------------------
(* Two linuxkit processes on one cache directory: constants for TLC.       *)
EXTENDS CacheLock

CONSTANTS p1, p2, n1, n2, d1, d2
=============================================================================
