------------------------------ MODULE MCMemlogd ------------------------------
(* memlogd with two query clients and one log source.                      *)
EXTENDS Memlogd

CONSTANTS c1, c2, s1
=============================================================================
