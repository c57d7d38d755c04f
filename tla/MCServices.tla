----------------------------- MODULE MCServices -----------------------------
(* Services and users for TLC.                                     *)
EXTENDS Services

CONSTANTS s1, s2, u1, u2
=============================================================================
