----------------------------- MODULE MCLogRotate -----------------------------
(* Model checking of LogRotate.                                            *)
EXTENDS LogRotate
=============================================================================
