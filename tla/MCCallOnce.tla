----------------------------- MODULE MCCallOnce -----------------------------
(* An instance of CallOnce for TLC. *)
EXTENDS CallOnce

CONSTANTS t1, t2, t3, f1, f2

MCThreads == {t1, t2, t3}
MCFlags == {f1, f2}
=============================================================================
