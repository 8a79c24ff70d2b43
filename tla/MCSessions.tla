----------------------------- MODULE MCSessions -----------------------------
(* Instances of Sessions: one device with many invocations in turn, and two *)
(* devices at once.                                                         *)
EXTENDS Sessions, TLC

CONSTANTS t1, t2, k

TwoTests  == {t1, t2}
WithKnown == {t1, t2, k}
=============================================================================
