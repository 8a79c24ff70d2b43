----------------------------- MODULE MCCtsTest -----------------------------
(* The instance of CtsTest for TLC: a general package between two that dEQP *)
(* runners run; the second and the third share a test.                      *)
EXTENDS CtsTest, TLC

CONSTANTS t1, t2

MCTests    == {t1, t2}
MCExpected == <<{t2}, {t1}, {t1}>>
=============================================================================
