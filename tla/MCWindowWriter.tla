--------------------------- MODULE MCWindowWriter ---------------------------
(* Instances of WindowWriter for TLC: two identifiers that saves may share,  *)
(* and the sets of steps that may fail.                                      *)
EXTENDS WindowWriter

CONSTANTS t1, t2

TwoTrials == {t1, t2}

AllButStat == Steps \ {"stat"}
=============================================================================
