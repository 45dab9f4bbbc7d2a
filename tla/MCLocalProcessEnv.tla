------------------------- MODULE MCLocalProcessEnv -------------------------
(* Instances of LocalProcessEnv for TLC: three generations in one worker, or  *)
(* two in one and one in another, on one or two ports.  Three tasks are what  *)
(* the race of a release with two acquisitions takes.                         *)
EXTENDS LocalProcessEnv
CONSTANTS t1, t2, t3, w1, w2
OneWorker  == [t \in {t1, t2, t3} |-> w1]
TwoWorkers == [t \in {t1, t2, t3} |-> IF t = t3 THEN w2 ELSE w1]
=============================================================================
