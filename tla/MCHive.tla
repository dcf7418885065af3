-------------------------------- MODULE MCHive --------------------------------
(* Instances of Hive for TLC: graphs of up to four tasks.                  *)
EXTENDS Hive, TLC

CONSTANTS t1, t2, t3, t4, w1, w2, w3

Chain == [t \in Tasks |-> CASE t = t2 -> {t1} [] t = t3 -> {t2} [] OTHER -> {}]
Join == [t \in Tasks |-> IF t = t3 THEN {t1, t2} ELSE {}]
Diamond == [t \in Tasks |-> CASE t = t1 -> {} [] t = t4 -> {t2, t3} [] OTHER -> {t1}]
WorkerSymmetry == Permutations(Workers)
=============================================================================
