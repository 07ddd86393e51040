------------------------------ MODULE MCMockRt ------------------------------
(* Instances of the mock runtime for TLC. *)
EXTENDS MockRtRegistry

CONSTANTS t1, t2, r1, r2

OneThread == {t1}
TwoThreads == {t1, t2}

OneRuntime == {r1}
TwoRuntimes == {r1, r2}

AllAtHome == [r \in Runtimes |-> t1]
OneEach == [r \in Runtimes |-> IF r = r1 THEN t1 ELSE t2]

None_ == {}
First == {r1}
Second == {r2}
=============================================================================
