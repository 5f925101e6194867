----------------------------- MODULE MCTaskTable -----------------------------
(* Instances of TaskTable for TLC. *)
EXTENDS TaskTable, TLC

CONSTANTS t1, t2, t3, t4, s1, s2

ThreeTasks == {t1, t2, t3}
FourTasks  == {t1, t2, t3, t4}
TwoSessions == {s1, s2}
OwnThree == [t \in ThreeTasks |-> IF t = t3 THEN s2 ELSE s1]
OwnFour  == [t \in FourTasks |-> IF t = t4 THEN s2 ELSE s1]

(* Tasks of one session are interchangeable. *)
SymFour  == Permutations({t1, t2, t3})
=============================================================================
