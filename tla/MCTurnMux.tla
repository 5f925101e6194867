------------------------------ MODULE MCTurnMux ------------------------------
(* Instances of TurnMux for TLC: two turns on two threads. *)
EXTENDS TurnMux

CONSTANTS u, v, th1, th2

TwoTurns   == {u, v}
OneTurn    == {u}
TwoThreads == {th1, th2}
Apart      == [t \in TwoTurns |-> IF t = u THEN th1 ELSE th2]
ThreeFrames == [t \in TwoTurns |-> IF t = u THEN 3 ELSE 0]
TwoFrames   == [t \in TwoTurns |-> IF t = u THEN 2 ELSE 0]
=============================================================================
