----------------------------- MODULE MCDispatch -----------------------------
(* Instances of Dispatch for TLC: a dispatch.run and a task.start. *)
EXTENDS Dispatch

CONSTANTS r1, r2

TwoRuns   == {r1, r2}
First  == {r1}
Second == {r2}
=============================================================================
