--------------------------- MODULE MCAppServerPool ---------------------------
(* Instances of AppServerPool for TLC. *)
EXTENDS AppServerPool, TLC

CONSTANTS r1, r2, i1, i2

TwoRuns      == {r1, r2}
First        == {r1}
Second       == {r2}
TwoInstances == {i1, i2}
OneInstance  == {i1}
Modes == [r \in TwoRuns |-> IF r = r1 THEN "workspace-write" ELSE "read-only"]

(* What a run asks for in either mode, and each way to go beyond it. *)
Exact(type) ==
  [approval |-> "never", cwd |-> "asked", model |-> "asked", type |-> type, network |-> FALSE,
   roots |-> {}, noTmpdir |-> TRUE, noSlashTmp |-> TRUE]
Deviations(a) ==
  {a, [a EXCEPT !.approval = "on-request"], [a EXCEPT !.cwd = "other"],
   [a EXCEPT !.model = "other"], [a EXCEPT !.network = TRUE], [a EXCEPT !.roots = {"asked"}],
   [a EXCEPT !.roots = {"asked", "other"}], [a EXCEPT !.noTmpdir = FALSE],
   [a EXCEPT !.noSlashTmp = FALSE], [a EXCEPT !.type = "dangerFullAccess"]}
SomeAnswers == Deviations(Exact("readOnly")) \cup Deviations(Exact("workspaceWrite"))
=============================================================================
