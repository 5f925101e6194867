--------------------------- MODULE TaskLifecycle ---------------------------
(***************************************************************************)
(* What the broker promises about one task, whatever table, archive or     *)
(* goroutine carries it: a task is admitted once, may be picked up to run, *)
(* and reaches exactly one terminal state, which it never leaves.  The     *)
(* state machine is the one of src/internal/broker/tasks.go, lines 16-33,  *)
(* with the transitions its Mark... methods allow.                         *)
(*                                                                         *)
(* The archive of TaskTable implements this specification; Dispatch uses   *)
(* its operations as the table the run goroutines share.                   *)
(***************************************************************************)

CONSTANT Tasks

VARIABLE status

Live     == {"queued", "running"}
Terminal == {"done", "errored", "cancelled"}
Statuses == {"absent"} \cup Live \cup Terminal

TypeOK == status \in [Tasks -> Statuses]

Init == status = [t \in Tasks |-> "absent"]

(***************************************************************************)
(* One operator per transition.  Admit and Begin are the only ways into a  *)
(* live state; Complete needs a running task; Fail and Withdraw end any    *)
(* live one.                                                               *)
(***************************************************************************)
Admit(t) ==
  /\ status[t] = "absent"
  /\ status' = [status EXCEPT ![t] = "queued"]

Begin(t) ==
  /\ status[t] = "queued"
  /\ status' = [status EXCEPT ![t] = "running"]

(* Mutant: completion does not look at the state it leaves. *)
CompleteAnyway(t) == status' = [status EXCEPT ![t] = "done"]

Complete(t) ==
  /\ status[t] = "running"
  /\ status' = [status EXCEPT ![t] = "done"]

Fail(t) ==
  /\ status[t] \in Live
  /\ status' = [status EXCEPT ![t] = "errored"]

Withdraw(t) ==
  /\ status[t] \in Live
  /\ status' = [status EXCEPT ![t] = "cancelled"]

Next ==
  \E t \in Tasks : Admit(t) \/ Begin(t) \/ Complete(t) \/ Fail(t) \/ Withdraw(t)

Spec == Init /\ [][Next]_status

=============================================================================
