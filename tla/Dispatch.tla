------------------------------- MODULE Dispatch -------------------------------
(***************************************************************************)
(* A task's journey through the broker: the goroutine of dispatch.run      *)
(* (inside the HTTP handler) or of task.start (tracked by DetachedRunner), *)
(* the run-slot semaphore, the cancel registrations, task.cancel and       *)
(* session.deregister, the client that hangs up, the per-turn deadline and *)
(* the shutdown of the process.  From handlers_dispatch.go,                *)
(* handlers_task.go, handlers_session.go, handlers_broker.go and the       *)
(* shutdown closure of cmd/codex-dispatch/broker.go.                       *)
(*                                                                         *)
(* The table is TaskLifecycle (TaskTable implements it), the codex child   *)
(* is reduced to what a run can observe of its handshake, its calls and    *)
(* its turn (AppServerPool has the child and its pipe, TurnMux the         *)
(* delivery), and events and exit codes are left out.  A run that emits an *)
(* event writes to its client's connection, and one that calls codex       *)
(* writes to the child's pipe: both writes may block, whatever the context *)
(* does, so they take part in the assumptions of the liveness properties.  *)
(***************************************************************************)
EXTENDS Naturals, FiniteSets

CONSTANTS
  Tasks,       \* runs
  Detached,    \* those started by task.start; the others are dispatch.run
  Sandboxed,   \* those whose sandbox mode is probed before the turn
  Resuming,    \* those that resume a session
  Cap,         \* run slots: Table.ConcurrencyCap()
  Deadline,    \* is CODEX_BROKER_TURN_TIMEOUT_MS set?
  Cancellable, \* bound: tasks that are cancelled by task.cancel
  Impatient,   \* bound: runs whose client may hang up
  StoreFails,  \* may a write of the status archive fail?
  MayShutDown  \* may the broker be told to stop?

ASSUME DispatchAssumption ==
  /\ Detached \subseteq Tasks
  /\ Sandboxed \subseteq Tasks
  /\ Resuming \subseteq Tasks
  /\ Cancellable \subseteq Tasks
  /\ Impatient \subseteq Tasks \ Detached
  /\ Cap \in Nat \ {0}
  /\ {Deadline, StoreFails, MayShutDown} \subseteq BOOLEAN

VARIABLES
  status,     \* the task table
  pc,         \* where each run goroutine is
  slots,      \* tokens in BrokerState.scheduler
  reg,        \* taskCancels: "none", "plain" or "turn" (with a turn handle)
  cancelled,  \* the task context's own cancel has been called
  gone,       \* the client of a dispatch.run has hung up
  canceller,  \* a task.cancel in progress
  turn,       \* the turn on the codex side
  closed,     \* the events channel of the turn is closed
  intr,       \* handle.Cancel: "none", "spawned" or "sent"
  wire,       \* the outcome the run reports in its event and its response
  late,       \* task.starts not launched yet when detached.Wait returned
  stage       \* of the broker: "serving", "stopping", "drained", "exited"

vars == <<status, pc, slots, reg, cancelled, gone, canceller, turn, closed,
          intr, wire, late, stage>>

Table == INSTANCE TaskLifecycle

codexVars == <<turn, closed>>
callVars  == <<gone, canceller, late, stage>>

(* The lines of the goroutine at which it holds a token of the scheduler.  *)
(* Set-up: the handshake of a new child under appserverMu, then calls      *)
(* being written (-ing) or awaiting their answer (-ed), the last being     *)
(* turn/start.                                                             *)
SettingUp == {"setup", "greeting", "probing", "probed", "resuming", "resumed",
              "threading", "threaded", "submitting"}
Holding == {"slotted", "running", "starting", "started", "draining", "ended",
            "interrupted", "expired", "failing", "releasing"} \cup SettingUp
Ended   == {"done", "killed"}
Unlaunched == {"idle", "accepted"}
Lines   == Holding \cup Ended \cup Unlaunched
             \cup {"admitted", "registered", "waiting", "cleaning"}

Started(t) == pc[t] \notin {"idle"} \cup Ended

(* ctx.Done() of the task: its own cancel, or its parent's -- the request  *)
(* context of a dispatch.run, the broker's lifetime for a task.start.      *)
(* Mutants: the wait is on the parent alone; the detached run has no       *)
(* parent but the background.                                              *)
ParentDone(t) == IF t \in Detached THEN stage # "serving" ELSE gone[t]
CtxDetached(t) == cancelled[t] \/ (t \notin Detached /\ gone[t])
CtxDone(t) ==
  \/ cancelled[t]
  \/ IF t \in Detached THEN stage # "serving" ELSE gone[t]

Goto(t, l) == pc' = [pc EXCEPT ![t] = l]
Step(t, from, to) == pc[t] = from /\ Goto(t, to)
Report(t, outcome) == wire' = [wire EXCEPT ![t] = outcome]

(* A transition whose write fails leaves the task errored and returns an   *)
(* error to its caller (TaskTable!Persisted).                              *)
WriteFailed(t) == StoreFails /\ Table!Fail(t)

(* A Mark... on a task that has already ended changes nothing. *)
Kept(t) == (status[t] \in Table!Terminal) /\ UNCHANGED status

-----------------------------------------------------------------------------
Init ==
  /\ Table!Init
  /\ pc = [t \in Tasks |-> "idle"]
  /\ slots = 0
  /\ reg = [t \in Tasks |-> "none"]
  /\ cancelled = [t \in Tasks |-> FALSE]
  /\ gone = [t \in Tasks |-> FALSE]
  /\ canceller = [t \in Tasks |-> "none"]
  /\ turn = [t \in Tasks |-> "none"]
  /\ closed = [t \in Tasks |-> FALSE]
  /\ intr = [t \in Tasks |-> "none"]
  /\ wire = [t \in Tasks |-> "none"]
  /\ late = {}
  /\ stage = "serving"

(* Admission, by the handler of dispatch.run, which goes on to run the     *)
(* task, or by that of task.start, which has its run still to launch.  A   *)
(* request already inside its handler when shutdown begins is still        *)
(* admitted: nothing in the handlers looks at the stage.                   *)
Admit(t) ==
  /\ stage # "exited"
  /\ Step(t, "idle", IF t \in Detached THEN "accepted" ELSE "admitted")
  /\ Table!Admit(t)
  /\ UNCHANGED <<slots, reg, cancelled, codexVars, intr, wire, callVars>>

(* DetachedRunner.Go: wg.Add(1), then the goroutine.  The handler of       *)
(* task.start is itself in no WaitGroup.                                   *)
Launch(t) ==
  /\ Step(t, "accepted", "admitted")
  /\ UNCHANGED <<status, slots, reg, cancelled, codexVars, intr, wire, callVars>>

(* registerTaskContext *)
Register(t) ==
  /\ Step(t, "admitted", "registered")
  /\ reg' = [reg EXCEPT ![t] = "plain"]
  /\ UNCHANGED <<status, slots, cancelled, codexVars, intr, wire, callVars>>

(* A task.cancel that came before the registration found nothing to        *)
(* cancel; this look at the table is what catches it.                      *)
CheckCancelled(t) ==
  /\ pc[t] = "registered"
  /\ IF status[t] = "cancelled" THEN Goto(t, "cleaning") /\ Report(t, "cancelled")
                                ELSE Goto(t, "waiting") /\ UNCHANGED wire
  /\ UNCHANGED <<status, slots, reg, cancelled, codexVars, intr, callVars>>

(* acquireRunSlot: select picks either ready arm. *)
(* Mutant: the semaphore has no bound. *)
AcquireUnbounded(t) ==
  /\ Step(t, "waiting", "slotted")
  /\ slots' = slots + 1
  /\ UNCHANGED <<status, reg, cancelled, codexVars, intr, wire, callVars>>

AcquireRunSlot(t) ==
  /\ Step(t, "waiting", "slotted")
  /\ slots < Cap
  /\ slots' = slots + 1
  /\ UNCHANGED <<status, reg, cancelled, codexVars, intr, wire, callVars>>

GiveUpSlot(t) ==
  /\ Step(t, "waiting", "cleaning")
  /\ CtxDone(t)
  /\ Table!Fail(t) \/ Kept(t)
  /\ Report(t, "error")
  /\ UNCHANGED <<slots, reg, cancelled, codexVars, intr, callVars>>

MarkRunning(t) ==
  /\ pc[t] = "slotted"
  /\ \/ Table!Begin(t) /\ Goto(t, "running") /\ UNCHANGED wire
     \/ /\ WriteFailed(t) \/ Kept(t)
        /\ Goto(t, "releasing") /\ Report(t, "error")
  /\ UNCHANGED <<slots, reg, cancelled, codexVars, intr, callVars>>

(* openTaskLog, whose failure is an RPC error. *)
OpenLog(t) ==
  /\ pc[t] = "running"
  /\ \/ Goto(t, "setup") /\ UNCHANGED <<status, wire>>
     \/ /\ Goto(t, "releasing") /\ Report(t, "error")
        /\ Table!Fail(t) \/ Kept(t)
  /\ UNCHANGED <<slots, reg, cancelled, codexVars, intr, callVars>>

(* EnsureAppServer, which looks at no context before it has appserverMu: a *)
(* usable instance is taken as it is, else a child is started and greeted  *)
(* with the lock held; it may fail to start.  Then the sandbox probe,      *)
(* thread/resume and thread/start, as the parameters have it; the policy   *)
(* check between them may fail.                                            *)
Acquire(t) == IF t \in Resuming THEN "resuming" ELSE "threading"
Prepare(t) == IF t \in Sandboxed THEN "probing" ELSE Acquire(t)

(* Mutant: nobody gives the lock back. *)
LockLeaked ==
  \A t \in Tasks : pc[t] \in Unlaunched \cup {"admitted", "registered", "waiting", "slotted",
                                              "running", "setup"}
LockFree == \A t \in Tasks : pc[t] # "greeting"

EnsureAppServer(t) ==
  /\ pc[t] = "setup"
  /\ LockFree
  /\ \E l \in {"greeting", Prepare(t), "failing"} : Goto(t, l)
  /\ UNCHANGED <<status, slots, reg, cancelled, codexVars, intr, wire, callVars>>

(* The child answers initialize, or refuses it, or dies. *)
Greeted(t) ==
  /\ pc[t] = "greeting"
  /\ \E l \in {Prepare(t), "failing"} : Goto(t, l)
  /\ UNCHANGED <<status, slots, reg, cancelled, codexVars, intr, wire, callVars>>

GreetingCut(t) ==
  /\ Step(t, "greeting", "failing")
  /\ CtxDone(t)
  /\ UNCHANGED <<status, slots, reg, cancelled, codexVars, intr, wire, callVars>>

(* writeFrame, under writeMu and whatever the context says.  (A write that *)
(* fails ends the call like an answer that is an error.)                   *)
WriteCall(t) ==
  /\ \/ Step(t, "probing", "probed")
     \/ Step(t, "resuming", "resumed")
     \/ Step(t, "threading", "threaded")
  /\ UNCHANGED <<status, slots, reg, cancelled, codexVars, intr, wire, callVars>>

(* The probe fails open; a stale session falls back to a fresh thread. *)
CallAnswered(t) ==
  /\ \/ pc[t] = "probed"   /\ \E l \in {Acquire(t), "failing"} : Goto(t, l)
     \/ pc[t] = "resumed"  /\ \E l \in {"submitting", "threading", "failing"} : Goto(t, l)
     \/ pc[t] = "threaded" /\ \E l \in {"submitting", "failing"} : Goto(t, l)
  /\ UNCHANGED <<status, slots, reg, cancelled, codexVars, intr, wire, callVars>>

CallAbandoned(t) ==
  /\ CtxDone(t)
  /\ \/ pc[t] = "probed" /\ \E l \in {Acquire(t), "failing"} : Goto(t, l)
     \/ pc[t] \in {"resumed", "threaded"} /\ Goto(t, "failing")
  /\ UNCHANGED <<status, slots, reg, cancelled, codexVars, intr, wire, callVars>>

(* StartTurn writes turn/start to the child. *)
WriteTurn(t) ==
  /\ \/ Step(t, "submitting", "starting") /\ turn' = [turn EXCEPT ![t] = "requested"]
     \/ Step(t, "submitting", "failing") /\ UNCHANGED turn
  /\ UNCHANGED <<status, slots, reg, cancelled, closed, intr, wire, callVars>>

(* StartTurn awaits the answer to turn/start: it arrives, or it is an      *)
(* error, or the context ends first -- and then nobody asks the child to   *)
(* interrupt the turn it may have begun.                                   *)
StartReply(t) ==
  /\ Step(t, "starting", "started")
  /\ turn[t] \in {"active", "over"}
  /\ UNCHANGED <<status, slots, reg, cancelled, codexVars, intr, wire, callVars>>

StartError(t) ==
  /\ Step(t, "starting", "failing")
  /\ turn[t] \in {"requested", "over"}
  /\ turn' = [turn EXCEPT ![t] = "over"]
  /\ UNCHANGED <<status, slots, reg, cancelled, closed, intr, wire, callVars>>

StartAbandoned(t) ==
  /\ Step(t, "starting", "failing")
  /\ CtxDone(t)
  /\ UNCHANGED <<status, slots, reg, cancelled, codexVars, intr, wire, callVars>>

(* registerTurnHandle *)
RegisterHandle(t) ==
  /\ Step(t, "started", "draining")
  /\ reg' = [reg EXCEPT ![t] = IF @ = "none" THEN @ ELSE "turn"]
  /\ UNCHANGED <<status, slots, cancelled, codexVars, intr, wire, callVars>>

(* drainTurn: the channel closed, or the context is done, or the deadline  *)
(* passed; the last two spawn the interruption of the turn.                *)
Spawned(t) == [intr EXCEPT ![t] = IF @ = "none" THEN "spawned" ELSE @]

DrainEvents(t) ==
  /\ pc[t] = "draining"
  /\ closed[t]
  /\ Goto(t, IF CtxDone(t) THEN "interrupted" ELSE "ended")
  /\ UNCHANGED <<status, slots, reg, cancelled, codexVars, intr, wire, callVars>>

(* Mutant: the drain returns and leaves the turn alone. *)
DrainCtxOnly(t) ==
  /\ Step(t, "draining", "interrupted")
  /\ CtxDone(t)
  /\ UNCHANGED <<status, slots, reg, cancelled, codexVars, intr, wire, callVars>>

DrainCtx(t) ==
  /\ Step(t, "draining", "interrupted")
  /\ CtxDone(t)
  /\ intr' = Spawned(t)
  /\ UNCHANGED <<status, slots, reg, cancelled, codexVars, wire, callVars>>

DrainDeadline(t) ==
  /\ Deadline
  /\ Step(t, "draining", "expired")
  /\ intr' = Spawned(t)
  /\ UNCHANGED <<status, slots, reg, cancelled, codexVars, wire, callVars>>

(* The tail of runDispatchOn and dispatchFailure: record the end in the    *)
(* table, report it, return.  MarkDone and dispatchFailure report what the *)
(* table says when another transition won; the two drain outcomes report   *)
(* their own name whatever the table said.                                 *)
RecordDone(t) ==
  /\ Step(t, "ended", "releasing")
  /\ \/ Table!Complete(t) \/ WriteFailed(t)
     \/ Kept(t)
  /\ Report(t, status'[t])
  /\ UNCHANGED <<slots, reg, cancelled, codexVars, intr, callVars>>

RecordCancelled(t) ==
  /\ Step(t, "interrupted", "releasing")
  /\ Table!Withdraw(t) \/ Kept(t)
  /\ Report(t, "cancelled")
  /\ UNCHANGED <<slots, reg, cancelled, codexVars, intr, callVars>>

RecordTimedOut(t) ==
  /\ Step(t, "expired", "releasing")
  /\ Table!Fail(t) \/ Kept(t)
  /\ Report(t, "errored")
  /\ UNCHANGED <<slots, reg, cancelled, codexVars, intr, callVars>>

(* Mutant: a failure is reported as one whatever the table says. *)
FailureErrored(t) ==
  /\ Step(t, "failing", "releasing")
  /\ \/ CtxDone(t) /\ Table!Withdraw(t)
     \/ (~CtxDone(t)) /\ Table!Fail(t)
     \/ Kept(t)
  /\ Report(t, "errored")
  /\ UNCHANGED <<slots, reg, cancelled, codexVars, intr, callVars>>

DispatchFailure(t) ==
  /\ Step(t, "failing", "releasing")
  /\ \/ CtxDone(t) /\ Table!Withdraw(t)
     \/ (~CtxDone(t)) /\ Table!Fail(t)
     \/ Kept(t)
  /\ Report(t, status'[t])
  /\ UNCHANGED <<slots, reg, cancelled, codexVars, intr, callVars>>

(* The deferred calls, last in first out. *)
ReleaseRunSlot(t) ==
  /\ Step(t, "releasing", "cleaning")
  /\ slots' = IF slots > 0 THEN slots - 1 ELSE 0
  /\ UNCHANGED <<status, reg, cancelled, codexVars, intr, wire, callVars>>

CleanUp(t) ==
  /\ Step(t, "cleaning", "done")
  /\ reg' = [reg EXCEPT ![t] = "none"]
  /\ cancelled' = [cancelled EXCEPT ![t] = TRUE]
  /\ UNCHANGED <<status, slots, codexVars, intr, wire, callVars>>

-----------------------------------------------------------------------------
(* task.cancel (and, for a queued task, session.deregister): the table     *)
(* first, then cancelTask -- a snapshot of the registration under taskMu,  *)
(* the context, and the turn in a goroutine.                               *)
CancelTable(t) ==
  /\ stage # "exited"
  /\ t \in Cancellable
  /\ canceller[t] = "none"
  /\ Table!Withdraw(t)
  /\ canceller' = [canceller EXCEPT ![t] = "marked"]
  /\ UNCHANGED <<pc, slots, reg, cancelled, gone, codexVars, intr, wire, late, stage>>

CancelSnapshot(t) ==
  /\ canceller[t] = "marked"
  /\ canceller' = [canceller EXCEPT ![t] =
                     CASE reg[t] = "none"  -> "acked"
                       [] reg[t] = "plain" -> "context"
                       [] reg[t] = "turn"  -> "context+turn"]
  /\ UNCHANGED <<status, pc, slots, reg, cancelled, gone, codexVars, intr, wire, late, stage>>

CancelContext(t) ==
  /\ canceller[t] \in {"context", "context+turn"}
  /\ cancelled' = [cancelled EXCEPT ![t] = TRUE]
  /\ intr' = IF canceller[t] = "context+turn" THEN Spawned(t) ELSE intr
  /\ canceller' = [canceller EXCEPT ![t] = "acked"]
  /\ UNCHANGED <<status, pc, slots, reg, gone, codexVars, wire, late, stage>>

(* handle.Cancel in its goroutine: only the first to end the turn closes   *)
(* the channel and sends turn/interrupt.                                   *)
HandleCancel(t) ==
  /\ intr[t] = "spawned"
  /\ intr' = [intr EXCEPT ![t] = "sent"]
  /\ closed' = [closed EXCEPT ![t] = TRUE]
  /\ UNCHANGED <<status, pc, slots, reg, cancelled, turn, wire, callVars>>

(* The client of a dispatch.run hangs up. *)
HangUp(t) ==
  /\ t \in Impatient /\ Started(t) /\ ~gone[t]
  /\ gone' = [gone EXCEPT ![t] = TRUE]
  /\ UNCHANGED <<status, pc, slots, reg, cancelled, canceller, codexVars, intr, wire, late, stage>>

-----------------------------------------------------------------------------
(* The codex child: it begins a requested turn, completes it (or dies, to  *)
(* the same effect on this turn), or obeys an interrupt.  The channel      *)
(* closes only if the turn is still routed, i.e. StartTurn did not give up *)
(* on it.                                                                  *)
CodexBegins(t) ==
  /\ turn[t] = "requested"
  /\ turn' = [turn EXCEPT ![t] = "active"]
  /\ UNCHANGED <<status, pc, slots, reg, cancelled, closed, intr, wire, callVars>>

CodexCompletes(t) ==
  /\ turn[t] = "active"
  /\ turn' = [turn EXCEPT ![t] = "over"]
  /\ closed' = [closed EXCEPT ![t] = @ \/ pc[t] \in {"starting", "started", "draining"}]
  /\ UNCHANGED <<status, pc, slots, reg, cancelled, intr, wire, callVars>>

CodexInterrupted(t) ==
  /\ turn[t] = "active"
  /\ intr[t] = "sent"
  /\ turn' = [turn EXCEPT ![t] = "over"]
  /\ UNCHANGED <<status, pc, slots, reg, cancelled, closed, intr, wire, callVars>>

-----------------------------------------------------------------------------
(* Shutdown: cancel the broker's lifetime, wait for the detached runs      *)
(* launched so far, wait a bounded time for the turns of the others, exit. *)
(* The exit ends every goroutine and the codex child.                      *)
Shutdown ==
  /\ MayShutDown
  /\ stage = "serving"
  /\ stage' = "stopping"
  /\ UNCHANGED <<status, pc, slots, reg, cancelled, gone, canceller, codexVars, intr, wire, late>>

(* Those the wait cannot know of: their handler has still to launch them,  *)
(* or has yet to admit them.                                               *)
Missed == {t \in Detached : pc[t] \in Unlaunched}

(* Mutant: a run joins the WaitGroup inside its goroutine. *)
DetachedAddedLate ==
  /\ stage = "stopping"
  /\ \A t \in Detached : Started(t) => pc[t] \in {"accepted", "admitted"}
  /\ stage' = "drained"
  /\ late' = Missed
  /\ UNCHANGED <<status, pc, slots, reg, cancelled, gone, canceller, codexVars, intr, wire>>

DetachedWait ==
  /\ stage = "stopping"
  /\ \A t \in Detached : Started(t) => pc[t] \in Unlaunched
  /\ stage' = "drained"
  /\ late' = Missed
  /\ UNCHANGED <<status, pc, slots, reg, cancelled, gone, canceller, codexVars, intr, wire>>

Exit ==
  /\ stage = "drained"
  /\ stage' = "exited"
  /\ pc' = [t \in Tasks |-> IF Started(t) THEN "killed" ELSE pc[t]]
  /\ canceller' = [t \in Tasks |-> IF canceller[t] \in {"none", "acked"}
                                    THEN canceller[t] ELSE "killed"]
  /\ intr' = [t \in Tasks |-> IF intr[t] = "spawned" THEN "none" ELSE intr[t]]
  /\ turn' = [t \in Tasks |-> IF turn[t] = "none" THEN "none" ELSE "over"]
  /\ slots' = 0
  /\ UNCHANGED <<status, reg, cancelled, gone, closed, wire, late>>

(* The steps of a run that come after it emitted an event, and so after    *)
(* its client's connection took the event: task.started, the notifications *)
(* a drain relays, the end.  (The fallback to a fresh thread and a thread  *)
(* that started are told as well, and then followed by a WriteFrame.)  A   *)
(* detached run has no client, and a connection that hung up refuses the   *)
(* write at once.                                                          *)
AfterEmit(t) ==
  EnsureAppServer(t) \/ DrainEvents(t) \/ DrainCtx(t) \/ ReleaseRunSlot(t)

(* The other steps of a run that wait for nothing but a lock that is never *)
(* held for long, a channel or the context.                                *)
Proceed(t) ==
  \/ Launch(t) \/ Register(t) \/ CheckCancelled(t) \/ GiveUpSlot(t)
  \/ MarkRunning(t) \/ OpenLog(t) \/ GreetingCut(t) \/ CallAbandoned(t)
  \/ StartReply(t) \/ StartAbandoned(t) \/ RegisterHandle(t)
  \/ RecordDone(t) \/ RecordCancelled(t) \/ RecordTimedOut(t) \/ DispatchFailure(t)
  \/ CleanUp(t)

(* The writes to codex, and what only codex decides. *)
WriteFrame(t) == WriteCall(t) \/ WriteTurn(t)

Run(t) ==
  \/ Proceed(t) \/ AfterEmit(t) \/ WriteFrame(t)
  \/ Greeted(t) \/ CallAnswered(t) \/ StartError(t)

Canceller(t) == CancelSnapshot(t) \/ CancelContext(t) \/ HandleCancel(t)

Next ==
  \/ \E t \in Tasks : \/ Admit(t) \/ Run(t) \/ AcquireRunSlot(t) \/ DrainDeadline(t)
                      \/ CancelTable(t) \/ Canceller(t) \/ HangUp(t)
                      \/ CodexBegins(t) \/ CodexCompletes(t) \/ CodexInterrupted(t)
  \/ Shutdown \/ DetachedWait \/ Exit

Spec == Init /\ [][Next]_vars

(* Fairness: the goroutines of the broker are scheduled, and a context     *)
(* that is done wakes who waits for it.  Nothing is assumed of codex (that *)
(* it reads its pipe, answers, completes a turn or obeys an interrupt), of *)
(* clients that stay connected (that they read), nor of timers: those are  *)
(* named below and assumed only by the properties that need them.          *)
FairSpec ==
  /\ Spec
  /\ \A t \in Tasks :
       /\ WF_vars(Proceed(t))
       /\ WF_vars((t \in Detached \/ gone[t]) /\ AfterEmit(t))
       /\ WF_vars(Canceller(t))
  /\ WF_vars(DetachedWait)

ClientsRead   == \A t \in Tasks : WF_vars(AfterEmit(t))
PipeDrains    == \A t \in Tasks : WF_vars(WriteFrame(t))
CodexGreets   == \A t \in Tasks : WF_vars(Greeted(t))
CodexAnswers  == \A t \in Tasks : WF_vars(CallAnswered(t)) /\ WF_vars(CodexBegins(t))
DeadlinesPass == Deadline /\ \A t \in Tasks : WF_vars(DrainDeadline(t))

-----------------------------------------------------------------------------
(* The type invariant.                                                     *)
TypeOK ==
  /\ Table!TypeOK
  /\ pc \in [Tasks -> Lines]
  /\ slots \in Nat
  /\ reg \in [Tasks -> {"none", "plain", "turn"}]
  /\ cancelled \in [Tasks -> BOOLEAN]
  /\ gone \in [Tasks -> BOOLEAN]
  /\ canceller \in [Tasks -> {"none", "marked", "context", "context+turn", "acked", "killed"}]
  /\ turn \in [Tasks -> {"none", "requested", "active", "over"}]
  /\ closed \in [Tasks -> BOOLEAN]
  /\ intr \in [Tasks -> {"none", "spawned", "sent"}]
  /\ wire \in [Tasks -> {"none", "error"} \cup Table!Terminal]
  /\ late \subseteq Tasks
  /\ stage \in {"serving", "stopping", "drained", "exited"}

(* The semaphore counts exactly the runs between their acquire and their   *)
(* deferred release, whatever ended them (handlers_broker.go:53-77).       *)
SlotsConserved == slots = Cardinality({t \in Tasks : pc[t] \in Holding})

(* A task the table calls running has a goroutine that holds a slot, so at *)
(* most Cap tasks run at once although the table itself never looks at the *)
(* cap when it marks one running (tasks.go:377-402).                       *)
RunningHoldsSlot ==
  /\ \A t \in Tasks : status[t] = "running" => pc[t] \in Holding \cup {"killed"}
  /\ Cardinality({t \in Tasks : status[t] = "running"}) <= Cap

(* When the goroutine of a run has returned, the table has a terminal      *)
(* state for its task: no path leaves a task queued or running for ever.   *)
ReturnedMeansEnded ==
  \A t \in Tasks : pc[t] \in {"cleaning", "done"} => status[t] \in Table!Terminal

(* The accounts of the runs: types, slots and ends. *)
RunsAccounted == TypeOK /\ SlotsConserved /\ RunningHoldsSlot /\ ReturnedMeansEnded

(* What a run reports is what task.status says of its task                 *)
(* (handlers_dispatch.go:317-327).                                         *)
WireMatchesTable ==
  \A t \in Tasks : wire[t] \in Table!Terminal => wire[t] = status[t]

(* When a run that drained its turn returns, by whatever arm of the select *)
(* (handlers_dispatch.go:445-477), the turn is over or an interrupt is on  *)
(* its way.                                                                *)
TurnInterrupted(t) == turn[t] \in {"none", "over"} \/ intr[t] \in {"spawned", "sent"}

NoOrphanAfterDrain ==
  \A t \in Tasks :
    (pc[t] \in {"releasing", "cleaning"} /\ reg[t] = "turn") => TurnInterrupted(t)

(* Every detached run launched before detached.Wait returned, were it      *)
(* while the broker was already stopping, has ended its task before the    *)
(* codex child is closed and the process exits (broker.go:55-60).  A task  *)
(* whose handler had it admitted and not yet launched escapes the wait.    *)
DetachedDrained ==
  stage \in {"drained", "exited"} =>
    \A t \in Detached \ late : status[t] \in Table!Terminal

(* An acknowledged cancellation is never overtaken: the task stays         *)
(* cancelled whatever the run, the turn and the deadline do next.          *)
CancelWins ==
  [][\A t \in Tasks : canceller[t] # "none" => status'[t] = "cancelled"]_vars

(* A cancelled task's run returns and gives up its slot even if codex      *)
(* answers no call, never completes the turn nor obeys the interrupt       *)
(* (handlers_dispatch.go:418-422), provided its events and frames can be   *)
(* written and no handshake hangs: a run behind the lock of another's      *)
(* handshake does not see its own context.                                 *)
CancelledRunReturns ==
  ClientsRead /\ PipeDrains /\ CodexGreets =>
    \A t \in Tasks : (canceller[t] = "acked") ~> (pc[t] \in Ended)

(* With a deadline configured and timers that fire, no wedged turn pins a  *)
(* slot: a run that has one gives it back (handlers_broker.go:146-150).    *)
(* The deadline starts with the drain, so codex must answer what comes     *)
(* before it; it need never complete a turn nor obey an interrupt.         *)
NoSlotPinned ==
  ClientsRead /\ PipeDrains /\ CodexGreets /\ CodexAnswers /\ DeadlinesPass =>
    \A t \in Tasks : (pc[t] \in Holding) ~> (pc[t] \notin Holding)

(* Shutdown is not held up by detached runs, whatever codex does with      *)
(* their calls and turns and whether or not other clients read:            *)
(* detached.Wait returns (handlers_task.go:125-129), provided frames can   *)
(* be written and no handshake hangs.                                      *)
ShutdownProceeds ==
  PipeDrains /\ CodexGreets => (stage = "stopping") ~> (stage = "drained")

=============================================================================
