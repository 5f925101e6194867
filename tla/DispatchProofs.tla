---------------------------- MODULE DispatchProofs ----------------------------
(***************************************************************************)
(* Theorems about Dispatch, for any runs, any number of run slots, and any *)
(* interleaving of cancels, hang-ups, failing writes, deadlines and the    *)
(* shutdown.  The argument follows a run's goroutine: at each line of it   *)
(* only task.cancel may have moved the task besides the run itself.        *)
(***************************************************************************)
EXTENDS Dispatch, FiniteSetTheorems, TLAPS

(* The lines of a run before MarkRunning and between it and the outcome.   *)
Before == {"accepted", "admitted", "registered", "waiting", "slotted"}
Inside == {"running", "starting", "started", "draining", "ended", "interrupted",
           "expired", "failing"} \cup SettingUp
Over   == {"releasing", "cleaning", "done"}

(* What the table may say of a task, by the line its run is at.            *)
Journey ==
  \A t \in Tasks :
    /\ pc[t] = "idle" => status[t] = "absent"
    /\ pc[t] \in Before => status[t] \in {"queued", "cancelled"}
    /\ pc[t] \in Inside => status[t] \in {"running", "cancelled"}
    /\ pc[t] \in Over => status[t] \in Table!Terminal
    /\ pc[t] = "expired" => Deadline
    /\ pc[t] = "killed" => stage = "exited"
    /\ wire[t] # "none" => pc[t] \in Over \cup {"killed"}

(* A cancel under way has marked its task. *)
Marked == \A t \in Tasks : canceller[t] # "none" => status[t] = "cancelled"

(* No turn is asked for before StartTurn; a closed channel is one of a     *)
(* turn that is over or was interrupted, and a run with a registered turn  *)
(* is draining it or has drained it.                                       *)
Interrupts ==
  \A t \in Tasks :
    /\ pc[t] \in {"idle", "running"} \cup Before \cup SettingUp => turn[t] = "none"
    /\ closed[t] => turn[t] = "over" \/ intr[t] = "sent"
    /\ reg[t] = "turn" =>
         pc[t] \in {"draining", "ended", "interrupted", "expired", "releasing", "cleaning", "killed"}
    /\ reg[t] = "turn" /\ pc[t] \notin {"draining", "killed"} => TurnInterrupted(t)

(* After the wait, the detached runs launched before its end are over;     *)
(* after the exit nothing runs.                                            *)
Stopped ==
  /\ stage \in {"drained", "exited"} => \A t \in Detached \ late : pc[t] = "done"
  /\ stage = "exited" => \A t \in Tasks : pc[t] \in {"idle", "done", "killed"}

(* The runs that hold a slot, the tasks the table calls running. *)
Held    == {t \in Tasks : pc[t] \in Holding}
Running == {t \in Tasks : status[t] = "running"}

Counted == IsFiniteSet(Held) /\ slots = Cardinality(Held) /\ slots <= Cap
Capped  == IsFiniteSet(Running) /\ Cardinality(Running) <= Cap

(* Without a deadline the wire agrees with the table. *)
Honest == ~Deadline => WireMatchesTable

Inv ==
  /\ TypeOK /\ Journey /\ Marked /\ Interrupts /\ Stopped
  /\ Counted /\ Capped /\ Honest

-----------------------------------------------------------------------------
(* The first states satisfy the invariant. *)
LEMMA Initially == Init => Inv
  <1> SUFFICES ASSUME Init PROVE Inv
    OBVIOUS
  <1> USE DispatchAssumption DEF Init, Table!Init
  <1>1. TypeOK
    BY DEF TypeOK, Table!TypeOK, Table!Statuses, Lines, Unlaunched, Table!Terminal
  <1>2. Journey /\ Marked /\ Interrupts /\ Stopped
    BY DEF Journey, Before, Inside, SettingUp, Over, Marked, Interrupts, Stopped
  <1>3. Held = {} /\ Running = {}
    BY DEF Held, Running, Holding, SettingUp
  <1>4. Counted /\ Capped
    BY <1>3, FS_EmptySet DEF Counted, Capped
  <1>5. Honest
    BY DEF Honest, WireMatchesTable, Table!Terminal
  <1> QED
    BY <1>1, <1>2, <1>4, <1>5 DEF Inv

(* A task that has ended stays as it ended. *)
LEMMA EndsStay ==
  ASSUME Inv, Next, NEW t \in Tasks, status[t] \in Table!Terminal
  PROVE  status'[t] = status[t]
  BY DEF Inv, TypeOK, Table!TypeOK, Next, Run, Canceller, callVars, codexVars,
     Table!Terminal, Table!Live, Admit, Step, Goto, Table!Admit, Register,
     CheckCancelled, Report, GiveUpSlot, Kept, Table!Fail, CtxDone, MarkRunning,
     WriteFailed, Table!Begin, OpenLog, EnsureAppServer, Greeted, GreetingCut, WriteCall,
     CallAnswered, CallAbandoned, WriteTurn, StartReply, StartError, StartAbandoned,
     Launch, Proceed, AfterEmit, WriteFrame,
     RegisterHandle, DrainEvents, DrainCtx, Spawned, RecordDone, Table!Complete,
     RecordCancelled, Table!Withdraw, RecordTimedOut, DispatchFailure, ReleaseRunSlot,
     CleanUp, AcquireRunSlot, DrainDeadline, CancelTable, CancelSnapshot, CancelContext,
     HandleCancel, HangUp, Started, CodexBegins, CodexCompletes, CodexInterrupted,
     Shutdown, DetachedWait, Ended, Exit

(* A step that moves no run into or out of its slot. *)
LEMMA SameHolders ==
  ASSUME Counted, Held' = Held, slots' = slots
  PROVE  Counted'
  BY DEF Counted

(* A run acquires a slot. *)
LEMMA OneMore ==
  ASSUME Counted, NEW t \in Tasks, t \notin Held, Held' = Held \cup {t}, slots' = slots + 1, slots < Cap
  PROVE  Counted'
  <1>1. IsFiniteSet(Held') /\ Cardinality(Held') = Cardinality(Held) + 1
    BY FS_AddElement DEF Counted
  <1> QED
    BY <1>1, FS_CardinalityType, DispatchAssumption DEF Counted

(* A run gives its slot back. *)
LEMMA OneLess ==
  ASSUME Counted, NEW t \in Tasks, t \in Held, Held' = Held \ {t},
         slots' = IF slots > 0 THEN slots - 1 ELSE 0
  PROVE  Counted'
  <1>1. IsFiniteSet(Held') /\ Cardinality(Held') = Cardinality(Held) - 1
    BY FS_RemoveElement DEF Counted
  <1>2. Cardinality(Held) \in Nat /\ Cardinality(Held') \in Nat
    BY <1>1, FS_CardinalityType DEF Counted
  <1> QED
    BY <1>1, <1>2, DispatchAssumption DEF Counted

(* As long as the broker lives a running task is one of a holder; after    *)
(* the exit nothing begins to run.                                         *)
LEMMA RunningCapped ==
  ASSUME Capped, TypeOK', Journey', Counted',
         stage' = "exited" => Running' \subseteq Running
  PROVE  Capped'
  <1>1. CASE stage' = "exited"
    BY <1>1, FS_Subset, FS_CardinalityType, DispatchAssumption DEF Capped
  <1>2. CASE stage' # "exited"
    <2>1. Running' \subseteq Held'
      BY <1>2 DEF Running, Held, Journey, Before, Inside, Over, Holding, SettingUp, TypeOK,
         Lines, Ended, Unlaunched, Table!Terminal
    <2> QED
      BY <2>1, FS_Subset, FS_CardinalityType, DispatchAssumption DEF Capped, Counted
  <1> QED
    BY <1>1, <1>2

-----------------------------------------------------------------------------
(* Every step of the broker, its clients and codex keeps the invariant. *)
LEMMA Inductive == Inv /\ [Next]_vars => Inv'
  <1> SUFFICES ASSUME Inv, [Next]_vars PROVE Inv'
    OBVIOUS
  <1> USE DispatchAssumption DEF Inv, callVars, codexVars
  <1>1. ASSUME NEW t \in Tasks, Admit(t) PROVE Inv'
    <2> USE <1>1 DEF Admit, Step, Goto, Table!Admit
    <2>1. TypeOK'
      BY DEF TypeOK, Table!TypeOK, Table!Statuses, Table!Live, Table!Terminal, Lines,
         Holding, Ended, Unlaunched, SettingUp
    <2>2. Journey'
      BY DEF TypeOK, Table!TypeOK, Journey, Before, Inside, Over, Table!Live,
         Table!Terminal, Holding, Lines, Ended, Unlaunched, SettingUp, Marked
    <2>3. Marked'
      BY DEF TypeOK, Table!TypeOK, Marked, Table!Live, Table!Terminal, Journey, Before,
         Inside, Over
    <2>4. Interrupts'
      BY DEF TypeOK, Interrupts, TurnInterrupted, Before, SettingUp, Journey
    <2>5. Stopped'
      BY DEF TypeOK, Stopped, Journey
    <2>6. Counted'
      <3>1. Held' = Held /\ slots' = slots
        BY DEF TypeOK, Held, Holding, SettingUp
      <3> QED
        BY <3>1, SameHolders
    <2>7. Capped'
      <3>1. stage' = "exited" => Running' \subseteq Running
        BY DEF TypeOK, Table!TypeOK, Stopped, Running
      <3> QED
        BY <2>1, <2>2, <2>6, <3>1, RunningCapped
    <2>8. Honest'
      BY DEF TypeOK, Table!TypeOK, Honest, WireMatchesTable, Journey, Before, Inside,
         Over, Table!Live, Table!Terminal, Marked
    <2> QED
      BY <2>1, <2>2, <2>3, <2>4, <2>5, <2>6, <2>7, <2>8
  <1>2. ASSUME NEW t \in Tasks, Launch(t) PROVE Inv'
    <2> USE <1>2 DEF Launch, Step, Goto
    <2>1. TypeOK'
      BY DEF TypeOK, Table!TypeOK, Table!Statuses, Table!Live, Table!Terminal, Lines,
         Holding, Ended, Unlaunched, SettingUp
    <2>2. (Marked /\ Capped /\ Honest)'
      BY DEF Marked, Capped, Running, Honest, WireMatchesTable
    <2>3. Journey'
      BY DEF TypeOK, Table!TypeOK, Journey, Before, Inside, Over, Table!Live,
         Table!Terminal, Holding, Lines, Ended, Unlaunched, SettingUp, Marked
    <2>4. Interrupts'
      BY DEF TypeOK, Interrupts, TurnInterrupted, Before, SettingUp, Journey
    <2>5. Stopped'
      BY DEF TypeOK, Stopped, Journey
    <2>6. Counted'
      <3>1. Held' = Held /\ slots' = slots
        BY DEF TypeOK, Held, Holding, SettingUp
      <3> QED
        BY <3>1, SameHolders
    <2> QED
      BY <2>1, <2>2, <2>3, <2>4, <2>5, <2>6
  <1>3. ASSUME NEW t \in Tasks, Register(t) PROVE Inv'
    <2> USE <1>3 DEF Register, Step, Goto
    <2>1. TypeOK'
      BY DEF TypeOK, Table!TypeOK, Table!Statuses, Table!Live, Table!Terminal, Lines,
         Holding, Ended, Unlaunched, SettingUp
    <2>2. (Marked /\ Capped /\ Honest)'
      BY DEF Marked, Capped, Running, Honest, WireMatchesTable
    <2>3. Journey'
      BY DEF TypeOK, Table!TypeOK, Journey, Before, Inside, Over, Table!Live,
         Table!Terminal, Holding, Lines, Ended, Unlaunched, SettingUp, Marked
    <2>4. Interrupts'
      BY DEF TypeOK, Interrupts, TurnInterrupted, Before, SettingUp, Journey
    <2>5. Stopped'
      BY DEF TypeOK, Stopped, Journey
    <2>6. Counted'
      <3>1. Held' = Held /\ slots' = slots
        BY DEF TypeOK, Held, Holding, SettingUp
      <3> QED
        BY <3>1, SameHolders
    <2> QED
      BY <2>1, <2>2, <2>3, <2>4, <2>5, <2>6
  <1>4. ASSUME NEW t \in Tasks, CheckCancelled(t) PROVE Inv'
    <2> USE <1>4 DEF CheckCancelled, Goto, Report
    <2>1. TypeOK'
      BY DEF TypeOK, Table!TypeOK, Table!Statuses, Table!Live, Table!Terminal, Lines,
         Holding, Ended, Unlaunched, SettingUp
    <2>2. (Marked /\ Capped)'
      BY DEF Marked, Capped, Running
    <2>3. Journey'
      BY DEF TypeOK, Table!TypeOK, Journey, Before, Inside, Over, Table!Live,
         Table!Terminal, Holding, Lines, Ended, Unlaunched, SettingUp, Marked
    <2>4. Interrupts'
      BY DEF TypeOK, Interrupts, TurnInterrupted, Before, SettingUp, Journey
    <2>5. Stopped'
      BY DEF TypeOK, Stopped, Journey
    <2>6. Counted'
      <3>1. Held' = Held /\ slots' = slots
        BY DEF TypeOK, Held, Holding, SettingUp
      <3> QED
        BY <3>1, SameHolders
    <2>7. Honest'
      BY DEF TypeOK, Table!TypeOK, Honest, WireMatchesTable, Journey, Before, Inside,
         Over, Table!Live, Table!Terminal, Marked
    <2> QED
      BY <2>1, <2>2, <2>3, <2>4, <2>5, <2>6, <2>7
  <1>5. ASSUME NEW t \in Tasks, GiveUpSlot(t) PROVE Inv'
    <2> USE <1>5 DEF GiveUpSlot, Step, Goto, Report, Kept, Table!Fail, CtxDone
    <2>1. TypeOK'
      BY DEF TypeOK, Table!TypeOK, Table!Statuses, Table!Live, Table!Terminal, Lines,
         Holding, Ended, Unlaunched, SettingUp
    <2>2. Journey'
      BY DEF TypeOK, Table!TypeOK, Journey, Before, Inside, Over, Table!Live,
         Table!Terminal, Holding, Lines, Ended, Unlaunched, SettingUp, Marked
    <2>3. Marked'
      BY DEF TypeOK, Table!TypeOK, Marked, Table!Live, Table!Terminal, Journey, Before,
         Inside, Over
    <2>4. Interrupts'
      BY DEF TypeOK, Interrupts, TurnInterrupted, Before, SettingUp, Journey
    <2>5. Stopped'
      BY DEF TypeOK, Stopped, Journey
    <2>6. Counted'
      <3>1. Held' = Held /\ slots' = slots
        BY DEF TypeOK, Held, Holding, SettingUp
      <3> QED
        BY <3>1, SameHolders
    <2>7. Capped'
      <3>1. stage' = "exited" => Running' \subseteq Running
        BY DEF TypeOK, Table!TypeOK, Stopped, Running
      <3> QED
        BY <2>1, <2>2, <2>6, <3>1, RunningCapped
    <2>8. Honest'
      BY DEF TypeOK, Table!TypeOK, Honest, WireMatchesTable, Journey, Before, Inside,
         Over, Table!Live, Table!Terminal, Marked
    <2> QED
      BY <2>1, <2>2, <2>3, <2>4, <2>5, <2>6, <2>7, <2>8
  <1>6. ASSUME NEW t \in Tasks, MarkRunning(t) PROVE Inv'
    <2> USE <1>6 DEF MarkRunning, Goto, Report, Kept, WriteFailed, Table!Begin, Table!Fail
    <2>1. TypeOK'
      BY DEF TypeOK, Table!TypeOK, Table!Statuses, Table!Live, Table!Terminal, Lines,
         Holding, Ended, Unlaunched, SettingUp
    <2>2. Journey'
      BY DEF TypeOK, Table!TypeOK, Journey, Before, Inside, Over, Table!Live,
         Table!Terminal, Holding, Lines, Ended, Unlaunched, SettingUp, Marked
    <2>3. Marked'
      BY DEF TypeOK, Table!TypeOK, Marked, Table!Live, Table!Terminal, Journey, Before,
         Inside, Over
    <2>4. Interrupts'
      BY DEF TypeOK, Interrupts, TurnInterrupted, Before, SettingUp, Journey
    <2>5. Stopped'
      BY DEF TypeOK, Stopped, Journey
    <2>6. Counted'
      <3>1. Held' = Held /\ slots' = slots
        BY DEF TypeOK, Held, Holding, SettingUp
      <3> QED
        BY <3>1, SameHolders
    <2>7. Capped'
      <3>1. stage' = "exited" => Running' \subseteq Running
        BY DEF TypeOK, Table!TypeOK, Stopped, Running
      <3> QED
        BY <2>1, <2>2, <2>6, <3>1, RunningCapped
    <2>8. Honest'
      BY DEF TypeOK, Table!TypeOK, Honest, WireMatchesTable, Journey, Before, Inside,
         Over, Table!Live, Table!Terminal, Marked
    <2> QED
      BY <2>1, <2>2, <2>3, <2>4, <2>5, <2>6, <2>7, <2>8
  <1>7. ASSUME NEW t \in Tasks, OpenLog(t) PROVE Inv'
    <2> USE <1>7 DEF OpenLog, Goto, Report, Kept, Table!Fail
    <2>1. TypeOK'
      BY DEF TypeOK, Table!TypeOK, Table!Statuses, Table!Live, Table!Terminal, Lines,
         Holding, Ended, Unlaunched, SettingUp
    <2>2. Journey'
      BY DEF TypeOK, Table!TypeOK, Journey, Before, Inside, Over, Table!Live,
         Table!Terminal, Holding, Lines, Ended, Unlaunched, SettingUp, Marked
    <2>3. Marked'
      BY DEF TypeOK, Table!TypeOK, Marked, Table!Live, Table!Terminal, Journey, Before,
         Inside, Over
    <2>4. Interrupts'
      BY DEF TypeOK, Interrupts, TurnInterrupted, Before, SettingUp, Journey
    <2>5. Stopped'
      BY DEF TypeOK, Stopped, Journey
    <2>6. Counted'
      <3>1. Held' = Held /\ slots' = slots
        BY DEF TypeOK, Held, Holding, SettingUp
      <3> QED
        BY <3>1, SameHolders
    <2>7. Capped'
      <3>1. stage' = "exited" => Running' \subseteq Running
        BY DEF TypeOK, Table!TypeOK, Stopped, Running
      <3> QED
        BY <2>1, <2>2, <2>6, <3>1, RunningCapped
    <2>8. Honest'
      BY DEF TypeOK, Table!TypeOK, Honest, WireMatchesTable, Journey, Before, Inside,
         Over, Table!Live, Table!Terminal, Marked
    <2> QED
      BY <2>1, <2>2, <2>3, <2>4, <2>5, <2>6, <2>7, <2>8
  <1>8. ASSUME NEW t \in Tasks, EnsureAppServer(t) PROVE Inv'
    <2> USE <1>8 DEF EnsureAppServer, Goto, Prepare, Acquire
    <2>1. TypeOK'
      BY DEF TypeOK, Table!TypeOK, Table!Statuses, Table!Live, Table!Terminal, Lines,
         Holding, Ended, Unlaunched, SettingUp
    <2>2. (Marked /\ Capped /\ Honest)'
      BY DEF Marked, Capped, Running, Honest, WireMatchesTable
    <2>3. Journey'
      BY DEF TypeOK, Table!TypeOK, Journey, Before, Inside, Over, Table!Live,
         Table!Terminal, Holding, Lines, Ended, Unlaunched, SettingUp, Marked
    <2>4. Interrupts'
      BY DEF TypeOK, Interrupts, TurnInterrupted, Before, SettingUp, Journey
    <2>5. Stopped'
      BY DEF TypeOK, Stopped, Journey
    <2>6. Counted'
      <3>1. Held' = Held /\ slots' = slots
        BY DEF TypeOK, Held, Holding, SettingUp
      <3> QED
        BY <3>1, SameHolders
    <2> QED
      BY <2>1, <2>2, <2>3, <2>4, <2>5, <2>6
  <1>9. ASSUME NEW t \in Tasks, Greeted(t) PROVE Inv'
    <2> USE <1>9 DEF Greeted, Goto, Prepare, Acquire
    <2>1. TypeOK'
      BY DEF TypeOK, Table!TypeOK, Table!Statuses, Table!Live, Table!Terminal, Lines,
         Holding, Ended, Unlaunched, SettingUp
    <2>2. (Marked /\ Capped /\ Honest)'
      BY DEF Marked, Capped, Running, Honest, WireMatchesTable
    <2>3. Journey'
      BY DEF TypeOK, Table!TypeOK, Journey, Before, Inside, Over, Table!Live,
         Table!Terminal, Holding, Lines, Ended, Unlaunched, SettingUp, Marked
    <2>4. Interrupts'
      BY DEF TypeOK, Interrupts, TurnInterrupted, Before, SettingUp, Journey
    <2>5. Stopped'
      BY DEF TypeOK, Stopped, Journey
    <2>6. Counted'
      <3>1. Held' = Held /\ slots' = slots
        BY DEF TypeOK, Held, Holding, SettingUp
      <3> QED
        BY <3>1, SameHolders
    <2> QED
      BY <2>1, <2>2, <2>3, <2>4, <2>5, <2>6
  <1>10. ASSUME NEW t \in Tasks, GreetingCut(t) PROVE Inv'
    <2> USE <1>10 DEF GreetingCut, Step, Goto
    <2>1. TypeOK'
      BY DEF TypeOK, Table!TypeOK, Table!Statuses, Table!Live, Table!Terminal, Lines,
         Holding, Ended, Unlaunched, SettingUp
    <2>2. (Marked /\ Capped /\ Honest)'
      BY DEF Marked, Capped, Running, Honest, WireMatchesTable
    <2>3. Journey'
      BY DEF TypeOK, Table!TypeOK, Journey, Before, Inside, Over, Table!Live,
         Table!Terminal, Holding, Lines, Ended, Unlaunched, SettingUp, Marked
    <2>4. Interrupts'
      BY DEF TypeOK, Interrupts, TurnInterrupted, Before, SettingUp, Journey
    <2>5. Stopped'
      BY DEF TypeOK, Stopped, Journey
    <2>6. Counted'
      <3>1. Held' = Held /\ slots' = slots
        BY DEF TypeOK, Held, Holding, SettingUp
      <3> QED
        BY <3>1, SameHolders
    <2> QED
      BY <2>1, <2>2, <2>3, <2>4, <2>5, <2>6
  <1>11. ASSUME NEW t \in Tasks, WriteCall(t) PROVE Inv'
    <2> USE <1>11 DEF WriteCall, Step, Goto
    <2>1. TypeOK'
      BY DEF TypeOK, Table!TypeOK, Table!Statuses, Table!Live, Table!Terminal, Lines,
         Holding, Ended, Unlaunched, SettingUp
    <2>2. (Marked /\ Capped /\ Honest)'
      BY DEF Marked, Capped, Running, Honest, WireMatchesTable
    <2>3. Journey'
      BY DEF TypeOK, Table!TypeOK, Journey, Before, Inside, Over, Table!Live,
         Table!Terminal, Holding, Lines, Ended, Unlaunched, SettingUp, Marked
    <2>4. Interrupts'
      BY DEF TypeOK, Interrupts, TurnInterrupted, Before, SettingUp, Journey
    <2>5. Stopped'
      BY DEF TypeOK, Stopped, Journey
    <2>6. Counted'
      <3>1. Held' = Held /\ slots' = slots
        BY DEF TypeOK, Held, Holding, SettingUp
      <3> QED
        BY <3>1, SameHolders
    <2> QED
      BY <2>1, <2>2, <2>3, <2>4, <2>5, <2>6
  <1>12. ASSUME NEW t \in Tasks, CallAnswered(t) PROVE Inv'
    <2> USE <1>12 DEF CallAnswered, Goto, Acquire
    <2>1. TypeOK'
      BY DEF TypeOK, Table!TypeOK, Table!Statuses, Table!Live, Table!Terminal, Lines,
         Holding, Ended, Unlaunched, SettingUp
    <2>2. (Marked /\ Capped /\ Honest)'
      BY DEF Marked, Capped, Running, Honest, WireMatchesTable
    <2>3. Journey'
      BY DEF TypeOK, Table!TypeOK, Journey, Before, Inside, Over, Table!Live,
         Table!Terminal, Holding, Lines, Ended, Unlaunched, SettingUp, Marked
    <2>4. Interrupts'
      BY DEF TypeOK, Interrupts, TurnInterrupted, Before, SettingUp, Journey
    <2>5. Stopped'
      BY DEF TypeOK, Stopped, Journey
    <2>6. Counted'
      <3>1. Held' = Held /\ slots' = slots
        BY DEF TypeOK, Held, Holding, SettingUp
      <3> QED
        BY <3>1, SameHolders
    <2> QED
      BY <2>1, <2>2, <2>3, <2>4, <2>5, <2>6
  <1>13. ASSUME NEW t \in Tasks, CallAbandoned(t) PROVE Inv'
    <2> USE <1>13 DEF CallAbandoned, Goto, Acquire
    <2>1. TypeOK'
      BY DEF TypeOK, Table!TypeOK, Table!Statuses, Table!Live, Table!Terminal, Lines,
         Holding, Ended, Unlaunched, SettingUp
    <2>2. (Marked /\ Capped /\ Honest)'
      BY DEF Marked, Capped, Running, Honest, WireMatchesTable
    <2>3. Journey'
      BY DEF TypeOK, Table!TypeOK, Journey, Before, Inside, Over, Table!Live,
         Table!Terminal, Holding, Lines, Ended, Unlaunched, SettingUp, Marked
    <2>4. Interrupts'
      BY DEF TypeOK, Interrupts, TurnInterrupted, Before, SettingUp, Journey
    <2>5. Stopped'
      BY DEF TypeOK, Stopped, Journey
    <2>6. Counted'
      <3>1. Held' = Held /\ slots' = slots
        BY DEF TypeOK, Held, Holding, SettingUp
      <3> QED
        BY <3>1, SameHolders
    <2> QED
      BY <2>1, <2>2, <2>3, <2>4, <2>5, <2>6
  <1>14. ASSUME NEW t \in Tasks, WriteTurn(t) PROVE Inv'
    <2> USE <1>14 DEF WriteTurn, Step, Goto
    <2>1. TypeOK'
      BY DEF TypeOK, Table!TypeOK, Table!Statuses, Table!Live, Table!Terminal, Lines,
         Holding, Ended, Unlaunched, SettingUp
    <2>2. (Marked /\ Capped /\ Honest)'
      BY DEF Marked, Capped, Running, Honest, WireMatchesTable
    <2>3. Journey'
      BY DEF TypeOK, Table!TypeOK, Journey, Before, Inside, Over, Table!Live,
         Table!Terminal, Holding, Lines, Ended, Unlaunched, SettingUp, Marked
    <2>4. Interrupts'
      BY DEF TypeOK, Interrupts, TurnInterrupted, Before, SettingUp, Journey
    <2>5. Stopped'
      BY DEF TypeOK, Stopped, Journey
    <2>6. Counted'
      <3>1. Held' = Held /\ slots' = slots
        BY DEF TypeOK, Held, Holding, SettingUp
      <3> QED
        BY <3>1, SameHolders
    <2> QED
      BY <2>1, <2>2, <2>3, <2>4, <2>5, <2>6
  <1>15. ASSUME NEW t \in Tasks, StartReply(t) PROVE Inv'
    <2> USE <1>15 DEF StartReply, Step, Goto
    <2>1. TypeOK'
      BY DEF TypeOK, Table!TypeOK, Table!Statuses, Table!Live, Table!Terminal, Lines,
         Holding, Ended, Unlaunched, SettingUp
    <2>2. (Marked /\ Capped /\ Honest)'
      BY DEF Marked, Capped, Running, Honest, WireMatchesTable
    <2>3. Journey'
      BY DEF TypeOK, Table!TypeOK, Journey, Before, Inside, Over, Table!Live,
         Table!Terminal, Holding, Lines, Ended, Unlaunched, SettingUp, Marked
    <2>4. Interrupts'
      BY DEF TypeOK, Interrupts, TurnInterrupted, Before, SettingUp, Journey
    <2>5. Stopped'
      BY DEF TypeOK, Stopped, Journey
    <2>6. Counted'
      <3>1. Held' = Held /\ slots' = slots
        BY DEF TypeOK, Held, Holding, SettingUp
      <3> QED
        BY <3>1, SameHolders
    <2> QED
      BY <2>1, <2>2, <2>3, <2>4, <2>5, <2>6
  <1>16. ASSUME NEW t \in Tasks, StartError(t) PROVE Inv'
    <2> USE <1>16 DEF StartError, Step, Goto
    <2>1. TypeOK'
      BY DEF TypeOK, Table!TypeOK, Table!Statuses, Table!Live, Table!Terminal, Lines,
         Holding, Ended, Unlaunched, SettingUp
    <2>2. (Marked /\ Capped /\ Honest)'
      BY DEF Marked, Capped, Running, Honest, WireMatchesTable
    <2>3. Journey'
      BY DEF TypeOK, Table!TypeOK, Journey, Before, Inside, Over, Table!Live,
         Table!Terminal, Holding, Lines, Ended, Unlaunched, SettingUp, Marked
    <2>4. Interrupts'
      BY DEF TypeOK, Interrupts, TurnInterrupted, Before, SettingUp, Journey
    <2>5. Stopped'
      BY DEF TypeOK, Stopped, Journey
    <2>6. Counted'
      <3>1. Held' = Held /\ slots' = slots
        BY DEF TypeOK, Held, Holding, SettingUp
      <3> QED
        BY <3>1, SameHolders
    <2> QED
      BY <2>1, <2>2, <2>3, <2>4, <2>5, <2>6
  <1>17. ASSUME NEW t \in Tasks, StartAbandoned(t) PROVE Inv'
    <2> USE <1>17 DEF StartAbandoned, Step, Goto
    <2>1. TypeOK'
      BY DEF TypeOK, Table!TypeOK, Table!Statuses, Table!Live, Table!Terminal, Lines,
         Holding, Ended, Unlaunched, SettingUp
    <2>2. (Marked /\ Capped /\ Honest)'
      BY DEF Marked, Capped, Running, Honest, WireMatchesTable
    <2>3. Journey'
      BY DEF TypeOK, Table!TypeOK, Journey, Before, Inside, Over, Table!Live,
         Table!Terminal, Holding, Lines, Ended, Unlaunched, SettingUp, Marked
    <2>4. Interrupts'
      BY DEF TypeOK, Interrupts, TurnInterrupted, Before, SettingUp, Journey
    <2>5. Stopped'
      BY DEF TypeOK, Stopped, Journey
    <2>6. Counted'
      <3>1. Held' = Held /\ slots' = slots
        BY DEF TypeOK, Held, Holding, SettingUp
      <3> QED
        BY <3>1, SameHolders
    <2> QED
      BY <2>1, <2>2, <2>3, <2>4, <2>5, <2>6
  <1>18. ASSUME NEW t \in Tasks, RegisterHandle(t) PROVE Inv'
    <2> USE <1>18 DEF RegisterHandle, Step, Goto
    <2>1. TypeOK'
      BY DEF TypeOK, Table!TypeOK, Table!Statuses, Table!Live, Table!Terminal, Lines,
         Holding, Ended, Unlaunched, SettingUp
    <2>2. (Marked /\ Capped /\ Honest)'
      BY DEF Marked, Capped, Running, Honest, WireMatchesTable
    <2>3. Journey'
      BY DEF TypeOK, Table!TypeOK, Journey, Before, Inside, Over, Table!Live,
         Table!Terminal, Holding, Lines, Ended, Unlaunched, SettingUp, Marked
    <2>4. Interrupts'
      BY DEF TypeOK, Interrupts, TurnInterrupted, Before, SettingUp, Journey
    <2>5. Stopped'
      BY DEF TypeOK, Stopped, Journey
    <2>6. Counted'
      <3>1. Held' = Held /\ slots' = slots
        BY DEF TypeOK, Held, Holding, SettingUp
      <3> QED
        BY <3>1, SameHolders
    <2> QED
      BY <2>1, <2>2, <2>3, <2>4, <2>5, <2>6
  <1>19. ASSUME NEW t \in Tasks, DrainEvents(t) PROVE Inv'
    <2> USE <1>19 DEF DrainEvents, Goto
    <2>1. TypeOK'
      BY DEF TypeOK, Table!TypeOK, Table!Statuses, Table!Live, Table!Terminal, Lines,
         Holding, Ended, Unlaunched, SettingUp
    <2>2. (Marked /\ Capped /\ Honest)'
      BY DEF Marked, Capped, Running, Honest, WireMatchesTable
    <2>3. Journey'
      BY DEF TypeOK, Table!TypeOK, Journey, Before, Inside, Over, Table!Live,
         Table!Terminal, Holding, Lines, Ended, Unlaunched, SettingUp, Marked
    <2>4. Interrupts'
      BY DEF TypeOK, Interrupts, TurnInterrupted, Before, SettingUp, Journey
    <2>5. Stopped'
      BY DEF TypeOK, Stopped, Journey
    <2>6. Counted'
      <3>1. Held' = Held /\ slots' = slots
        BY DEF TypeOK, Held, Holding, SettingUp
      <3> QED
        BY <3>1, SameHolders
    <2> QED
      BY <2>1, <2>2, <2>3, <2>4, <2>5, <2>6
  <1>20. ASSUME NEW t \in Tasks, DrainCtx(t) PROVE Inv'
    <2> USE <1>20 DEF DrainCtx, Step, Goto, Spawned
    <2>1. TypeOK'
      BY DEF TypeOK, Table!TypeOK, Table!Statuses, Table!Live, Table!Terminal, Lines,
         Holding, Ended, Unlaunched, SettingUp
    <2>2. (Marked /\ Capped /\ Honest)'
      BY DEF Marked, Capped, Running, Honest, WireMatchesTable
    <2>3. Journey'
      BY DEF TypeOK, Table!TypeOK, Journey, Before, Inside, Over, Table!Live,
         Table!Terminal, Holding, Lines, Ended, Unlaunched, SettingUp, Marked
    <2>4. Interrupts'
      BY DEF TypeOK, Interrupts, TurnInterrupted, Before, SettingUp, Journey
    <2>5. Stopped'
      BY DEF TypeOK, Stopped, Journey
    <2>6. Counted'
      <3>1. Held' = Held /\ slots' = slots
        BY DEF TypeOK, Held, Holding, SettingUp
      <3> QED
        BY <3>1, SameHolders
    <2> QED
      BY <2>1, <2>2, <2>3, <2>4, <2>5, <2>6
  <1>21. ASSUME NEW t \in Tasks, RecordDone(t) PROVE Inv'
    <2> USE <1>21 DEF RecordDone, Step, Goto, Report, Kept, WriteFailed, Table!Complete, Table!Fail
    <2>1. TypeOK'
      BY DEF TypeOK, Table!TypeOK, Table!Statuses, Table!Live, Table!Terminal, Lines,
         Holding, Ended, Unlaunched, SettingUp
    <2>2. Journey'
      BY DEF TypeOK, Table!TypeOK, Journey, Before, Inside, Over, Table!Live,
         Table!Terminal, Holding, Lines, Ended, Unlaunched, SettingUp, Marked
    <2>3. Marked'
      BY DEF TypeOK, Table!TypeOK, Marked, Table!Live, Table!Terminal, Journey, Before,
         Inside, Over
    <2>4. Interrupts'
      BY DEF TypeOK, Interrupts, TurnInterrupted, Before, SettingUp, Journey
    <2>5. Stopped'
      BY DEF TypeOK, Stopped, Journey
    <2>6. Counted'
      <3>1. Held' = Held /\ slots' = slots
        BY DEF TypeOK, Held, Holding, SettingUp
      <3> QED
        BY <3>1, SameHolders
    <2>7. Capped'
      <3>1. stage' = "exited" => Running' \subseteq Running
        BY DEF TypeOK, Table!TypeOK, Stopped, Running
      <3> QED
        BY <2>1, <2>2, <2>6, <3>1, RunningCapped
    <2>8. Honest'
      BY DEF TypeOK, Table!TypeOK, Honest, WireMatchesTable, Journey, Before, Inside,
         Over, Table!Live, Table!Terminal, Marked
    <2> QED
      BY <2>1, <2>2, <2>3, <2>4, <2>5, <2>6, <2>7, <2>8
  <1>22. ASSUME NEW t \in Tasks, RecordCancelled(t) PROVE Inv'
    <2> USE <1>22 DEF RecordCancelled, Step, Goto, Report, Kept, Table!Withdraw
    <2>1. TypeOK'
      BY DEF TypeOK, Table!TypeOK, Table!Statuses, Table!Live, Table!Terminal, Lines,
         Holding, Ended, Unlaunched, SettingUp
    <2>2. Journey'
      BY DEF TypeOK, Table!TypeOK, Journey, Before, Inside, Over, Table!Live,
         Table!Terminal, Holding, Lines, Ended, Unlaunched, SettingUp, Marked
    <2>3. Marked'
      BY DEF TypeOK, Table!TypeOK, Marked, Table!Live, Table!Terminal, Journey, Before,
         Inside, Over
    <2>4. Interrupts'
      BY DEF TypeOK, Interrupts, TurnInterrupted, Before, SettingUp, Journey
    <2>5. Stopped'
      BY DEF TypeOK, Stopped, Journey
    <2>6. Counted'
      <3>1. Held' = Held /\ slots' = slots
        BY DEF TypeOK, Held, Holding, SettingUp
      <3> QED
        BY <3>1, SameHolders
    <2>7. Capped'
      <3>1. stage' = "exited" => Running' \subseteq Running
        BY DEF TypeOK, Table!TypeOK, Stopped, Running
      <3> QED
        BY <2>1, <2>2, <2>6, <3>1, RunningCapped
    <2>8. Honest'
      BY DEF TypeOK, Table!TypeOK, Honest, WireMatchesTable, Journey, Before, Inside,
         Over, Table!Live, Table!Terminal, Marked
    <2> QED
      BY <2>1, <2>2, <2>3, <2>4, <2>5, <2>6, <2>7, <2>8
  <1>23. ASSUME NEW t \in Tasks, RecordTimedOut(t) PROVE Inv'
    <2> USE <1>23 DEF RecordTimedOut, Step, Goto, Report, Kept, Table!Fail
    <2>1. TypeOK'
      BY DEF TypeOK, Table!TypeOK, Table!Statuses, Table!Live, Table!Terminal, Lines,
         Holding, Ended, Unlaunched, SettingUp
    <2>2. Journey'
      BY DEF TypeOK, Table!TypeOK, Journey, Before, Inside, Over, Table!Live,
         Table!Terminal, Holding, Lines, Ended, Unlaunched, SettingUp, Marked
    <2>3. Marked'
      BY DEF TypeOK, Table!TypeOK, Marked, Table!Live, Table!Terminal, Journey, Before,
         Inside, Over
    <2>4. Interrupts'
      BY DEF TypeOK, Interrupts, TurnInterrupted, Before, SettingUp, Journey
    <2>5. Stopped'
      BY DEF TypeOK, Stopped, Journey
    <2>6. Counted'
      <3>1. Held' = Held /\ slots' = slots
        BY DEF TypeOK, Held, Holding, SettingUp
      <3> QED
        BY <3>1, SameHolders
    <2>7. Capped'
      <3>1. stage' = "exited" => Running' \subseteq Running
        BY DEF TypeOK, Table!TypeOK, Stopped, Running
      <3> QED
        BY <2>1, <2>2, <2>6, <3>1, RunningCapped
    <2>8. Honest'
      BY DEF TypeOK, Table!TypeOK, Honest, WireMatchesTable, Journey, Before, Inside,
         Over, Table!Live, Table!Terminal, Marked
    <2> QED
      BY <2>1, <2>2, <2>3, <2>4, <2>5, <2>6, <2>7, <2>8
  <1>24. ASSUME NEW t \in Tasks, DispatchFailure(t) PROVE Inv'
    <2> USE <1>24 DEF DispatchFailure, Step, Goto, Report, Kept, Table!Withdraw, Table!Fail
    <2>1. TypeOK'
      BY DEF TypeOK, Table!TypeOK, Table!Statuses, Table!Live, Table!Terminal, Lines,
         Holding, Ended, Unlaunched, SettingUp
    <2>2. Journey'
      BY DEF TypeOK, Table!TypeOK, Journey, Before, Inside, Over, Table!Live,
         Table!Terminal, Holding, Lines, Ended, Unlaunched, SettingUp, Marked
    <2>3. Marked'
      BY DEF TypeOK, Table!TypeOK, Marked, Table!Live, Table!Terminal, Journey, Before,
         Inside, Over
    <2>4. Interrupts'
      BY DEF TypeOK, Interrupts, TurnInterrupted, Before, SettingUp, Journey
    <2>5. Stopped'
      BY DEF TypeOK, Stopped, Journey
    <2>6. Counted'
      <3>1. Held' = Held /\ slots' = slots
        BY DEF TypeOK, Held, Holding, SettingUp
      <3> QED
        BY <3>1, SameHolders
    <2>7. Capped'
      <3>1. stage' = "exited" => Running' \subseteq Running
        BY DEF TypeOK, Table!TypeOK, Stopped, Running
      <3> QED
        BY <2>1, <2>2, <2>6, <3>1, RunningCapped
    <2>8. Honest'
      BY DEF TypeOK, Table!TypeOK, Honest, WireMatchesTable, Journey, Before, Inside,
         Over, Table!Live, Table!Terminal, Marked
    <2> QED
      BY <2>1, <2>2, <2>3, <2>4, <2>5, <2>6, <2>7, <2>8
  <1>25. ASSUME NEW t \in Tasks, ReleaseRunSlot(t) PROVE Inv'
    <2> USE <1>25 DEF ReleaseRunSlot, Step, Goto
    <2>1. TypeOK'
      BY DEF TypeOK, Table!TypeOK, Table!Statuses, Table!Live, Table!Terminal, Lines,
         Holding, Ended, Unlaunched, SettingUp
    <2>2. (Marked /\ Capped /\ Honest)'
      BY DEF Marked, Capped, Running, Honest, WireMatchesTable
    <2>3. Journey'
      BY DEF TypeOK, Table!TypeOK, Journey, Before, Inside, Over, Table!Live,
         Table!Terminal, Holding, Lines, Ended, Unlaunched, SettingUp, Marked
    <2>4. Interrupts'
      BY DEF TypeOK, Interrupts, TurnInterrupted, Before, SettingUp, Journey
    <2>5. Stopped'
      BY DEF TypeOK, Stopped, Journey
    <2>6. Counted'
      <3>1. t \in Held /\ Held' = Held \ {t}
        BY DEF TypeOK, Held, Holding, SettingUp
      <3> QED
        BY <3>1, OneLess
    <2> QED
      BY <2>1, <2>2, <2>3, <2>4, <2>5, <2>6
  <1>26. ASSUME NEW t \in Tasks, CleanUp(t) PROVE Inv'
    <2> USE <1>26 DEF CleanUp, Step, Goto
    <2>1. TypeOK'
      BY DEF TypeOK, Table!TypeOK, Table!Statuses, Table!Live, Table!Terminal, Lines,
         Holding, Ended, Unlaunched, SettingUp
    <2>2. (Marked /\ Capped /\ Honest)'
      BY DEF Marked, Capped, Running, Honest, WireMatchesTable
    <2>3. Journey'
      BY DEF TypeOK, Table!TypeOK, Journey, Before, Inside, Over, Table!Live,
         Table!Terminal, Holding, Lines, Ended, Unlaunched, SettingUp, Marked
    <2>4. Interrupts'
      BY DEF TypeOK, Interrupts, TurnInterrupted, Before, SettingUp, Journey
    <2>5. Stopped'
      BY DEF TypeOK, Stopped, Journey
    <2>6. Counted'
      <3>1. Held' = Held /\ slots' = slots
        BY DEF TypeOK, Held, Holding, SettingUp
      <3> QED
        BY <3>1, SameHolders
    <2> QED
      BY <2>1, <2>2, <2>3, <2>4, <2>5, <2>6
  <1>27. ASSUME NEW t \in Tasks, AcquireRunSlot(t) PROVE Inv'
    <2> USE <1>27 DEF AcquireRunSlot, Step, Goto
    <2>1. TypeOK'
      BY DEF TypeOK, Table!TypeOK, Table!Statuses, Table!Live, Table!Terminal, Lines,
         Holding, Ended, Unlaunched, SettingUp
    <2>2. (Marked /\ Capped /\ Honest)'
      BY DEF Marked, Capped, Running, Honest, WireMatchesTable
    <2>3. Journey'
      BY DEF TypeOK, Table!TypeOK, Journey, Before, Inside, Over, Table!Live,
         Table!Terminal, Holding, Lines, Ended, Unlaunched, SettingUp, Marked
    <2>4. Interrupts'
      BY DEF TypeOK, Interrupts, TurnInterrupted, Before, SettingUp, Journey
    <2>5. Stopped'
      BY DEF TypeOK, Stopped, Journey
    <2>6. Counted'
      <3>1. t \notin Held /\ Held' = Held \cup {t}
        BY DEF TypeOK, Held, Holding, SettingUp
      <3> QED
        BY <3>1, OneMore
    <2> QED
      BY <2>1, <2>2, <2>3, <2>4, <2>5, <2>6
  <1>28. ASSUME NEW t \in Tasks, DrainDeadline(t) PROVE Inv'
    <2> USE <1>28 DEF DrainDeadline, Step, Goto, Spawned
    <2>1. TypeOK'
      BY DEF TypeOK, Table!TypeOK, Table!Statuses, Table!Live, Table!Terminal, Lines,
         Holding, Ended, Unlaunched, SettingUp
    <2>2. (Marked /\ Capped /\ Honest)'
      BY DEF Marked, Capped, Running, Honest, WireMatchesTable
    <2>3. Journey'
      BY DEF TypeOK, Table!TypeOK, Journey, Before, Inside, Over, Table!Live,
         Table!Terminal, Holding, Lines, Ended, Unlaunched, SettingUp, Marked
    <2>4. Interrupts'
      BY DEF TypeOK, Interrupts, TurnInterrupted, Before, SettingUp, Journey
    <2>5. Stopped'
      BY DEF TypeOK, Stopped, Journey
    <2>6. Counted'
      <3>1. Held' = Held /\ slots' = slots
        BY DEF TypeOK, Held, Holding, SettingUp
      <3> QED
        BY <3>1, SameHolders
    <2> QED
      BY <2>1, <2>2, <2>3, <2>4, <2>5, <2>6
  <1>29. ASSUME NEW t \in Tasks, CancelTable(t) PROVE Inv'
    <2> USE <1>29 DEF CancelTable, Table!Withdraw
    <2>1. TypeOK'
      BY DEF TypeOK, Table!TypeOK, Table!Statuses, Table!Live, Table!Terminal, Lines,
         Holding, Ended, Unlaunched, SettingUp
    <2>2. (Interrupts /\ Stopped /\ Counted)'
      BY DEF Interrupts, TurnInterrupted, Stopped, Counted, Held
    <2>3. Journey'
      BY DEF TypeOK, Table!TypeOK, Journey, Before, Inside, Over, Table!Live,
         Table!Terminal, Holding, Lines, Ended, Unlaunched, SettingUp, Marked
    <2>4. Marked'
      BY DEF TypeOK, Table!TypeOK, Marked, Table!Live, Table!Terminal, Journey, Before,
         Inside, Over
    <2>5. Capped'
      <3>1. stage' = "exited" => Running' \subseteq Running
        BY DEF TypeOK, Table!TypeOK, Stopped, Running
      <3> QED
        BY <2>1, <2>2, <2>3, <3>1, RunningCapped
    <2>6. Honest'
      BY DEF TypeOK, Table!TypeOK, Honest, WireMatchesTable, Journey, Before, Inside,
         Over, Table!Live, Table!Terminal, Marked
    <2> QED
      BY <2>1, <2>2, <2>3, <2>4, <2>5, <2>6
  <1>30. ASSUME NEW t \in Tasks, CancelSnapshot(t) PROVE Inv'
    <2> USE <1>30 DEF CancelSnapshot
    <2>1. TypeOK'
      BY DEF TypeOK, Table!TypeOK, Table!Statuses, Table!Live, Table!Terminal, Lines,
         Holding, Ended, Unlaunched, SettingUp
    <2>2. (Journey /\ Interrupts /\ Stopped /\ Counted /\ Capped /\ Honest)'
      BY DEF Journey, Interrupts, TurnInterrupted, Stopped, Counted, Held, Capped,
         Running, Honest, WireMatchesTable
    <2>3. Marked'
      BY DEF TypeOK, Table!TypeOK, Marked, Table!Live, Table!Terminal, Journey, Before,
         Inside, Over
    <2> QED
      BY <2>1, <2>2, <2>3
  <1>31. ASSUME NEW t \in Tasks, CancelContext(t) PROVE Inv'
    <2> USE <1>31 DEF CancelContext, Spawned
    <2>1. TypeOK'
      BY DEF TypeOK, Table!TypeOK, Table!Statuses, Table!Live, Table!Terminal, Lines,
         Holding, Ended, Unlaunched, SettingUp
    <2>2. (Journey /\ Stopped /\ Counted /\ Capped /\ Honest)'
      BY DEF Journey, Stopped, Counted, Held, Capped, Running, Honest, WireMatchesTable
    <2>3. Marked'
      BY DEF TypeOK, Table!TypeOK, Marked, Table!Live, Table!Terminal, Journey, Before,
         Inside, Over
    <2>4. Interrupts'
      BY DEF TypeOK, Interrupts, TurnInterrupted, Before, SettingUp, Journey
    <2> QED
      BY <2>1, <2>2, <2>3, <2>4
  <1>32. ASSUME NEW t \in Tasks, HandleCancel(t) PROVE Inv'
    <2> USE <1>32 DEF HandleCancel
    <2>1. TypeOK'
      BY DEF TypeOK, Table!TypeOK, Table!Statuses, Table!Live, Table!Terminal, Lines,
         Holding, Ended, Unlaunched, SettingUp
    <2>2. (Journey /\ Marked /\ Stopped /\ Counted /\ Capped /\ Honest)'
      BY DEF Journey, Marked, Stopped, Counted, Held, Capped, Running, Honest,
         WireMatchesTable
    <2>3. Interrupts'
      BY DEF TypeOK, Interrupts, TurnInterrupted, Before, SettingUp, Journey
    <2> QED
      BY <2>1, <2>2, <2>3
  <1>33. ASSUME NEW t \in Tasks, HangUp(t) PROVE Inv'
    <2> USE <1>33 DEF HangUp, Started
    <2>1. TypeOK'
      BY DEF TypeOK, Table!TypeOK, Table!Statuses, Table!Live, Table!Terminal, Lines,
         Holding, Ended, Unlaunched, SettingUp
    <2>2. (Journey /\ Marked /\ Interrupts /\ Stopped /\ Counted /\ Capped /\ Honest)'
      BY DEF Journey, Marked, Interrupts, TurnInterrupted, Stopped, Counted, Held,
         Capped, Running, Honest, WireMatchesTable
    <2> QED
      BY <2>1, <2>2
  <1>34. ASSUME NEW t \in Tasks, CodexBegins(t) PROVE Inv'
    <2> USE <1>34 DEF CodexBegins
    <2>1. TypeOK'
      BY DEF TypeOK, Table!TypeOK, Table!Statuses, Table!Live, Table!Terminal, Lines,
         Holding, Ended, Unlaunched, SettingUp
    <2>2. (Journey /\ Marked /\ Stopped /\ Counted /\ Capped /\ Honest)'
      BY DEF Journey, Marked, Stopped, Counted, Held, Capped, Running, Honest,
         WireMatchesTable
    <2>3. Interrupts'
      BY DEF TypeOK, Interrupts, TurnInterrupted, Before, SettingUp, Journey
    <2> QED
      BY <2>1, <2>2, <2>3
  <1>35. ASSUME NEW t \in Tasks, CodexCompletes(t) PROVE Inv'
    <2> USE <1>35 DEF CodexCompletes
    <2>1. TypeOK'
      BY DEF TypeOK, Table!TypeOK, Table!Statuses, Table!Live, Table!Terminal, Lines,
         Holding, Ended, Unlaunched, SettingUp
    <2>2. (Journey /\ Marked /\ Stopped /\ Counted /\ Capped /\ Honest)'
      BY DEF Journey, Marked, Stopped, Counted, Held, Capped, Running, Honest,
         WireMatchesTable
    <2>3. Interrupts'
      BY DEF TypeOK, Interrupts, TurnInterrupted, Before, SettingUp, Journey
    <2> QED
      BY <2>1, <2>2, <2>3
  <1>36. ASSUME NEW t \in Tasks, CodexInterrupted(t) PROVE Inv'
    <2> USE <1>36 DEF CodexInterrupted
    <2>1. TypeOK'
      BY DEF TypeOK, Table!TypeOK, Table!Statuses, Table!Live, Table!Terminal, Lines,
         Holding, Ended, Unlaunched, SettingUp
    <2>2. (Journey /\ Marked /\ Stopped /\ Counted /\ Capped /\ Honest)'
      BY DEF Journey, Marked, Stopped, Counted, Held, Capped, Running, Honest,
         WireMatchesTable
    <2>3. Interrupts'
      BY DEF TypeOK, Interrupts, TurnInterrupted, Before, SettingUp, Journey
    <2> QED
      BY <2>1, <2>2, <2>3
  <1>37. CASE Shutdown
    <2> USE <1>37 DEF Shutdown
    <2>1. TypeOK'
      BY DEF TypeOK, Table!TypeOK, Table!Statuses, Table!Live, Table!Terminal, Lines,
         Holding, Ended, Unlaunched, SettingUp
    <2>2. (Marked /\ Interrupts /\ Counted /\ Capped /\ Honest)'
      BY DEF Marked, Interrupts, TurnInterrupted, Counted, Held, Capped, Running, Honest,
         WireMatchesTable
    <2>3. Journey'
      BY DEF TypeOK, Table!TypeOK, Journey, Before, Inside, Over, Table!Live,
         Table!Terminal, Holding, Lines, Ended, Unlaunched, SettingUp, Marked
    <2>4. Stopped'
      BY DEF TypeOK, Stopped, Journey
    <2> QED
      BY <2>1, <2>2, <2>3, <2>4
  <1>38. CASE DetachedWait
    <2> USE <1>38 DEF DetachedWait, Missed, Started, Ended, Unlaunched
    <2>1. TypeOK'
      BY DEF TypeOK, Table!TypeOK, Table!Statuses, Table!Live, Table!Terminal, Lines,
         Holding, Ended, Unlaunched, SettingUp
    <2>2. (Marked /\ Interrupts /\ Counted /\ Capped /\ Honest)'
      BY DEF Marked, Interrupts, TurnInterrupted, Counted, Held, Capped, Running, Honest,
         WireMatchesTable
    <2>3. Journey'
      BY DEF TypeOK, Table!TypeOK, Journey, Before, Inside, Over, Table!Live,
         Table!Terminal, Holding, Lines, Ended, Unlaunched, SettingUp, Marked
    <2>4. Stopped'
      BY DEF TypeOK, Stopped, Journey
    <2> QED
      BY <2>1, <2>2, <2>3, <2>4
  <1>39. CASE Exit
    <2> USE <1>39 DEF Exit, Started, Ended
    <2>1. TypeOK'
      BY DEF TypeOK, Table!TypeOK, Table!Statuses, Table!Live, Table!Terminal, Lines,
         Holding, Ended, Unlaunched, SettingUp
    <2>2. (Capped /\ Honest)'
      BY DEF Capped, Running, Honest, WireMatchesTable
    <2>3. Journey'
      BY DEF TypeOK, Table!TypeOK, Journey, Before, Inside, Over, Table!Live,
         Table!Terminal, Holding, Lines, Ended, Unlaunched, SettingUp, Marked
    <2>4. Marked'
      BY DEF TypeOK, Table!TypeOK, Marked, Table!Live, Table!Terminal, Journey, Before,
         Inside, Over
    <2>5. Interrupts'
      BY DEF TypeOK, Interrupts, TurnInterrupted, Before, SettingUp, Journey
    <2>6. Stopped'
      BY DEF TypeOK, Stopped, Journey
    <2>7. Counted'
      <3>1. Held' = {}
        BY DEF TypeOK, Held, Holding, SettingUp, Lines
      <3> QED
        BY <3>1, FS_EmptySet DEF Counted
    <2> QED
      BY <2>1, <2>2, <2>3, <2>4, <2>5, <2>6, <2>7
  <1>40. CASE UNCHANGED vars
    BY <1>40 DEF vars, TypeOK, Table!TypeOK, Journey, Marked, Interrupts,
       TurnInterrupted, Stopped, Counted, Held, Capped, Running, Honest, WireMatchesTable
  <1> QED
    BY <1>1, <1>2, <1>3, <1>4, <1>5, <1>6, <1>7, <1>8, <1>9, <1>10, <1>11, <1>12, <1>13,
       <1>14, <1>15, <1>16, <1>17, <1>18, <1>19, <1>20, <1>21, <1>22, <1>23, <1>24,
       <1>25, <1>26, <1>27, <1>28, <1>29, <1>30, <1>31, <1>32, <1>33, <1>34, <1>35,
       <1>36, <1>37, <1>38, <1>39, <1>40 DEF Next, Run, Proceed, AfterEmit, WriteFrame,
       Canceller

(* The invariant of the broker: the line of each run against the table,     *)
(* the cancels, the turns, the slots and the stages of the shutdown.       *)
THEOREM DispatchInvariant == Spec => []Inv
  <1> QED
    BY Initially, Inductive, PTL DEF Spec

(* Slots are taken and given back one for one, at most Cap tasks run, and  *)
(* a run that returned has ended its task (handlers_broker.go:53-77).      *)
THEOREM RunsAreAccounted == Spec => []RunsAccounted
  <1>1. ASSUME Inv PROVE RunsAccounted
    <2>1. SlotsConserved
      BY <1>1 DEF Inv, Counted, Held, SlotsConserved
    <2>2. RunningHoldsSlot
      BY <1>1 DEF Inv, Capped, Running, RunningHoldsSlot, Journey, Before, Inside, Over,
                  Holding, SettingUp, TypeOK, Lines, Ended, Unlaunched, Table!Terminal
    <2>3. ReturnedMeansEnded
      BY <1>1 DEF Inv, Journey, Over, ReturnedMeansEnded
    <2> QED
      BY <1>1, <2>1, <2>2, <2>3 DEF Inv, RunsAccounted
  <1> QED
    BY <1>1, DispatchInvariant, PTL

(* Without a deadline a run reports what the table says; with one it need  *)
(* not (handlers_dispatch.go:295 against 316-327).                         *)
THEOREM WireIsHonest == ASSUME ~Deadline PROVE Spec => []WireMatchesTable
  <1>1. Inv => WireMatchesTable
    BY DEF Inv, Honest
  <1> QED
    BY <1>1, DispatchInvariant, PTL

(* A drain never leaves a turn behind that nobody interrupts.              *)
THEOREM NoDrainOrphans == Spec => []NoOrphanAfterDrain
  <1>1. Inv => NoOrphanAfterDrain
    BY DEF Inv, Interrupts, NoOrphanAfterDrain
  <1> QED
    BY <1>1, DispatchInvariant, PTL

(* The wait ends, and the exit finds, every detached run launched before   *)
(* the wait returned with its task ended (broker.go:55-60, tasks.go:164).  *)
THEOREM DetachedAreDrained == Spec => []DetachedDrained
  <1>1. Inv => DetachedDrained
    BY DispatchAssumption DEF Inv, Stopped, Journey, Over, DetachedDrained
  <1> QED
    BY <1>1, DispatchInvariant, PTL

(* Nothing overtakes a cancellation once the table has it.                 *)
THEOREM CancellationWins == Spec => CancelWins
  <1>1. ASSUME Inv, [Next]_vars, NEW t \in Tasks, canceller[t] # "none"
        PROVE  status'[t] = "cancelled"
    <2>1. status[t] = "cancelled"
      BY <1>1 DEF Inv, Marked
    <2>2. CASE Next
      BY <1>1, <2>1, <2>2, EndsStay DEF Table!Terminal
    <2>3. CASE UNCHANGED vars
      BY <2>1, <2>3 DEF vars
    <2> QED
      BY <1>1, <2>2, <2>3
  <1>2. Inv /\ [Next]_vars => [\A t \in Tasks : canceller[t] # "none" => status'[t] = "cancelled"]_vars
    BY <1>1
  <1> QED
    BY <1>2, DispatchInvariant, PTL DEF Spec, CancelWins

=============================================================================
