--------------------------- MODULE BrokerLifecycle ---------------------------
(***************************************************************************)
(* How brokers come and go: the PID file that admits one broker per        *)
(* repository, the address file its clients find it by, the idle timer and *)
(* the order of a shutdown (src/internal/broker/lifecycle.go, server.go;   *)
(* src/cmd/codex-dispatch/broker.go; src/internal/codex/codex.go).         *)
(* Every file operation is a step of its own: nothing locks the two files. *)
(***************************************************************************)
EXTENDS Integers, FiniteSets

CONSTANTS
  Brokers,    \* broker processes that may be started
  Clients,    \* codex-dispatch commands
  None,       \* no broker
  Dead,       \* a broker that crashed before the first state
  Legacy,     \* a broker of an old version: its address has no credential
  MaxFaults   \* bound: crashes, failed writes and failed starts

ASSUME LifecycleAssumption ==
  /\ {None, Dead, Legacy} \cap Brokers = {}
  /\ None \notin {Dead, Legacy} /\ Dead # Legacy
  /\ MaxFaults \in Nat

VARIABLES
  pidFile,    \* broker.pid: the process that created it, has it written its PID?
  addrFile,   \* broker.addr: the broker it names
  main,       \* where runBroker is, per broker
  cancelled,  \* is the serve context cancelled?
  torn,       \* has the body of shutdownOnce returned?
  armed,      \* is the idle timer running?
  callback,   \* the idle timer's callback: "none", "fired", "decided"
  live,       \* HasNonTerminal: the clients with a task that has not ended
  at,         \* where EnsureBrokerRunning and dispatchViaBroker are, per client
  seen,       \* the address that client has read
  faults,
  crashed,    \* history: brokers that ended without cleaning up
  contended,  \* history: brokers that acquired the PID file with another at it
  late        \* history: tasks admitted after the callback found none

files     == <<pidFile, addrFile>>
process   == <<main, cancelled, torn>>
timer     == <<armed, callback>>
clients   == <<at, seen>>
histories == <<crashed, contended, late>>
vars == <<files, process, timer, live, clients, faults, histories>>

Acquiring == {"open", "write", "inspect", "remove"}
Holding   == {"held", "serving", "closed", "unlist", "teardown", "release", "unpid"}
Phases    == {"unborn", "gone"} \cup Acquiring \cup Holding
Steps     == {"start", "ping", "remove", "spawn", "poll", "pollping", "reread",
              "call", "connected", "running", "answering", "done", "failed"}

NoPID == [by |-> None, written |-> FALSE]

(* What an earlier crash or an old version may have left behind. *)
Init ==
  /\ pidFile \in {NoPID, [by |-> Dead, written |-> TRUE]}
  /\ addrFile \in {None, Dead, Legacy}
  /\ main = [b \in Brokers |-> "unborn"]
  /\ cancelled = [b \in Brokers |-> FALSE]
  /\ torn = [b \in Brokers |-> FALSE]
  /\ armed = [b \in Brokers |-> FALSE]
  /\ callback = [b \in Brokers |-> "none"]
  /\ live = [b \in Brokers |-> {}]
  /\ at = [c \in Clients |-> "start"]
  /\ seen = [c \in Clients |-> None]
  /\ faults = 0
  /\ crashed = {Dead}
  /\ contended = {}
  /\ late = [b \in Brokers |-> {}]

Go(b, phase) == main' = [main EXCEPT ![b] = phase]
Step(c, phase) == at' = [at EXCEPT ![c] = phase]
Leave(c, phase) == Step(c, phase) /\ seen' = [seen EXCEPT ![c] = None]
Fault == faults < MaxFaults /\ faults' = faults + 1

(* The process ends: its timer, its tasks and their connections with it.   *)
Vanish(b) ==
  /\ Go(b, "gone")
  /\ cancelled' = [cancelled EXCEPT ![b] = FALSE]
  /\ torn' = [torn EXCEPT ![b] = FALSE]
  /\ armed' = [armed EXCEPT ![b] = FALSE]
  /\ callback' = [callback EXCEPT ![b] = "none"]
  /\ live' = [live EXCEPT ![b] = {}]
  /\ late' = [late EXCEPT ![b] = {}]
  /\ contended' = contended \ {b}

(* processLive: signal 0. *)
ProcessLive(b) == b \in Brokers /\ main[b] \notin {"unborn", "gone"}

-----------------------------------------------------------------------------
(* AcquirePIDFile: exclusive creation, or a look at who is there.          *)
CreatePID(b) ==
  /\ main[b] = "open"
  /\ IF pidFile = NoPID
     THEN pidFile' = [by |-> b, written |-> FALSE] /\ Go(b, "write")
     ELSE UNCHANGED pidFile /\ Go(b, "inspect")
  /\ UNCHANGED <<addrFile, cancelled, torn, timer, live, clients, faults, histories>>

(* The PID goes to the file this process created, even if its name is gone *)
(* by now.  runBroker then opens its table and starts the idle timer.      *)
WritePID(b) ==
  /\ main[b] = "write"
  /\ pidFile' = IF pidFile.by = b THEN [pidFile EXCEPT !.written = TRUE] ELSE pidFile
  /\ Go(b, "held")
  /\ armed' = [armed EXCEPT ![b] = TRUE]
  /\ UNCHANGED <<addrFile, cancelled, torn, callback, live, clients, faults, histories>>

(* The write of the PID fails: the name is removed, whoever holds it.      *)
FailWritePID(b) ==
  /\ main[b] = "write" /\ Fault
  /\ pidFile' = NoPID
  /\ Vanish(b)
  /\ UNCHANGED <<addrFile, clients, crashed>>

(* Mutant: a live owner is not looked for. *)
MayReplaceAny(b) == TRUE
(* readPIDFile and processLive: a missing, malformed (not yet written) or  *)
(* stale file may be replaced.                                             *)
MayReplace(b) == ~(pidFile.written /\ ProcessLive(pidFile.by))

ReadPID(b) ==
  /\ main[b] = "inspect"
  /\ IF MayReplace(b)
     THEN Go(b, "remove") /\ UNCHANGED <<cancelled, torn, timer, live, late, contended>>
     ELSE Vanish(b)
  /\ UNCHANGED <<files, clients, faults, crashed>>

RemovePID(b) ==
  /\ main[b] = "remove"
  /\ pidFile' = NoPID
  /\ Go(b, "open")
  /\ UNCHANGED <<addrFile, cancelled, torn, timer, live, clients, faults, histories>>

-----------------------------------------------------------------------------
(* Serve: listen, then publish the address by a rename.                    *)
Publish(b) ==
  /\ main[b] = "held"
  /\ addrFile' = b
  /\ Go(b, "serving")
  /\ UNCHANGED <<pidFile, cancelled, torn, timer, live, clients, faults, histories>>

(* The task storage cannot be opened, or Serve cannot listen or write the  *)
(* address: runBroker returns, through shutdown if it got that far.        *)
FailStart(b) ==
  /\ main[b] = "held" /\ Fault
  /\ cancelled' = [cancelled EXCEPT ![b] = TRUE]
  /\ \E phase \in {"release", "teardown"} : Go(b, phase)
  /\ UNCHANGED <<files, torn, timer, live, clients, histories>>

(* shutdown: a signal or broker.shutdown cancels the serve context. *)
Stop(b) ==
  /\ main[b] \in {"held", "serving"} /\ ~cancelled[b]
  /\ cancelled' = [cancelled EXCEPT ![b] = TRUE]
  /\ UNCHANGED <<files, main, torn, timer, live, clients, faults, histories>>

(* The idle timer fires; its callback runs in a goroutine of its own.      *)
IdleFires(b) ==
  /\ armed[b] /\ main[b] \in Holding /\ callback[b] = "none"
  /\ armed' = [armed EXCEPT ![b] = FALSE]
  /\ callback' = [callback EXCEPT ![b] = "fired"]
  /\ UNCHANGED <<files, process, live, clients, faults, histories>>

(* Mutant: a timer that has fired is not started again. *)
RestartedWhileArmed(b) == armed[b]
(* IdleTimer.Reset once started: it runs again, fired or not. *)
Restarted(b) == TRUE
Reset(b) == armed' = [armed EXCEPT ![b] = Restarted(b)]

(* Mutant: a silent task does not keep its broker. *)
BusyNever(b) == FALSE
Busy(b) == live[b] # {}

(* The callback: live work re-arms the timer, otherwise it will shut down. *)
IdleChecks(b) ==
  /\ callback[b] = "fired"
  /\ IF Busy(b)
     THEN Reset(b) /\ callback' = [callback EXCEPT ![b] = "none"]
     ELSE UNCHANGED armed /\ callback' = [callback EXCEPT ![b] = "decided"]
  /\ UNCHANGED <<files, process, live, clients, faults, histories>>

IdleStops(b) ==
  /\ callback[b] = "decided"
  /\ callback' = [callback EXCEPT ![b] = "none"]
  /\ cancelled' = [cancelled EXCEPT ![b] = TRUE]
  /\ late' = [late EXCEPT ![b] = {}]
  /\ UNCHANGED <<files, main, torn, armed, live, clients, faults, crashed, contended>>

(* The tasks of task.start: their caller has its answer. *)
Detached(b) == {c \in live[b] : at[c] # "running"}

(* detached.Wait, then CloseAppServer, which gives synchronous runs no     *)
(* more than a bounded time.                                               *)
Tear(b) ==
  /\ cancelled[b] /\ ~torn[b] /\ main[b] \in Holding
  /\ Detached(b) = {}
  /\ torn' = [torn EXCEPT ![b] = TRUE]
  /\ UNCHANGED <<files, main, cancelled, timer, live, clients, faults, histories>>

(* Serve returns as soon as its listener is closed, and looks whether the  *)
(* address file is still its own ...                                       *)
CloseListener(b) ==
  /\ main[b] = "serving" /\ cancelled[b]
  /\ Go(b, "closed")
  /\ UNCHANGED <<files, cancelled, torn, timer, live, clients, faults, histories>>

ReadOwnAddr(b) ==
  /\ main[b] = "closed"
  /\ Go(b, IF addrFile = b THEN "unlist" ELSE "teardown")
  /\ UNCHANGED <<files, cancelled, torn, timer, live, clients, faults, histories>>

(* ... and removes it in a second step, whatever it is then. *)
RemoveOwnAddr(b) ==
  /\ main[b] = "unlist"
  /\ addrFile' = None
  /\ Go(b, "teardown")
  /\ UNCHANGED <<pidFile, cancelled, torn, timer, live, clients, faults, histories>>

(* The deferred shutdown() waits in once.Do until the teardown is over.    *)
TornDown(b) ==
  /\ main[b] = "teardown" /\ torn[b]
  /\ Go(b, "release")
  /\ UNCHANGED <<files, cancelled, torn, timer, live, clients, faults, histories>>

OwnPID(b) == pidFile = [by |-> b, written |-> TRUE]

(* The release function of AcquirePIDFile: a look, then the removal. *)
ReleasePID(b) ==
  /\ main[b] = "release"
  /\ IF OwnPID(b)
     THEN Go(b, "unpid") /\ UNCHANGED <<cancelled, torn, timer, live, late, contended>>
     ELSE Vanish(b)
  /\ UNCHANGED <<files, clients, faults, crashed>>

(* Mutant: the process ends without removing the file. *)
RemoveOwnPIDNever(b) ==
  /\ main[b] = "unpid"
  /\ Vanish(b)
  /\ UNCHANGED <<files, clients, faults, crashed>>

RemoveOwnPID(b) ==
  /\ main[b] = "unpid"
  /\ pidFile' = NoPID
  /\ Vanish(b)
  /\ UNCHANGED <<addrFile, clients, faults, crashed>>

Crash(b) ==
  /\ ProcessLive(b) /\ Fault
  /\ Vanish(b)
  /\ crashed' = crashed \cup {b}
  /\ UNCHANGED <<files, clients>>

-----------------------------------------------------------------------------
(* EnsureBrokerRunning, step by step.                                      *)
ReadAddr(c) ==
  /\ at[c] = "start"
  /\ seen' = [seen EXCEPT ![c] = addrFile]
  /\ Step(c, IF addrFile = None THEN "remove" ELSE "ping")
  /\ UNCHANGED <<files, process, timer, live, faults, histories>>

Serving(b) == b \in Brokers /\ main[b] = "serving"

(* broker.ping, which resets the idle timer. *)
PingAnswered(c) ==
  /\ at[c] \in {"ping", "pollping"} /\ Serving(seen[c])
  /\ Leave(c, "reread")
  /\ Reset(seen[c])
  /\ UNCHANGED <<files, process, callback, live, faults, histories>>

(* No answer within 500 ms, though the broker may well be there; a record  *)
(* without a credential is an error for the user to repair.                *)
PingUnanswered(c) ==
  /\ at[c] \in {"ping", "pollping"}
  /\ Leave(c, IF at[c] = "pollping" THEN "poll"
              ELSE IF seen[c] = Legacy THEN "failed" ELSE "remove")
  /\ UNCHANGED <<files, process, timer, live, faults, histories>>

RemoveAddr(c) ==
  /\ at[c] = "remove"
  /\ addrFile' = None
  /\ Step(c, "spawn")
  /\ UNCHANGED <<pidFile, process, timer, live, seen, faults, histories>>

(* Who else is at the PID file: acquiring it, or about to remove a file    *)
(* that is no longer its own.                                              *)
AtPIDFile(d) == main[d] \in Acquiring \/ (main[d] = "unpid" /\ ~OwnPID(d))

(* A broker process starts: for a client, or by hand.                      *)
Launch(b) ==
  /\ main[b] = "unborn"
  /\ Go(b, "open")
  /\ LET rivals == {d \in Brokers : AtPIDFile(d)}
     IN contended' = IF rivals = {} THEN contended ELSE contended \cup rivals \cup {b}
  /\ UNCHANGED <<files, cancelled, torn, timer, live, seen, faults, crashed, late>>

Spawn(c) ==
  /\ at[c] = "spawn"
  /\ \E b \in Brokers : Launch(b)
  /\ Step(c, "poll")

LaunchByHand(b) == Launch(b) /\ UNCHANGED at

(* Every 50 ms for 2 s. *)
PollAddr(c) ==
  /\ at[c] = "poll" /\ addrFile # None
  /\ seen' = [seen EXCEPT ![c] = addrFile]
  /\ Step(c, "pollping")
  /\ UNCHANGED <<files, process, timer, live, faults, histories>>

GiveUp(c) ==
  /\ at[c] \in {"spawn", "poll"}
  /\ Step(c, "failed")
  /\ UNCHANGED <<files, process, timer, live, seen, faults, histories>>

(* dispatchViaBroker reads the address a second time and calls.            *)
RereadAddr(c) ==
  /\ at[c] = "reread"
  /\ seen' = [seen EXCEPT ![c] = addrFile]
  /\ Step(c, IF addrFile = None THEN "failed" ELSE "call")
  /\ UNCHANGED <<files, process, timer, live, faults, histories>>

Connect(c) ==
  /\ at[c] = "call"
  /\ \/ Serving(seen[c]) /\ Step(c, "connected") /\ UNCHANGED seen
     \/ ~Serving(seen[c]) /\ Leave(c, "failed")
  /\ UNCHANGED <<files, process, timer, live, faults, histories>>

(* The handler resets the timer and the table admits the task: also after  *)
(* the listener has closed, since an accepted connection is served.        *)
Admit(c) ==
  /\ at[c] = "connected" /\ main[seen[c]] # "gone"
  /\ live' = [live EXCEPT ![seen[c]] = @ \cup {c}]
  /\ late' = IF callback[seen[c]] = "decided"
             THEN [late EXCEPT ![seen[c]] = @ \cup {c}] ELSE late
  /\ Reset(seen[c])
  /\ \/ Step(c, "running") /\ UNCHANGED seen
     \/ Leave(c, "done")
  /\ UNCHANGED <<files, process, callback, faults, crashed, contended>>

(* A task ends, by codex or by the cancelled context; each transition      *)
(* notes activity.                                                         *)
EndTask(b, c) ==
  /\ c \in live[b]
  /\ live' = [live EXCEPT ![b] = @ \ {c}]
  /\ Reset(b)
  /\ at' = IF at[c] = "running" THEN [at EXCEPT ![c] = "answering"] ELSE at
  /\ UNCHANGED <<files, process, callback, seen, faults, histories>>

Answered(c) ==
  /\ at[c] = "answering" /\ main[seen[c]] # "gone"
  /\ Leave(c, "done")
  /\ UNCHANGED <<files, process, timer, live, faults, histories>>

(* The broker is gone before it answered. *)
Severed(c) ==
  /\ at[c] \in {"connected", "running", "answering"} /\ main[seen[c]] = "gone"
  /\ Leave(c, "failed")
  /\ UNCHANGED <<files, process, timer, live, faults, histories>>

-----------------------------------------------------------------------------
Acquires(b) ==
  CreatePID(b) \/ WritePID(b) \/ FailWritePID(b) \/ ReadPID(b) \/ RemovePID(b)

Shuts(b) ==
  \/ IdleFires(b) \/ IdleChecks(b) \/ IdleStops(b) \/ Tear(b) \/ CloseListener(b)
  \/ ReadOwnAddr(b) \/ RemoveOwnAddr(b) \/ TornDown(b) \/ ReleasePID(b) \/ RemoveOwnPID(b)

BrokerStep(b) ==
  LaunchByHand(b) \/ Acquires(b) \/ Publish(b) \/ FailStart(b) \/ Stop(b) \/ Shuts(b) \/ Crash(b)

ClientStep(c) ==
  \/ ReadAddr(c) \/ PingAnswered(c) \/ PingUnanswered(c) \/ RemoveAddr(c) \/ Spawn(c)
  \/ PollAddr(c) \/ GiveUp(c) \/ RereadAddr(c) \/ Connect(c) \/ Admit(c)
  \/ Answered(c) \/ Severed(c)

Next ==
  \/ \E b \in Brokers : BrokerStep(b)
  \/ \E c \in Clients : ClientStep(c)
  \/ \E b \in Brokers, c \in Clients : EndTask(b, c)

(* Timers fire, goroutines run, and a detached run whose context is        *)
(* cancelled ends (Dispatch, CancelledRunReturns); a task as such need     *)
(* never end, and nobody has to stop a broker.                             *)
Fairness ==
  /\ \A b \in Brokers :
       /\ WF_vars(Publish(b))
       /\ WF_vars(Shuts(b))
       /\ \A c \in Clients : WF_vars(cancelled[b] /\ c \in Detached(b) /\ EndTask(b, c))

Spec == Init /\ [][Next]_vars
FairSpec == Spec /\ Fairness

-----------------------------------------------------------------------------
(* The type invariant.                                                     *)
TypeOK ==
  /\ pidFile \in [by : Brokers \cup {None, Dead}, written : BOOLEAN]
  /\ addrFile \in Brokers \cup {None, Dead, Legacy}
  /\ main \in [Brokers -> Phases]
  /\ cancelled \in [Brokers -> BOOLEAN]
  /\ torn \in [Brokers -> BOOLEAN]
  /\ armed \in [Brokers -> BOOLEAN]
  /\ callback \in [Brokers -> {"none", "fired", "decided"}]
  /\ live \in [Brokers -> SUBSET Clients]
  /\ at \in [Clients -> Steps]
  /\ seen \in [Clients -> Brokers \cup {None, Dead, Legacy}]
  /\ faults \in 0 .. MaxFaults
  /\ crashed \subseteq Brokers \cup {Dead}
  /\ contended \subseteq Brokers
  /\ late \in [Brokers -> SUBSET Clients]

(* A broker that acquired the PID file with no other at it keeps the file  *)
(* until it releases it, so that no second one comes to serve beside it:   *)
(* what AcquirePIDFile does achieve (lifecycle.go:24-57).                  *)
UncontendedKeepsPID ==
  \A b \in Brokers :
    main[b] \in Holding /\ b \notin contended =>
      /\ pidFile = [by |-> b, written |-> TRUE]
      /\ \A d \in Brokers \ {b} : main[d] \in Holding => d \in contended

(* The PID file is sound, and so are the types. *)
PIDFileSound == TypeOK /\ UncontendedKeepsPID

(* Only a crash leaves a file behind: a broker that ended by itself is     *)
(* named by neither (server.go:118-126, lifecycle.go:53-57).               *)
FilesOutlivedOnlyByCrash ==
  \A b \in Brokers :
    main[b] = "gone" /\ (addrFile = b \/ pidFile.by = b) => b \in crashed

(* When the idle timer ends the serve context, every task that was live    *)
(* when it looked has ended: it can only cut tasks admitted since          *)
(* (broker.go:109-117).                                                    *)
IdleCutsOnlyLateTasks ==
  [][\A b \in Brokers : IdleStops(b) /\ ~cancelled[b] => live[b] \subseteq late[b]]_vars

(* A broker without live tasks goes away in the end, and its PID file with *)
(* it.  This is what ends the state in which a client has removed the      *)
(* address of a slow but running broker: no new one can start while it     *)
(* holds the PID, and nothing publishes its address again.                 *)
QuietBrokerLeaves ==
  \A b \in Brokers : main[b] = "serving" ~> main[b] = "gone" \/ live[b] # {}

=============================================================================
