---------------------------- MODULE AppServerPool ----------------------------
(***************************************************************************)
(* The one codex child the runs of a broker share: who starts it, who      *)
(* replaces it when it has died, who reaps it, and the calls made to it    *)
(* (src/internal/broker/appserver_lifecycle.go;                            *)
(* src/internal/codex/appserver/appserver.go: Spawn, initialize, call,     *)
(* StartThread, ResumeThread, StartTurn, the reader, reapChild).           *)
(* Delivery of a turn's notifications is TurnMux's subject.                *)
(***************************************************************************)
EXTENDS Integers, FiniteSets

CONSTANTS
  Runs,       \* dispatches, each on a thread of its own
  Instances,  \* AppServer values that may be built
  None,       \* no run, no instance
  Reader,     \* the reader goroutine, as a holder of writeMu
  Impatient,  \* runs whose context may be cancelled
  Resuming,   \* runs with a thread to resume
  ModeOf,     \* the sandbox mode a run asks for
  Asking,     \* instances whose codex may make requests
  Answers,    \* effective thread settings codex may answer with
  MayShutDown

ASSUME PoolAssumption ==
  /\ None \notin Runs \cup Instances \cup {Reader} /\ Reader \notin Runs
  /\ Impatient \subseteq Runs /\ Resuming \subseteq Runs /\ Asking \subseteq Instances
  /\ ModeOf \in [Runs -> {"read-only", "workspace-write", "danger-full-access"}]

VARIABLES
  lock,     \* appserverMu: the run that holds it
  pool,     \* BrokerState.appserver
  child,    \* the process of an instance: "none", "up", "mute" (its stdout
            \* is closed, its stdin is not), "gone"
  reader,   \* its reader: "off", "reading", "answering", "failed", "done"
  writer,   \* its writeMu: the run or reader that holds it
  pending,  \* its unanswered calls, by the run that made them
  turns,    \* its routed turns
  reaper,   \* "none", "waiting" (for ActiveTurns), "closing", "closed"
  at,       \* where a run is
  io,       \* its call: "idle", "write", "writing", "wait", or how it ended
  on,       \* the instance it uses
  granted,  \* what the thread of a run may do, once accepted
  down,     \* CloseAppServer: "no", "reaping", "over"
  target    \* the instance it reaps

instance == <<child, reader, writer, pending, turns>>
run      == <<at, io, on, granted>>
closing  == <<down, target>>
vars == <<lock, pool, instance, reaper, run, closing>>

Calling == {"init", "thread", "fresh", "turn"}

Init ==
  /\ lock = None /\ pool = None
  /\ child = [i \in Instances |-> "none"]
  /\ reader = [i \in Instances |-> "off"]
  /\ writer = [i \in Instances |-> None]
  /\ pending = [i \in Instances |-> {}]
  /\ turns = [i \in Instances |-> {}]
  /\ reaper = [i \in Instances |-> "none"]
  /\ at = [r \in Runs |-> "start"]
  /\ io = [r \in Runs |-> "idle"]
  /\ on = [r \in Runs |-> None]
  /\ granted = [r \in Runs |-> {}]
  /\ down = "no" /\ target = None

-----------------------------------------------------------------------------
(* verifyThreadSettings: an answer is taken only if it does not go beyond  *)
(* what was asked.                                                         *)
TypeOf(mode) ==
  CASE mode = "read-only"          -> "readOnly"
    [] mode = "workspace-write"    -> "workspaceWrite"
    [] mode = "danger-full-access" -> "dangerFullAccess"

(* Mutant: the writable roots are not compared. *)
VerifiesTypeOnly(mode, got) ==
  got.approval = "never" /\ got.cwd = "asked" /\ got.model = "asked" /\ got.type = TypeOf(mode)

Verifies(mode, got) ==
  /\ got.approval = "never" /\ got.cwd = "asked" /\ got.model = "asked"
  /\ got.type = TypeOf(mode)
  /\ mode # "danger-full-access" => ~got.network
  /\ mode = "workspace-write" => got.noTmpdir /\ got.noSlashTmp /\ got.roots \subseteq {"asked"}
  /\ mode = "read-only" => got.roots = {}

(* What a thread with these settings may do. *)
Grants(got) ==
  IF got.type = "dangerFullAccess" THEN {"anything"}
  ELSE (IF got.network THEN {"network"} ELSE {})
       \cup (IF got.approval # "never" THEN {"ask"} ELSE {})
       \cup (IF got.type = "workspaceWrite"
             THEN {got.cwd} \cup got.roots \cup (IF got.noTmpdir /\ got.noSlashTmp THEN {} ELSE {"tmp"})
             ELSE got.roots)

Allowed(mode) ==
  CASE mode = "read-only"          -> {}
    [] mode = "workspace-write"    -> {"asked"}
    [] mode = "danger-full-access" -> {"anything"}

-----------------------------------------------------------------------------
(* call: the entry in pending comes first, then the write under writeMu.   *)
BeginCall(r, i, phase) ==
  /\ at' = [at EXCEPT ![r] = phase]
  /\ io' = [io EXCEPT ![r] = "write"]
  /\ on' = [on EXCEPT ![r] = i]
  /\ pending' = [pending EXCEPT ![i] = @ \cup {r}]

(* The run is over; what is left is in the instance. *)
End(r) ==
  /\ at' = [at EXCEPT ![r] = "over"]
  /\ io' = [io EXCEPT ![r] = "idle"]
  /\ on' = [on EXCEPT ![r] = None]
  /\ granted' = [granted EXCEPT ![r] = {}]

LockWriter(r) ==
  /\ io[r] = "write" /\ writer[on[r]] = None
  /\ writer' = [writer EXCEPT ![on[r]] = r]
  /\ io' = [io EXCEPT ![r] = "writing"]
  /\ UNCHANGED <<lock, pool, child, reader, pending, turns, reaper, at, on, granted, closing>>

(* The frame goes into the pipe, once there is room ...                    *)
Written(r) ==
  /\ io[r] = "writing" /\ child[on[r]] \in {"up", "mute"} /\ reaper[on[r]] # "closing"
  /\ writer' = [writer EXCEPT ![on[r]] = None]
  /\ io' = [io EXCEPT ![r] = "wait"]
  /\ UNCHANGED <<lock, pool, child, reader, pending, turns, reaper, at, on, granted, closing>>

(* ... or the pipe is closed, by its death or by reapChild.                *)
WriteFails(r) ==
  /\ io[r] = "writing" /\ (child[on[r]] = "gone" \/ reaper[on[r]] = "closing")
  /\ writer' = [writer EXCEPT ![on[r]] = None]
  /\ pending' = [pending EXCEPT ![on[r]] = @ \ {r}]
  /\ io' = [io EXCEPT ![r] = "error"]
  /\ UNCHANGED <<lock, pool, child, reader, turns, reaper, at, on, granted, closing>>

(* The answers codex gives: "stale" says there is no such thread. *)
AnswerTo(phase) ==
  {"ok", "error"} \cup (IF phase = "thread" THEN {"stale"} ELSE {})

(* handleInbound: the answer goes to the call whose id it bears. *)
Answer(r) ==
  /\ io[r] = "wait" /\ child[on[r]] = "up" /\ reader[on[r]] = "reading"
  /\ r \in pending[on[r]]
  /\ pending' = [pending EXCEPT ![on[r]] = @ \ {r}]
  /\ \E answer \in AnswerTo(at[r]) : io' = [io EXCEPT ![r] = answer]
  /\ UNCHANGED <<lock, pool, child, reader, writer, turns, reaper, at, on, granted, closing>>

(* The context is looked at here only: not while the frame is written.     *)
CtxEndsCall(r) ==
  /\ io[r] = "wait" /\ r \in Impatient
  /\ pending' = [pending EXCEPT ![on[r]] = @ \ {r}]
  /\ io' = [io EXCEPT ![r] = "error"]
  /\ UNCHANGED <<lock, pool, child, reader, writer, turns, reaper, at, on, granted, closing>>

(* Mutant: a call waits for its answer alone. *)
DoneNever(i) == FALSE
(* IsDead, and the done arm of call: the reader has returned. *)
IsDone(i) == reader[i] = "done"

DoneEndsCall(r) ==
  /\ io[r] = "wait" /\ IsDone(on[r])
  /\ io' = [io EXCEPT ![r] = "error"]
  /\ UNCHANGED <<lock, pool, instance, reaper, at, on, granted, closing>>

-----------------------------------------------------------------------------
(* A request codex makes during a turn is answered by the reader itself,   *)
(* under writeMu.                                                          *)
ServerRequest(i) ==
  /\ i \in Asking /\ turns[i] # {}
  /\ child[i] = "up" /\ reader[i] = "reading"
  /\ reader' = [reader EXCEPT ![i] = "answering"]
  /\ UNCHANGED <<lock, pool, child, writer, pending, turns, reaper, run, closing>>

ReaderLocks(i) ==
  /\ reader[i] = "answering" /\ writer[i] = None
  /\ writer' = [writer EXCEPT ![i] = Reader]
  /\ UNCHANGED <<lock, pool, child, reader, pending, turns, reaper, run, closing>>

ReaderAnswers(i) ==
  /\ reader[i] = "answering" /\ writer[i] = Reader
  /\ writer' = [writer EXCEPT ![i] = None]
  /\ reader' = [reader EXCEPT ![i] = "reading"]
  /\ UNCHANGED <<lock, pool, child, pending, turns, reaper, run, closing>>

(* failPendingRequests at the end of stdout: calls waiting get the error,  *)
(* turns are closed.  A call stored from here on must see done.            *)
FailPendingRequests(i) ==
  /\ pending' = [pending EXCEPT ![i] = {}]
  /\ io' = [r \in Runs |-> IF r \in pending[i] /\ io[r] = "wait" THEN "error" ELSE io[r]]
  /\ turns' = [turns EXCEPT ![i] = {}]

EndOfStdout(i) ==
  /\ child[i] \in {"mute", "gone"} /\ reader[i] = "reading"
  /\ FailPendingRequests(i)
  /\ reader' = [reader EXCEPT ![i] = "failed"]
  /\ UNCHANGED <<lock, pool, child, writer, reaper, at, on, granted, closing>>

CloseDone(i) ==
  /\ reader[i] = "failed"
  /\ reader' = [reader EXCEPT ![i] = "done"]
  /\ UNCHANGED <<lock, pool, child, writer, pending, turns, reaper, run, closing>>

ChildDies(i) ==
  /\ \/ child[i] = "up" /\ \E end \in {"mute", "gone"} : child' = [child EXCEPT ![i] = end]
     \/ child[i] = "mute" /\ child' = [child EXCEPT ![i] = "gone"]
  /\ UNCHANGED <<lock, pool, reader, writer, pending, turns, reaper, run, closing>>

-----------------------------------------------------------------------------
(* Mutant: the wait for the turns has no end. *)
MayCloseDrained(i) == turns[i] = {}
(* reapInstance polls until no turn is routed or 5 s have passed: it may   *)
(* close at any moment, and does in the end.                               *)
MayClose(i) == TRUE

StartClose(i) ==
  /\ reaper[i] = "waiting" /\ MayClose(i)
  /\ reaper' = [reaper EXCEPT ![i] = "closing"]
  /\ UNCHANGED <<lock, pool, instance, run, closing>>

(* reapChild: stdin is closed, then SIGTERM and SIGKILL to the group.      *)
KillChild(i) ==
  /\ reaper[i] = "closing" /\ child[i] \in {"up", "mute"}
  /\ child' = [child EXCEPT ![i] = "gone"]
  /\ UNCHANGED <<lock, pool, reader, writer, pending, turns, reaper, run, closing>>

(* The reader is joined and the child waited for. *)
EndClose(i) ==
  /\ reaper[i] = "closing" /\ child[i] = "gone" /\ reader[i] = "done"
  /\ reaper' = [reaper EXCEPT ![i] = "closed"]
  /\ UNCHANGED <<lock, pool, instance, run, closing>>

-----------------------------------------------------------------------------
(* Mutant: the instance is looked at without the lock. *)
UnlockedAlways == TRUE
Unlocked == lock = None

(* Mutant: a busy reader is taken for a dead one. *)
ReplaceableBusy(i) == reader[i] # "reading"
Replaceable(i) == reader[i] = "done"

Usable(i) == i \in Instances /\ ~Replaceable(i)

(* EnsureAppServer with a live instance: used at once. *)
UseInstance(r) ==
  /\ at[r] = "start" /\ Unlocked
  /\ Usable(pool)
  /\ BeginCall(r, pool, "thread")
  /\ UNCHANGED <<lock, pool, child, reader, writer, turns, reaper, granted, closing>>

(* Otherwise a dead one goes to a background reaper, and a new child is    *)
(* started and greeted with the lock held.                                 *)
Detach == IF pool = None THEN UNCHANGED reaper ELSE reaper' = [reaper EXCEPT ![pool] = "waiting"]

Fresh == {i \in Instances : child[i] = "none"}

SpawnInstance(r) ==
  LET i == CHOOSE j \in Fresh : TRUE IN
  /\ at[r] = "start" /\ Unlocked
  /\ ~Usable(pool)
  /\ Fresh # {}
  /\ Detach /\ pool' = None
  /\ lock' = r
  /\ child' = [child EXCEPT ![i] = "up"]
  /\ reader' = [reader EXCEPT ![i] = "reading"]
  /\ BeginCall(r, i, "init")
  /\ UNCHANGED <<writer, turns, granted, closing>>

(* codex cannot be started. *)
StartFails(r) ==
  /\ at[r] = "start" /\ Unlocked
  /\ ~Usable(pool)
  /\ Detach /\ pool' = None
  /\ End(r)
  /\ UNCHANGED <<lock, instance, closing>>

Initialized(r) ==
  /\ at[r] = "init" /\ io[r] = "ok"
  /\ pool' = on[r] /\ lock' = None
  /\ BeginCall(r, on[r], "thread")
  /\ UNCHANGED <<child, reader, writer, turns, reaper, granted, closing>>

(* A failed handshake: Spawn reaps its child before it returns, with the   *)
(* lock still held.                                                        *)
InitFails(r) ==
  /\ at[r] = "init" /\ io[r] = "error"
  /\ at' = [at EXCEPT ![r] = "initreap"]
  /\ reaper' = [reaper EXCEPT ![on[r]] = "closing"]
  /\ UNCHANGED <<lock, pool, instance, io, on, granted, closing>>

InitReaped(r) ==
  /\ at[r] = "initreap" /\ reaper[on[r]] = "closed"
  /\ lock' = None
  /\ End(r)
  /\ UNCHANGED <<pool, instance, reaper, closing>>

(* StartThread or ResumeThread answered: the settings are verified, then   *)
(* StartTurn routes the turn and calls turn/start.                         *)
StartTurn(r) ==
  /\ at[r] \in {"thread", "fresh"} /\ io[r] = "ok"
  /\ \E got \in Answers :
       /\ Verifies(ModeOf[r], got)
       /\ granted' = [granted EXCEPT ![r] = Grants(got)]
  /\ turns' = [turns EXCEPT ![on[r]] = @ \cup {r}]
  /\ BeginCall(r, on[r], "turn")
  /\ UNCHANGED <<lock, pool, child, reader, writer, reaper, closing>>

(* ErrStaleSession: one more try on a fresh thread. *)
FallBackToFresh(r) ==
  /\ at[r] = "thread" /\ io[r] = "stale" /\ r \in Resuming
  /\ BeginCall(r, on[r], "fresh")
  /\ UNCHANGED <<lock, pool, child, reader, writer, turns, reaper, granted, closing>>

(* Any other end of the thread call, or settings that go too far. *)
ThreadFails(r) ==
  /\ at[r] \in {"thread", "fresh"}
  /\ \/ io[r] = "error" \/ (io[r] = "stale" /\ r \notin Resuming)
     \/ io[r] = "ok" /\ \E got \in Answers : ~Verifies(ModeOf[r], got)
  /\ End(r)
  /\ UNCHANGED <<lock, pool, instance, reaper, closing>>

(* turn/start failed: the turn is unrouted, by its thread. *)
TurnFails(r) ==
  /\ at[r] = "turn" /\ io[r] = "error"
  /\ turns' = [turns EXCEPT ![on[r]] = @ \ {r}]
  /\ End(r)
  /\ UNCHANGED <<lock, pool, child, reader, writer, pending, reaper, closing>>

Draining(r) == at[r] = "turn" /\ io[r] = "ok"

(* turn/completed unroutes the turn, as far as the reader gets. *)
TurnCompletes(r) ==
  /\ Draining(r) /\ r \in turns[on[r]]
  /\ child[on[r]] = "up" /\ reader[on[r]] = "reading"
  /\ turns' = [turns EXCEPT ![on[r]] = @ \ {r}]
  /\ UNCHANGED <<lock, pool, child, reader, writer, pending, reaper, run, closing>>

(* The drain is cancelled, or finds its turn over. *)
Drained(r) ==
  /\ Draining(r) /\ (r \in Impatient \/ r \notin turns[on[r]])
  /\ turns' = [turns EXCEPT ![on[r]] = @ \ {r}]
  /\ End(r)
  /\ UNCHANGED <<lock, pool, child, reader, writer, pending, reaper, closing>>

-----------------------------------------------------------------------------
(* CloseAppServer: detach under the lock, reap without it. *)
CloseAppServer ==
  /\ MayShutDown /\ down = "no" /\ Unlocked
  /\ down' = "reaping"
  /\ target' = pool /\ pool' = None /\ Detach
  /\ UNCHANGED <<lock, instance, run>>

EndShutdown ==
  /\ down = "reaping" /\ (target \in Instances => reaper[target] = "closed")
  /\ down' = "over"
  /\ UNCHANGED <<lock, pool, instance, reaper, run, target>>

-----------------------------------------------------------------------------
CallStep(r) == LockWriter(r) \/ WriteFails(r) \/ DoneEndsCall(r)

RunStep(r) ==
  \/ CallStep(r) \/ CtxEndsCall(r)
  \/ UseInstance(r) \/ SpawnInstance(r) \/ StartFails(r)
  \/ Initialized(r) \/ InitFails(r) \/ InitReaped(r)
  \/ StartTurn(r) \/ FallBackToFresh(r) \/ ThreadFails(r)
  \/ TurnFails(r) \/ Drained(r)

ReaderStep(i) ==
  \/ ReaderLocks(i) \/ EndOfStdout(i) \/ CloseDone(i)
  \/ (child[i] = "gone" \/ reaper[i] = "closing") /\ ReaderAnswers(i)

ReaperStep(i) == StartClose(i) \/ KillChild(i) \/ EndClose(i)

(* What codex, the clients and the operator may do, or never do.           *)
Outside ==
  \/ \E r \in Runs : Written(r) \/ Answer(r) \/ TurnCompletes(r)
  \/ \E i \in Instances : ServerRequest(i) \/ ChildDies(i) \/ ReaderAnswers(i)

(* Once CloseAppServer has returned, the broker process ends. *)
Running == down # "over"

Next ==
  /\ Running
  /\ \/ \E r \in Runs : RunStep(r)
     \/ \E i \in Instances : ReaderStep(i) \/ ReaperStep(i)
     \/ CloseAppServer \/ EndShutdown
     \/ Outside

(* Goroutines run, timers fire, and a killed child is gone; codex owes     *)
(* nothing, nor need a client give up.                                     *)
Fairness ==
  /\ \A r \in Runs : WF_vars(Running /\ CallStep(r))
  /\ \A i \in Instances :
       WF_vars(Running /\ ReaderStep(i)) /\ WF_vars(Running /\ ReaperStep(i))

Spec == Init /\ [][Next]_vars
FairSpec == Spec /\ Fairness

-----------------------------------------------------------------------------
(* The type invariant.                                                     *)
TypeOK ==
  /\ lock \in Runs \cup {None}
  /\ pool \in Instances \cup {None}
  /\ child \in [Instances -> {"none", "up", "mute", "gone"}]
  /\ reader \in [Instances -> {"off", "reading", "answering", "failed", "done"}]
  /\ writer \in [Instances -> Runs \cup {None, Reader}]
  /\ pending \in [Instances -> SUBSET Runs]
  /\ turns \in [Instances -> SUBSET Runs]
  /\ reaper \in [Instances -> {"none", "waiting", "closing", "closed"}]
  /\ at \in [Runs -> {"start", "initreap", "over"} \cup Calling]
  /\ io \in [Runs -> {"idle", "write", "writing", "wait", "ok", "error", "stale"}]
  /\ on \in [Runs -> Instances \cup {None}]
  /\ granted \in [Runs -> SUBSET {"anything", "network", "ask", "asked", "other", "tmp"}]
  /\ down \in {"no", "reaping", "over"}
  /\ target \in Instances \cup {None}

(* No second child beside a usable one, until CloseAppServer has detached  *)
(* the first: a child nobody reaps is either in the pool, or being greeted *)
(* by the run that holds appserverMu (appserver_lifecycle.go:140-162).     *)
NoChildAstray ==
  \A i \in Instances :
    child[i] \in {"up", "mute"} /\ reaper[i] = "none" =>
      i = pool \/ (lock # None /\ on[lock] = i /\ at[lock] = "init")

(* The instances are sound, and so are the types. *)
InstancesSound == TypeOK /\ NoChildAstray

(* Replacing a dead instance never severs a turn: an instance with a live  *)
(* child and a routed turn is reaped by a shutdown only, and then either   *)
(* after the 5 s bound or because the turn was routed once the reaper had  *)
(* found none (appserver_lifecycle.go:175-197).                            *)
RecycleNeverSevers ==
  \A i \in Instances :
    child[i] = "up" /\ turns[i] # {} /\ reaper[i] # "none" => i = target

(* A turn runs only on a thread whose effective settings permit no more    *)
(* than the run asked for (appserver.go:1112-1158).                        *)
TurnsConfined ==
  \A r \in Runs : at[r] = "turn" => granted[r] \subseteq Allowed(ModeOf[r])

(* A call whose child has died returns, and so does one that waits for an  *)
(* answer when the reader has met the end of stdout, even if it stored its *)
(* entry after failPendingRequests had passed (appserver.go:699-735).      *)
CallsEndWithChild ==
  \A r \in Runs :
    \/ io[r] \in {"write", "writing", "wait"} /\ child[on[r]] = "gone"
    \/ io[r] = "wait" /\ reader[on[r]] \in {"failed", "done"}
    ~> io[r] \notin {"write", "writing", "wait"} \/ ~Running

(* A detached instance is reaped in the end, whatever its turns do: dead   *)
(* ones in the background, the last one by CloseAppServer.                 *)
DetachedReaped ==
  \A i \in Instances : reaper[i] = "waiting" ~> reaper[i] = "closed" \/ ~Running

=============================================================================
