------------------------------ MODULE TaskTable ------------------------------
(***************************************************************************)
(* The broker's task table and its durable archive                         *)
(* (src/internal/broker/tasks.go and task_store.go): admission under a     *)
(* limit, the transitions of a task, eviction of terminal tasks by age and *)
(* by count, the write of every transition to <dir>/tasks/<id>.json, and   *)
(* the reload of that archive when a broker starts again.                  *)
(*                                                                         *)
(* Every operation holds Table.mu from its first read to its last write,   *)
(* so each is one action.  What a task carries besides its state, its      *)
(* session and its FinishedAt (prompt, paths, exit code, messages, events) *)
(* is left out: EventRing models the events and Dispatch the exit codes.   *)
(***************************************************************************)
EXTENDS Naturals, FiniteSets

CONSTANTS
  Tasks,           \* task ids newTaskID can draw
  Sessions,        \* client sessions
  SessionOf,       \* the session that asks for each task
  Limit,           \* live tasks Admit accepts (64 in the code)
  MaxTerminal,     \* CODEX_BROKER_MAX_TERMINAL_TASKS; 0 disables the cap
  TTL,             \* CODEX_BROKER_TASK_TTL_MS; 0 disables ageing
  CancelQueued,    \* may session.deregister ask for cancel_queued?
  WriteOutcomes,   \* what a write of the archive may do: {TRUE} or BOOLEAN
  MaxClock,        \* bound: the clock stops here
  MaxCrashes       \* bound: broker processes that end

ASSUME TableAssumption ==
  /\ SessionOf \in [Tasks -> Sessions]
  /\ Limit \in Nat \ {0}
  /\ MaxTerminal \in Nat
  /\ TTL \in Nat
  /\ CancelQueued \in BOOLEAN
  /\ WriteOutcomes \subseteq BOOLEAN /\ TRUE \in WriteOutcomes
  /\ MaxClock \in Nat
  /\ MaxCrashes \in Nat

VARIABLES
  phase,      \* "down", "loading", "up" or "closed" (archive handle closed)
  mem,        \* Table.tasks and Table.order: the record held for each id
  disk,       \* the archive: the last state written for each id
  storeErr,   \* Table.storeErr is set
  toLoad,     \* archive entries EnablePersistence has not read yet
  nextPos,    \* where Table.order appends next
  drawn,      \* ids newTaskID has returned; 128 random bits never repeat
  now,        \* the clock of Table.now
  crashes     \* processes that have ended

vars == <<phase, mem, disk, storeErr, toLoad, nextPos, drawn, now, crashes>>

Live     == {"queued", "running"}
Terminal == {"done", "errored", "cancelled"}

(* A record in memory.  pinned is persistenceFailed; pos is the index in   *)
(* Table.order; fin is FinishedAt, 0 standing for the zero time.           *)
Record == [state : {"absent"} \cup Live \cup Terminal,
           fin : Nat, pinned : BOOLEAN, pos : Nat]
Absent == [state |-> "absent", fin |-> 0, pinned |-> FALSE, pos |-> 0]

Stored  == [state : {"absent"} \cup Live \cup Terminal, fin : Nat]
NoFile  == [state |-> "absent", fin |-> 0]
File(r) == [state |-> r.state, fin |-> r.fin]

Held(m)     == {t \in Tasks : m[t].state # "absent"}
(* Mutant: admission counts the tasks that run, not those that wait too. *)
RunningIn(m) == {t \in Tasks : m[t].state = "running"}
LiveIn(m)   == {t \in Tasks : m[t].state \in Live}
EndedIn(m)  == {t \in Tasks : m[t].state \in Terminal}

NoMemory == [t \in Tasks |-> Absent]
Serving  == phase \in {"up", "closed"}

-----------------------------------------------------------------------------
(* evictTerminalLocked.  First every unpinned terminal record older than   *)
(* the TTL goes.  Then, if more than MaxTerminal terminal records remain,  *)
(* the excess goes in insertion order; pinned records count towards the    *)
(* excess and are skipped.                                                 *)
Aged(m) == {t \in EndedIn(m) : /\ ~m[t].pinned
                               /\ m[t].fin # 0
                               /\ m[t].fin + TTL < now}

Drop(m, S) == [t \in Tasks |-> IF t \in S THEN Absent ELSE m[t]]

AfterTTL(m) == IF TTL = 0 THEN m ELSE Drop(m, Aged(m))

(* Mutant: eviction does not look at persistenceFailed. *)
EvictableAll(m) == EndedIn(m)
Evictable(m) == {t \in EndedIn(m) : ~m[t].pinned}

Excess(m) == Cardinality(EndedIn(m)) - MaxTerminal

(* V is what the second pass drops from m. *)
CapVictims(m, V) ==
  /\ V \subseteq Evictable(m)
  /\ IF MaxTerminal = 0 \/ Excess(m) <= 0 THEN V = {}
     ELSE IF Cardinality(Evictable(m)) <= Excess(m) THEN V = Evictable(m)
     ELSE /\ Cardinality(V) = Excess(m)
          /\ \A v \in V, u \in Evictable(m) \ V : m[v].pos < m[u].pos

(* mem' is m after evictTerminalLocked. *)
EvictInto(m) ==
  \E V \in SUBSET Tasks :
    /\ CapVictims(AfterTTL(m), V)
    /\ mem' = Drop(AfterTTL(m), V)

-----------------------------------------------------------------------------
(* persistLocked.  ok says whether the write succeeded; with the archive   *)
(* handle closed it silently does nothing.  A failure pins the record,     *)
(* rewrites it as errored unless it is cancelled, and closes admission for *)
(* the rest of the process.                                                *)
(* Mutant: a file is created once and never replaced. *)
WrittenOnce(t, r, ok) ==
  IF ok /\ phase # "closed" /\ disk[t].state = "absent"
  THEN disk' = [disk EXCEPT ![t] = File(r)] ELSE UNCHANGED disk

Written(t, r, ok) ==
  IF ok /\ phase # "closed" THEN disk' = [disk EXCEPT ![t] = File(r)]
                            ELSE UNCHANGED disk

(* Mutant: the record is not pinned. *)
PersistedUnpinned(r, ok) ==
  IF ok THEN r ELSE [r EXCEPT !.fin = now, !.state = "errored"]

Persisted(r, ok) ==
  IF ok THEN r
  ELSE [r EXCEPT !.pinned = TRUE,
                 !.fin    = now,
                 !.state  = IF @ = "cancelled" THEN @ ELSE "errored"]

Outcomes == IF phase = "closed" THEN {TRUE} ELSE WriteOutcomes

-----------------------------------------------------------------------------
Init ==
  /\ phase = "up"
  /\ mem = NoMemory
  /\ disk = [t \in Tasks |-> NoFile]
  /\ storeErr = FALSE
  /\ toLoad = {}
  /\ nextPos = 1
  /\ drawn = {}
  /\ now = 1
  /\ crashes = 0

(* Admit: refuses after a storage failure or at the limit, evicts, writes  *)
(* the queued record and only then inserts it.                             *)
Accepts == ~storeErr /\ Cardinality(LiveIn(mem)) < Limit

Admit(t) ==
  /\ Serving
  /\ t \notin drawn
  /\ Accepts
  /\ LET r == [Absent EXCEPT !.state = "queued", !.pos = nextPos]
     IN \E ok \in Outcomes, V \in SUBSET Tasks :
          LET m == AfterTTL(mem)
          IN /\ CapVictims(m, V)
             /\ Written(t, r, ok)
             /\ storeErr' = ~ok
             /\ mem' = IF ok THEN [Drop(m, V) EXCEPT ![t] = r] ELSE Drop(m, V)
             /\ nextPos' = IF ok THEN nextPos + 1 ELSE nextPos
  /\ drawn' = drawn \cup {t}
  /\ UNCHANGED <<phase, toLoad, now, crashes>>

(* MarkRunning persists but, unlike the terminal transitions, does not     *)
(* evict.                                                                  *)
MarkRunning(t) ==
  /\ Serving
  /\ mem[t].state = "queued"
  /\ LET r == [mem[t] EXCEPT !.state = "running"]
     IN \E ok \in Outcomes :
          /\ Written(t, r, ok)
          /\ storeErr' = (storeErr \/ ~ok)
          /\ mem' = [mem EXCEPT ![t] = Persisted(r, ok)]
  /\ UNCHANGED <<phase, toLoad, nextPos, drawn, now, crashes>>

(* The transitions into a terminal state: set it, persist, evict. *)
Finish(t, from, to) ==
  /\ Serving
  /\ mem[t].state \in from
  /\ LET r == [mem[t] EXCEPT !.state = to, !.fin = now]
     IN \E ok \in Outcomes :
          /\ Written(t, r, ok)
          /\ storeErr' = (storeErr \/ ~ok)
          /\ EvictInto([mem EXCEPT ![t] = Persisted(r, ok)])
  /\ UNCHANGED <<phase, toLoad, nextPos, drawn, now, crashes>>

MarkDone(t)    == Finish(t, {"running"}, "done")
MarkErrored(t) == Finish(t, Live, "errored")
(* Mutant: a task that has ended can still be cancelled. *)
CancelAnyway(t) == Finish(t, Live \cup Terminal, "cancelled")
Cancel(t)      == Finish(t, Live, "cancelled")      \* also MarkCancelled

(* DeregisterSession with cancel_queued: every queued task of the session  *)
(* is cancelled in memory.  The method neither persists nor evicts.        *)
DeregisterSession(s) ==
  /\ Serving
  /\ CancelQueued
  /\ mem' = [t \in Tasks |->
               IF SessionOf[t] = s /\ mem[t].state = "queued"
               THEN [mem[t] EXCEPT !.state = "cancelled", !.fin = now]
               ELSE mem[t]]
  /\ UNCHANGED <<phase, disk, storeErr, toLoad, nextPos, drawn, now, crashes>>

(* Time passes, up to the bound MaxClock. *)
Tick ==
  /\ now < MaxClock
  /\ now' = now + 1
  /\ UNCHANGED <<phase, mem, disk, storeErr, toLoad, nextPos, drawn, crashes>>

(* ClosePersistence, deferred by runBroker: transitions that still happen  *)
(* before the process exits stay in memory.                                *)
ClosePersistence ==
  /\ phase = "up"
  /\ phase' = "closed"
  /\ UNCHANGED <<mem, disk, storeErr, toLoad, nextPos, drawn, now, crashes>>

(* The process ends, at any moment: only the archive remains. *)
Gone ==
  /\ phase' = "down"
  /\ mem' = NoMemory
  /\ storeErr' = FALSE
  /\ toLoad' = {}
  /\ nextPos' = 1

Crash ==
  /\ phase # "down"
  /\ crashes < MaxCrashes
  /\ crashes' = crashes + 1
  /\ Gone
  /\ UNCHANGED <<disk, drawn, now>>

(* EnablePersistence lists the archive, then reads the entries one by one  *)
(* in directory order, which is any order.                                 *)
Restart ==
  /\ phase = "down"
  /\ phase' = "loading"
  /\ toLoad' = {t \in Tasks : disk[t].state # "absent"}
  /\ UNCHANGED <<mem, disk, storeErr, nextPos, drawn, now, crashes>>

(* One entry.  A task the previous process left live becomes errored, and  *)
(* that is written back; a failure to write ends the start-up.             *)
(* Mutant: the interrupted task is kept as it was. *)
ReloadAsLeft(t) ==
  [state |-> disk[t].state, fin |-> disk[t].fin, pinned |-> FALSE, pos |-> nextPos]
Reload(t) ==
  LET r == [state |-> disk[t].state, fin |-> disk[t].fin, pinned |-> FALSE, pos |-> nextPos]
  IN IF disk[t].state \in Live THEN [r EXCEPT !.state = "errored", !.fin = now] ELSE r

LoadTask(t) ==
  /\ phase = "loading"
  /\ t \in toLoad
  /\ disk' = [disk EXCEPT ![t] = File(Reload(t))]
  /\ toLoad' = toLoad \ {t}
  /\ EvictInto([mem EXCEPT ![t] = Reload(t)])
  /\ nextPos' = nextPos + 1
  /\ UNCHANGED <<phase, storeErr, drawn, now, crashes>>

LoadFails(t) ==
  /\ phase = "loading"
  /\ t \in toLoad
  /\ disk[t].state \in Live
  /\ FALSE \in WriteOutcomes
  /\ crashes < MaxCrashes
  /\ crashes' = crashes + 1
  /\ Gone
  /\ UNCHANGED <<disk, drawn, now>>

FinishLoading ==
  /\ phase = "loading"
  /\ toLoad = {}
  /\ phase' = "up"
  /\ UNCHANGED <<mem, disk, storeErr, toLoad, nextPos, drawn, now, crashes>>

Next ==
  \/ \E t \in Tasks : \/ Admit(t) \/ MarkRunning(t) \/ MarkDone(t)
                      \/ MarkErrored(t) \/ Cancel(t)
                      \/ LoadTask(t) \/ LoadFails(t)
  \/ \E s \in Sessions : DeregisterSession(s)
  \/ Tick \/ ClosePersistence \/ Crash \/ Restart \/ FinishLoading

Spec == Init /\ [][Next]_vars

-----------------------------------------------------------------------------
(* The type invariant.                                                     *)
TypeOK ==
  /\ phase \in {"down", "loading", "up", "closed"}
  /\ mem \in [Tasks -> Record]
  /\ disk \in [Tasks -> Stored]
  /\ storeErr \in BOOLEAN
  /\ toLoad \subseteq Tasks
  /\ nextPos \in Nat
  /\ drawn \subseteq Tasks
  /\ now \in Nat
  /\ crashes \in Nat

(* A long-lived broker does not leak: with a cap configured the table      *)
(* never holds more records than the cap and the admission limit together, *)
(* even though session.deregister and a failed MarkRunning end tasks       *)
(* without evicting and failed writes pin records (tasks.go:93-108).       *)
TableBounded == MaxTerminal > 0 => Cardinality(Held(mem)) <= MaxTerminal + Limit

(* What task.status answers for an id: the record in memory, else the      *)
(* archive (Table.Status, tasks.go:515-525); from the moment this broker   *)
(* closes its archive, what the next one will answer after its reload.     *)
Answer(t) ==
  IF phase = "up" /\ mem[t].state # "absent" THEN mem[t].state
  ELSE IF phase = "up" \/ disk[t].state \notin Live THEN disk[t].state
  ELSE "errored"

(* While the broker serves, every record in memory that is not pinned says *)
(* what its file says; the one exception is the task session.deregister    *)
(* cancelled, whose file still says queued (task_store.go:120: "writes     *)
(* before acknowledging admission or a transition").                       *)
MemoryMatchesDisk ==
  phase \in {"up", "loading"} =>
    \A t \in Tasks :
      (mem[t].state # "absent" /\ ~mem[t].pinned) =>
         \/ disk[t] = File(mem[t])
         \/ CancelQueued /\ mem[t].state = "cancelled" /\ disk[t].state = "queued"

(* Task.status never reports as queued or running a task that no goroutine *)
(* of this broker carries: the live tasks in memory were all admitted by   *)
(* this process, and eviction spares them (task_store.go:15-16).           *)
NoPhantomLiveTask ==
  /\ phase = "up" => \A t \in Tasks : disk[t].state \in Live => mem[t].state # "absent"
  /\ phase = "loading" => \A t \in Tasks : mem[t].state \notin Live

(* A record whose write failed is evidence the archive lacks: it stays in  *)
(* memory, unchanged, until the process ends, so no stale live state comes *)
(* back (task_store_test.go, TestFailedPersistenceCannotResurrectStale-    *)
(* Archive).                                                               *)
KeepsPinned ==
  \A t \in Tasks : (mem[t].pinned /\ phase' # "down") => mem'[t] = mem[t]

PinnedEvidenceKept == [][KeepsPinned]_vars

(* A terminal state that task.status has reported, and whose transition    *)
(* returned no storage error, is what task.status reports ever after:      *)
(* through eviction, crashes and restarts (task_store.go:120-122).         *)
KeepsReportedEnds ==
  \A t \in Tasks : (Answer(t) \in Terminal /\ ~mem[t].pinned)
                      => Answer(t)' = Answer(t)

ReportedEndIsFinal == [][KeepsReportedEnds]_vars

(* The archive implements the task life cycle, across evictions, failed    *)
(* writes, crashes and restarts: what the files say of a task only ever    *)
(* goes from queued to running to one terminal state (tasks.go:13-33).     *)
Archived == [t \in Tasks |-> disk[t].state]

Lifecycle == INSTANCE TaskLifecycle WITH status <- Archived

ImplementsLifecycle == Lifecycle!Spec

=============================================================================
