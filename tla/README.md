# Formal models of codex-dispatch

codex-dispatch runs a broker: one long-lived process per repository that takes
`dispatch.run` and `task.start` calls from several agents, runs each as a turn
of one shared `codex app-server` child, and keeps a table of tasks that
`task.status`, `task.cancel` and `task.result` answer from. A dispatch leaves
evidence of what its turn changed, which a later verification accepts or not.

These TLA+ modules model the broker from the start of its process to its end,
the child it shares, the wire to its clients, and the evidence of a dispatch:
what the code in `src/internal/broker`, `src/internal/codex`,
`src/internal/dispatch`, `src/internal/diff`, `src/internal/authority`,
`src/cmd/codex-dispatch/broker.go` and `src/scripts/clean_verify.py` does, the
invariants it relies on, and a proof of each of them.

Module and line references below are to files under `src/`.

## 1. The system

| Part | State it keeps | Operations | Talks to |
|---|---|---|---|
| Task table (`tasks.go`) | `tasks`, `order`, `sessions`, `storeErr`, per-task event ring; all under `Table.mu` | Start/Admit, MarkRunning, MarkDone, MarkErrored, Cancel, MarkCancelled, AppendEvent, Events, DeregisterSession, eviction | its archive; every handler |
| Task archive (`task_store.go`) | one JSON file per task, the handle `store` | EnablePersistence (reload), persistLocked, readStoredLocked, ClosePersistence | the file system |
| Dispatch handlers (`handlers_dispatch.go`, `handlers_task.go`, `handlers_session.go`) | a goroutine per run; `drainTurn`'s select | dispatch.run, task.start, task.cancel, session.deregister | table, semaphore, app-server client, the wire |
| Broker state (`handlers_broker.go`) | `scheduler` (the run slots), `taskCancels` | acquireRunSlot, releaseRunSlot, registerTaskContext, registerTurnHandle, cancelTask | all runs |
| Claims (`claims.go`, `handlers_claims.go`) | `claims`, `byPath`, `nextFence` under `ClaimStore.mu` | Acquire, Release, Renew, List, ValidateForTask, expiry | agents |
| App-server client (`appserver/appserver.go`) | `turns` (routing map), pending calls, per turn: inbox, events, result, `done`, `canceled`, `eventsLost`, `finalTurn` | StartTurn, the reader, the pump, TurnHandle.Cancel, failPendingRequests | the codex child, drains |
| App-server pool (`appserver_lifecycle.go`, `appserver/appserver.go`) | the one instance, `appserverMu`; per instance `pending`, `writeMu`, `done` | EnsureAppServer, Spawn, initialize, thread and turn calls, verifyThreadSettings, reapInstance, CloseAppServer | child process |
| Broker life cycle (`lifecycle.go`, `server.go`, `codex/codex.go`, `cmd/codex-dispatch/broker.go`) | PID file, address file, idle timer, serve context | start, serve, idle out, shutdown, EnsureBrokerRunning | other brokers, clients |
| RPC and client (`rpc.go`, `server.go`, `client.go`) | frames under way, partial chunked events | framing, cutting and joining of large events | clients |
| Dispatch command, authority, diff (`dispatch/run.go`, `diff/snapshot.go`, `diff/diff.go`, `authority/authority.go`) | baseline in memory, private store, run directory | snapshots around a turn, sealing, export, withdrawal | the working tree, codex, the verifier |
| Clean verification (`scripts/clean_verify.py`) | what it read | check of the exports against the private records | run directories, stores |
| Policy, credentials, pick, prompt, result, MCP, command line | files and requests | sequential commands around one dispatch | broker client |
| Other scripts (`scripts/*.py`) | active processes, file locks, evidence files | plan runner, review and promotion gates | git, broker |

What is hard here:

- every run is a goroutine that crosses ten or so unlocked points, and at each
  one a `task.cancel`, a hang-up, a deadline, a full stop of the broker or
  codex itself may step in;
- the same turn is ended from three sides (completion, cancel, death of the
  child) and its channels have one legal closer;
- the table lives twice, in memory and in the archive, and memory evicts;
- a write may fail, and the process may end between two writes;
- one reader serves every turn, so one slow consumer could stall all of them;
- codex promises nothing: it may never complete a turn, may ignore an
  interrupt, may grant a thread other settings than were asked for, and may
  write to the very directory its run's evidence is exported to;
- two files without a lock decide which broker serves and where it is found;
- a large event is cut to a limit that counts bytes after encoding, and is put
  together again from frames that other frames come between;
- the working tree is shared by all dispatches and the user, and is read file by
  file while they edit it.

What makes each part correct, in the order the modules state it: the archive and
the memory never disagree about an unpinned record; a reported end is final; a
full or failing store never loses evidence and never grows without bound; a slot
is held exactly by the runs between acquire and release; what a run reports is
what the table says; a drained turn is over or interrupted; stopping the broker
does not wait for a turn to complete; a replayed ring is exact; a lease excludes; a consumer
receives its own turn, complete or marked; a live child is replaced by nobody
and a dead one by one run only; a turn runs in the sandbox that was asked for; a
broker that holds the PID file keeps it, and cleans up unless it crashes; a
client is given the events of its call whole, in order, and then an end; what a
dispatch seals, reports and has verified is the change its own turn made.

## 2. Modules

| Module | Models | Composition |
|---|---|---|
| `TaskLifecycle` | the abstract life of a task: absent, queued, running, one end | what the archive implements and what `Dispatch` runs on |
| `TaskTable` | table and archive | implements `TaskLifecycle` (`ImplementsLifecycle`, with `status <- Archived`) |
| `Dispatch` | runs, slots, cancellation, shutdown | `Table == INSTANCE TaskLifecycle`; codex reduced to what a run observes |
| `TurnMux` | the delivery `Dispatch` abstracts to one `closed` flag | on its own |
| `AppServerPool` | the child `TurnMux` takes for granted: its start, calls, death, replacement and reaping | on its own |
| `BrokerLifecycle` | broker processes over the PID and address files, the idle timer, clients that start one | the runs of `Dispatch` reduced to the set of live tasks |
| `EventRing` | the ring, the replay and the notifications of one task | refines the part of a record `TaskTable` leaves out |
| `EventStream` | a whole call: ring, frames, connection, client | extends `EventRing` and implements it (`CallImplementsRing`) |
| `Claims` | leases | on its own |
| `Evidence` | dispatches over one working tree, their records, and the verifier | on its own; the turn reduced to its edits |
| `TaskTableProofs`, `DispatchProofs`, `TurnMuxProofs`, `AppServerPoolProofs`, `BrokerLifecycleProofs`, `EventStreamProofs`, `ClaimsProofs`, `EvidenceProofs` | theorems | each extends its module; `EventStreamProofs` is about the ring as well as the call |
| `MC*` | the instances TLC runs | each extends its module |

### TaskTable

`mem` is `Table.tasks` with, in each record, its place `pos` in `Table.order`,
`state`, `fin` (FinishedAt) and `pinned` (persistenceFailed). `disk` is the
content of the archive, `storeErr` is `Table.storeErr`. `phase` is the broker's:
`loading` while EnablePersistence reads entries one at a time (a broker may end
in the middle, and `LoadFails` leaves it without a table), `up`, `closed` after
ClosePersistence, `down` between processes.
Every method holds `Table.mu` from its first read to its last write, so each
is one action, and that action includes the write and the eviction the method
ends in: `Persisted(t, r, ok)` is persistLocked with its failure branch
(the record becomes errored unless cancelled, and is pinned), `EvictInto` is
evictTerminalLocked's two passes. Three callers differ and the model
keeps the difference: a failed MarkRunning and DeregisterSession do not evict, and
DeregisterSession does not write. A crash is the end of the process at any
moment between two actions; `persistLocked` writes a temporary file and renames
it, so no torn file is ever loaded and a failed write leaves the old file.
`Answer` is Table.Status: memory first, then the archive.

### TaskLifecycle

Five transitions over one status per task, taken from the guards of the
table's methods: an end is reached from `queued` or `running` and never left;
`Complete` only from `running`.

### EventRing

`ring`, `head`, `total` are the record's fields. `Produce` chooses the next event
(a codex notification through relay or one of the broker's own task.* events
through emit), `AppendEvent` is appendEventOwned with its ErrTaskNotFound
branch, `Notify` sends the seq it returned; `Finish` and `Evict` may come
between any of them. `Events(since)` is the replay, walked back from `head` as
the code walks it.

### Dispatch

`pc[t]` names the place of a run's goroutine: accepted (a task.start whose handler has
admitted the task and not yet reached wg.Add), admitted, registered (its context in
`taskCancels`), waiting for a slot, slotted, running, setup (waiting for `appserverMu`), greeting
(the handshake of a new child, under that lock), then a call being written and a call
unanswered for each of the sandbox probe, thread/resume and thread/start, then
submitting and starting (turn/start written, unanswered), started (answered
but the handle not yet registered), draining, one of the recorded outcomes,
releasing (the deferred release), cleaning (the deferred clean-up of the task
context), done. `EnsureAppServer` waits for the lock and looks at no context, and a
frame is written (`WriteFrame`) whatever the context says; a call's answer is awaited
together with the context (`CallAnswered`, `CallAbandoned`, `GreetingCut`), as in the code. `CtxDone` is `ctx.Err() # nil` of the task context, which for a
`dispatch.run` derives from the request and for a `task.start` from the
broker's lifetime. drainTurn's select is three actions, `DrainEvents`,
`DrainCtx`, `DrainDeadline`, with the choice left free whenever several are
ready; `DrainEvents` keeps the code's second look at the context when the channel
was closed. task.cancel is four steps: the table's transition, the snapshot of
the registration, the context's cancel, and the handle's Cancel. `status` moves only by
the actions of `TaskLifecycle`, or by none when the method refuses; the model also
keeps MarkDone's re-read of the actual state. The shutdown closure is `Shutdown`
(cancel), `DetachedWait`, `Exit`. `Admit` and `Launch` are two steps of task.start's handler, with the
shutdown and the wait free to come between; a task that had not been launched when
the wait returned is in `late`.

### TurnMux

A frame is its turn and its number. The child writes into `pipe`, `ReadFrame`
takes a frame and looks up its thread under `turnsMu` (`LookUp`), and the steps
that follow are routeNotification's in order: stash the final Turn, offer the frame
without waiting (`Offer`), mark the turn done, remove the route, close the
inbox. A turn's pump forwards, marks a loss once, delivers the final Turn and
closes the two consumer channels. TurnHandle.Cancel is its compare-and-swap, the
delete of the route and the signal. StartTurn's refusal, error and give-up
paths are there, and so is the death of the child at any point with the reader's
clean-up (`ReaderEnds`, failPendingRequests).

### AppServerPool

`lock` is `appserverMu`, `pool` the instance in `BrokerState`; `child`,
`reader`, `writer` (`writeMu`), `pending` and `turns` belong to an instance. A call
is three steps, as `call` is: the entry in `pending`, the lock and the write
of the frame (which does not look at the context), the wait for answer, context
or `done`. `EnsureAppServer` is `UseInstance` or `SpawnInstance`, and the
handshake of a new child runs with the lock held; a failed one is reaped with it
still held. `Verifies` is verifyThreadSettings over the fields codex answers with,
and `Grants` says what such a thread may do, independently of what was compared.
A child dies at any moment (`ChildDies`, `EndOfStdout`); the reader then sweeps `pending`
(`FailPendingRequests`) and later closes `done`, so that a call may slip in between.
`StartClose`, `KillChild`, `EndClose` are reapInstance and reapChild.

### BrokerLifecycle

Every operation on the two files is a step: creating `broker.pid` and writing
the PID into it are two, reading an owner and removing the file are two, and so are
the look at one's own address or PID and its removal. A PID that was reused by
another process is not represented. `armed` and `callback` are the idle timer and
its goroutine, which decides (`IdleChecks`) and shuts down (`IdleStops`) in two
steps. `Tear` is the body of the shutdown function that `once` runs. A client is
EnsureBrokerRunning followed by the call it wanted to make, which reads the address
again. `crashed`, `contended` and `late` are history variables; a broker is `contended`
when it starts while another is at the PID file (`AtPIDFile`): acquiring it, or about to
remove a file that is no longer its own.

### EventStream

`outgoing` are the frames the handler has still to write, `pipe` the body of the
response. `cut` is the loop of marshalTaskEventChunks: its size, total, index, start and
frames; `BeginCut` enters it, `AddChunk` is an iteration that keeps its frame, `Halve` one that
finds it too large, halves the size and starts over. `FrameSize` has the base64 growth and
the digits of index and total, so that a later chunk may be too large where an earlier
one was not. Answers and errors are not cut by the code, and taken to be within the limit.
A payload is the sequence of its bytes' names, so a joined event can be
compared with the one emitted. Of an assembly the model keeps how many parts came
and what they join to (`Joined`), where the code keeps the parts and joins them last.
`ReadChunk`, `ReadBadLine` are the reassembler's acceptance and errors (and ReadLine's), `ReadAnswer`,
`ReadEnd`, `CtxEnds` the ends of dispatchRunHTTP. `WireFault` loses, repeats or
swaps frames, up to `MaxFaults`.

### Evidence

`at` is where runWithContext is; `held`, `seen`, `started`, `exit`, `diffPath` are
its memory, which `Gone` clears when the process ends. `private` is the create-only
store of a dispatch, one field per file (PublishFile is a hard link that fails on an
existing name), `public` a run directory, which two dispatches may share
(`CODEX_RESULT_DIR`) and every turn can write to (`Tamper`). A snapshot lists the
files, then reads them one by one while edits go on. `hidden` are the files git would not list,
ignored and not in the index: they are left out of a snapshot, and `Relist` (an edit of .gitignore, git add -f,
git rm --cached) moves a file in or out at any time. `Withdraw` is the removal whose
error the code drops: it may fail, and the dispatch is then in `stuck`. The verifier reads HEAD and
descriptor, later the patch; `Accepted` is its decision. `touched` and
`left` are history variables. Two reductions: an edit happens only while some
dispatch could tell it, and HEAD moves only between its two readings. A turn
forges only what is read back: a patch, and another dispatch's descriptor. `Relist`, `Edit` and a
move of HEAD share one bound.

### Claims

A claim is named by its fencing token: `Acquire` draws a fresh one and a claim
keeps it for life. Each method first reaps (`Reaped`, `ReapedIndex` are
expireLocked), then acts on the reaped pair. `crowded` is a history variable: the owners
that have ever held two claims at once. A renewal in `Acquire` picks the claim as
the code does: the owner's claim on the first of the paths, in the order they
were asked for, that is already its own; any of the claims on those paths may come
first. `Look` is the reaping that List, ValidateForTask and the refusals leave behind.

## 3. What is checked

All runs except the one marked *violation* pass. Sizes are distinct states.

| Run | Instance | States | What it shows |
|---|---|---|---|
| `TaskTable_archive` | 3 tasks of 2 sessions, limit 2, cap 1, TTL 1, clock to 3, failing writes, 1 restart, no cancel_queued | 368 151 | memory matches archive, no phantom live task, reported ends final, the archive implements the life cycle |
| `TaskTable_pool` | 4 tasks, limit 2, cap 1, cancel_queued, failing writes, 2 restarts | 205 501 | bounded table, pinned evidence kept |
| `TaskTable_deregister` (violation) | 3 tasks, no failure, no restart | | section 5 |
| `Dispatch_safety` | a dispatch.run, sandboxed, and a task.start, both resuming, on 1 slot; cancels, hang-up, failing writes, shutdown; no deadline | 299 996 | slots and ends, wire, orphans, detached drain, cancel wins |
| `Dispatch_progress` | the same on 2 slots with a deadline, one resuming, one cancellable, no failing writes; fair | 78 480 | shutdown proceeds, no slot is pinned, cancelled runs return, each under named assumptions |
| `Claims_leases` | 2 owners, 2 paths, ttl 1 or 2, 4 claims, clock to 4 | 2 932 | index sound, exclusive for single holders, index kept, no revival |
| `TurnMux_delivery` | 2 turns on 2 threads, full inbox and event buffers, one turn abandonable, child may die | 354 151 | own result and frames in order, complete or marked, no leaked route |
| `TurnMux_progress` | the same, fair, 3 frames in one turn | 49 899 | no head-of-line blocking, drains end |
| `AppServerPool_reap` | 2 runs in different sandboxes, one resuming, one impatient; 2 instances, one of which asks; 20 answers; shutdown; fair | 408 325 | no child astray, no turn severed, turns confined, calls end, detached instances reaped |
| `BrokerLifecycle_files` | 2 brokers, 1 client, files of an earlier crash or version, 1 fault; fair | 432 446 | the PID file is kept, only a crash leaves files, idle cuts only late tasks, a quiet broker leaves |
| `EventStream_call` | ring of 2, 3 events of 3 sizes, limit 10, chunks from 8, pipe of 2, 1 wire fault; fair | 523 842 | exact replay, whole events in order, chunks that fit and agree, the call ends |
| `Evidence_runs` | 2 dispatches, 2 run directories, 1 file, hidden or not, 1 edit (of the file, its listing or HEAD), 1 forgery | 3 712 576 | sealed evidence, earlier work excluded, no stale patch, verification sound |

Why the bounds are enough for what is asked:

- *TaskTable.* Cap 1 and limit 2 make a third task the first that needs an
  eviction and the fourth the first that needs one while a pinned record cannot
  be taken; the clock to 3 with TTL 1 lets a record be young, at the limit and
  old; one restart in `archive` already reloads any mixture of live, ended and
  evicted tasks, and two in `pool` reload what an earlier reload had written.
  Tasks of one session are interchangeable, which the symmetry of `pool` uses;
  that run checks no liveness.
- *Dispatch.* Two runs on one slot is the smallest instance with a run waiting for
  another's slot, or for a lock the other holds, and the two differ in kind. More runs add only
more waiters. In `progress` both have a slot, so that one may wait for `appserverMu`
behind the other's handshake; a run waiting for a slot waits for nothing the
model leaves out.
- *Claims.* Two owners and two paths are what a conflict and a renewal over
  another claim's path need; four claims let both owners hold two.
- *TurnMux.* Buffers of one are full after one frame; three frames in one turn fill the
  event buffer, the pump's hand and the inbox, which is the state in which a
  waiting reader would block. Both turns have a thread of their own (see section 5).
- *AppServerPool.* Two runs are a run that starts, dies or is drained while another looks;
  the second instance is the replacement of the first. The answers hold
  each way of going beyond what was asked, alone, in both sandboxes.
- *BrokerLifecycle.* Two brokers race for the files; the first states already hold what a
  third one, now dead, left behind. One crash or failed write shows each step failing
  once. The client starts one broker, the other is started by hand, at any time.
  What a third live broker adds, two that quarrel over the file before it comes, is
  not in the run; `PIDFileIsSound` (section 4) holds for any number of them.
- *EventStream.* Three events in two slots wrap. With limit 10 and numerals that
  grow from 2 on, size 1 is one frame, size 10 is halved once and leaves three chunks with a shorter
  last, and size 12 is halved again when its third chunk proves too large, after two were
  kept.
- *Evidence.* One file is enough, since all properties speak of single files, and two
  dispatches in one or two directories are what a stale or forged export needs. One edit is
  one change of content, listing or HEAD in the window of a snapshot. The theorems of
  section 4 have none of these bounds.

`CHECK_DEADLOCK FALSE` is set where the instance really stops: each of these
systems ends when its bounded work is done (all runs returned, clock at its
bound, child dead, brokers gone, dispatches over).

### Fairness

`Dispatch!FairSpec`: weak fairness for the steps of a run, of a canceller and of
detached.Wait that wait for nothing but the scheduler, a channel that is ready or a context
that is done, because the Go scheduler runs every runnable goroutine; and for the steps that
follow an emitted event, if the run is detached or its client has hung up. What the code
waits for without a bound is not assumed there, but named, and each property says which of it
it needs:

- `ClientsRead`: a connected client takes the events of its run (`server.go:344` sets no write timeout);
- `PipeDrains`: codex reads its stdin (`appserver.go:751` looks at no context);
- `CodexGreets`: a handshake ends, well or badly (`appserver_lifecycle.go:141` holds the lock through it);
- `CodexAnswers`: codex answers calls before the turn and begins a turn;
- `DeadlinesPass`: a deadline is configured, and timers fire.

`CancelledRunReturns` needs the first three, `ShutdownProceeds` the second and third, and
`NoSlotPinned` all five; without any one of these the property fails (TLC has a
counterexample for each). Nothing makes codex complete a turn or obey an interrupt, and
`CancelledRunReturns` and `ShutdownProceeds` hold if it answers no call but the handshake.

`TurnMux!FairSpec`: weak fairness for the reader, each pump and each canceller.
The consumer is assumed to receive inside `DrainTerminates` only;
`CompletionReachesPump` holds with a consumer that never receives.

`AppServerPool!FairSpec`: weak fairness for the writer's lock and the failing and
aborted ends of calls, the reader, and the reaper with its 5 s and its kill. Codex need
not answer, and no client need give up. `BrokerLifecycle!FairSpec`: weak fairness for
publication, the idle timer, the steps of a shutdown, and the end of a detached task
whose context is cancelled, which `CancelledRunReturns` of `Dispatch` and the
fairness there justify. `EventStream!StreamFairSpec`: weak fairness for the handler,
the server's writer, and the client's read loop; the run itself need not go on.

### The properties

TaskTable: `TableBounded`, `MemoryMatchesDisk`, `NoPhantomLiveTask`,
`PinnedEvidenceKept`, `ReportedEndIsFinal`, `ImplementsLifecycle`.
Dispatch: `RunsAccounted` (types, slots, ends), `WireMatchesTable`,
`NoOrphanAfterDrain`, `DetachedDrained`, `CancelWins`, `CancelledRunReturns`,
`NoSlotPinned`, `ShutdownProceeds`.
Claims: `IndexSound`, `ExclusiveSingly`, `IndexKept`, `ExpiredStaysExpired`.
TurnMux: `OwnDelivery` (types, own result, own frames in order), `CompleteOrMarked`,
`RouteHoldsLive`, `CompletionReachesPump`, `DrainTerminates`.
AppServerPool: `InstancesSound` (types, no child astray), `RecycleNeverSevers`,
`TurnsConfined`, `CallsEndWithChild`, `DetachedReaped`.
BrokerLifecycle: `PIDFileSound` (types, the PID file is kept), `FilesOutlivedOnlyByCrash`,
`IdleCutsOnlyLateTasks`, `QuietBrokerLeaves`.
EventStream: `ReplayExact`, `StreamFaithful` (types, seqs in order, whole events, a
faithful wire), `ChunksAgree`, `CallEnds`.
Evidence: `SealedEvidence` (types, terminal records, reports), `PreexistingExcluded`,
`NoStalePatch`, `VerifiedIsWhatWasLeft`.
Each is stated in words above its definition. For each property of a passing run a
plausible fault of the code is kept beside the definition it alters ("Mutant:"),
and TLC finds the property violated with it; the pairs are in `PROJECT.json`.

## 4. What is proved

For every value of the constants that satisfies the module's assumption, with the
proofs checked by TLAPS:

| Theorem | Property |
|---|---|
| `TaskTableProofs!TypeCorrect` | the type invariant |
| `TaskTableProofs!ArchiveAgrees` | `MemoryMatchesDisk` |
| `TaskTableProofs!NoPhantoms` | `NoPhantomLiveTask`, assuming `~CancelQueued` |
| `TaskTableProofs!PinnedStays` | `PinnedEvidenceKept` |
| `TaskTableProofs!ArchiveImplementsLifecycle` | `ImplementsLifecycle` (the refinement) |
| `TaskTableProofs!EndsAreFinal` | `ReportedEndIsFinal`, assuming `~CancelQueued` |
| `TaskTableProofs!TableStaysBounded` | `TableBounded` |
| `DispatchProofs!RunsAreAccounted` | `RunsAccounted` |
| `DispatchProofs!WireIsHonest` | `WireMatchesTable`, assuming `~Deadline` |
| `DispatchProofs!NoDrainOrphans` | `NoOrphanAfterDrain` |
| `DispatchProofs!DetachedAreDrained` | `DetachedDrained` |
| `DispatchProofs!CancellationWins` | `CancelWins` |
| `TurnMuxProofs!RoutesDoNotLeak` | `RouteHoldsLive` |
| `TurnMuxProofs!DeliveryIsOwn` | `OwnDelivery`, assuming that no two turns share a thread (`Alone`) |
| `TurnMuxProofs!NothingLostUnmarked` | `CompleteOrMarked`, assuming `Alone` |
| `ClaimsProofs!TypeCorrect` | the type invariant |
| `ClaimsProofs!IndexIsSound` | `IndexSound` |
| `ClaimsProofs!SinglyExclusive` | `ExclusiveSingly` |
| `ClaimsProofs!IndexStays` | `IndexKept` |
| `ClaimsProofs!NoRevival` | `ExpiredStaysExpired` |
| `EventStreamProofs!RingInvariant` | types, `RingHoldsNewest`, `WireInOrder` |
| `EventStreamProofs!ReplayIsExact` | `ReplayExact` |
| `EventStreamProofs!CallImplementsRing` | `StreamSpec => Spec` (the refinement) |
| `EventStreamProofs!ReplayExactInCall` | `ReplayExact` in a whole call |
| `EventStreamProofs!StreamIsFaithful` | `StreamFaithful` |
| `EventStreamProofs!ChunksAlwaysAgree` | `ChunksAgree` |
| `BrokerLifecycleProofs!PIDFileIsSound` | `PIDFileSound` |
| `BrokerLifecycleProofs!FilesAreCleanedUp` | `FilesOutlivedOnlyByCrash` |
| `BrokerLifecycleProofs!IdleSparesSeenTasks` | `IdleCutsOnlyLateTasks` |
| `AppServerPoolProofs!InstancesAreSound` | `InstancesSound` |
| `AppServerPoolProofs!RecyclingNeverSevers` | `RecycleNeverSevers` |
| `AppServerPoolProofs!TurnsStayConfined` | `TurnsConfined` |
| `EvidenceProofs!EvidenceIsSealed` | `SealedEvidence` |
| `EvidenceProofs!EarlierWorkIsExcluded` | `PreexistingExcluded` |
| `EvidenceProofs!PatchesAreWithdrawn` | `NoStalePatch` |
| `EvidenceProofs!VerificationIsSound` | `VerifiedIsWhatWasLeft` |

The assumptions matter: with cancel_queued the two properties of the table
are false (first entry of section 5), so is `WireMatchesTable` with a deadline
(the second), and so is `OwnDelivery` when turns share a thread (the fourth).

*TaskTable.* `MemoryMatchesDisk` alone is not inductive. Reloading needs that an entry
still to load has no record (`LoadingSound`), admission that a drawn id has
neither record nor file (`KnownDrawn`), eviction that a pinned record has ended
(`PinnedEnded`), and `NoPhantomLiveTask` that a serving broker holds every live
file's task (`LiveHeld`). Their conjunction with the type is `Inv`. Eviction
is dealt with once (`Trimming`: each record is kept, or dropped if it has ended and is
not pinned), and so is the write; each action then has one lemma. The action
properties and the refinement follow step by step from `Inv`. `TableBounded` needs three facts more
(`Bounded`): while a record is pinned nothing is admitted (`PinnedBars`), so an
admission finds every ended record evictable; what the table holds is finite; and a
table that is being read back holds at most MaxTerminal records, since the reload ends
with an eviction per entry. The count is then of two disjoint parts, what lives (fewer
than Limit before an admission) and what has ended (at most MaxTerminal after one).

*Dispatch.* The invariant goes with the goroutine of a run: at each of its lines the
table says what the run last made it say, or cancelled (`Journey`), since only
task.cancel moves another's task. That alone makes MarkDone's and dispatchFailure's
reports true. The slots are counted by the set of runs that hold one (`Counted`);
running tasks are among them until the exit, after which none begins (`Capped`). That no
turn is left behind needs that a closed channel means an ended or interrupted turn
(`Interrupts`), and the drain that nothing but the late runs is left (`Stopped`): a run launched
while the wait goes on is waited for, wherever its admission came.

*TurnMux.* `Inv` says who may end a turn and that he has removed, or will remove, its
route (`Ending`), and how a pump ends (`PumpSound`); `RoutesDoNotLeak` follows, shared
threads or not. For the rest, the frames on their way to a consumer are one line of six
stages (`Line`: received, events channel, the pump's hand, inbox, the reader's frame, the
pipe). Every step passes one frame on, drops one, or lets one enter; three lemmas on
lines (`Passes`, `Drops`, `Enters`) say what that does to order and contents, and
one lemma per action that it is such a step. Order is then kept (`Lined`), and on threads of
their own each turn's stages hold its own frames (`Owned`). Completeness adds that a
turn nobody gave up is routed until it is done (`Reached`), that nothing of it follows
its completion (`Passed`), that a written frame is on its line unless the loss is
known, and a told loss is marked there (`Kept`), and that a pump and a drain end with empty
queues (`Emptied`).

*Claims.* The invariant is stated of any pair of maps (`Good`), because each method
acts on what expiry leaves: `Reaping` shows it of the reaped pair, then each method
has one lemma. Exclusion needs that a claim is indexed on each of its paths
unless its owner has held two (`Listed`), which needs that an owner outside `crowded`
holds at most one (`Single`).

*EventRing.* The ring is described slot by slot: the entry of age k is at
`head - k` modulo the ring. Lemmas on remainders (`Distinct`, `WholeTurn`, `Shift`) say that
the slots of different ages differ and that one append moves every age by one. The
replay follows by arithmetic from there. A step of the call that touches the ring is
one of its steps, every other leaves it alone.

*EventStream.* First the loop: `Looped` says of `cut` that its frames are the first pieces of the
payload at the present size, none too large, and that it stands behind them, so that a
halving leaves nothing of the round before. Where the halving ends (`ChunkSize`) is a definition of
the proof, not of the model: the first size reached at which every piece fits; there is one
because a piece of one byte does (`RoomForOne`, from the assumption that the
limit has room for it). When the loop is through, its size is that one
(`LoopEnds`, `ChunkSizeIs`) and its frames are all the pieces, numbered (`Numbered`), of which
`ChunksAgree` follows (`AgreeFrom`). The pieces split the
payload (`Pieces`) and join to it (`PiecesJoin`). A frame is then a piece of one event
(`IsFrame`), which its bytes' names tell. The invariant says that every frame on its way is of an
event that was sent (`Framed`), that an assembly holds the first pieces of the event of its
seq (`Assembled`), and, as long as the wire did no wrong, that what is on its way goes on
exactly where the assembly ends, frame after frame, up to the last event sent
(`InOrder`: `Chained`, `Complete`). Reading a frame takes the first link of that chain;
writing one moves it from one part of the chain to the other; the next event adds its
frames at the end (`ChainRead`, `ChainPrefix`, `ChainJoin`). Assemblies under seq 0, of events
whose record was evicted, may mix on a faulty wire, and are excluded from `Assembled` as they
are from `StreamFaithful`.

*BrokerLifecycle.* Which files may name whom is told by where a broker is
(`AddrNamed`, `PIDNamed`). `UncontendedKeepsPID` needs to be followed back to the first
step at the PID file (`Undisturbed`): for an uncontended broker the file it removes is
stale, the file it created is still empty and its own when it writes, nobody else
creates or removes one meanwhile, and whoever is releasing a file releases its own.
The last of these is not true of the code with three brokers, and the proof failed there:
of two that start together, one may be about to remove a file the other has already
replaced (TLC shows it with `Brokers <- ThreeBrokers` and no client, when `AtPIDFile` counts
only the acquiring). A broker that starts at that moment is now counted as contended
(fifth entry of section 5).

*AppServerPool.* `RecycleNeverSevers` needs that an instance is detached only when its
reader is done, and that a done reader's child is gone or mute; `NoChildAstray` needs
that only the holder of the lock greets a child. `TurnsConfined` rests on
`VerifiedIsAllowed`: whatever passes `Verifies` grants no more than was asked.

*Evidence.* The private records of a dispatch are written once and in order, each from
memory that agrees with the earlier ones (`BaselineHeld`, `PatchSealed`, `ResultSealed`);
an outcome of 0 or 4 is decided by the sealed patch (`OutcomeSound`); a patch in a run
directory belongs to a dispatch of that directory that still stands by it (`ExportsOwned`). That
earlier work stays out needs that a file neither written nor listed otherwise since the
first snapshot began is in both snapshots alike (`UntouchedAlike`). `PatchApplies` and `EmptyPatch` are the two facts
about trees and patches the rest uses. `AbsenceAssumption` says that the marker
of an absent record is no record.

Only model-checked: liveness, that is everything under fairness (TLAPS 1.4.5 proves
neither `ENABLED` nor liveness under fairness). Every invariant and every action
property of the runs has a theorem. No module declares a recursive operator.

## 5. Where the code and its texts disagree

With a run:

1. `tasks.go:771` DeregisterSession ends tasks without writing them
   (`task_store.go:120` says a transition is written before it is acknowledged).
   After an eviction the archive answers `queued` for a task reported cancelled.
   Run `TaskTable_deregister`.

In the models, each shown by TLC on an instance or a property that is not kept:

2. `handlers_dispatch.go:295` ignores MarkErrored's refusal on the deadline path,
   and reports errored for a cancelled task; `handlers_dispatch.go:316-327`
   describes that very fault for the completed path. (`WireMatchesTable` with
   `Deadline = TRUE`.)
3. `claims.go:146` lets a renewed claim list a path that another of the owner's
   claims indexes; `claims.go:14-17` promises the path stays blocked.
   (`ExclusiveSingly` without its restriction to single claims.)
4. `appserver.go:599` routes by thread id only, so late frames of an
   abandoned or cancelled turn reach the next turn of the thread, whose completion
   `appserver.go:612` means to be ignored. (`OwnDelivery` with both turns on one thread.)
5. `lifecycle.go:42-44`: a PID file that is created but not yet written reads as
   malformed and is removed, so two brokers that start together may both serve,
   against `lifecycle.go:18-20`. (`UncontendedKeepsPID` for contended brokers: b1
   creates the file, b2 finds it empty, b1 writes and serves, b2 removes it and
   creates its own.) The release has the same gap between its look and its removal
   (`lifecycle.go:53-55`): b1, which lost its file in that gap, removes the one b3
   created after b2 had died, although b3 started with nobody acquiring.

Met while reading, in the models or beside them, without a run:

- `appserver.go:1218`: a context cancelled while turn/start is unanswered gives
  up without turn/interrupt; the turn runs unobserved. `Dispatch` has the
  behaviour (`StartAbandoned`).
- `cmd/codex-dispatch/broker.go:67-73` says every synchronous drain observes the
  serve context; their contexts do not derive from it, so they may be severed at the
  exit (`Exit` in `Dispatch`).
- `handlers_broker.go:146-150`: the deadline covers the drain only. A run that waits for
  `appserverMu`, for the handshake, for thread/start or for the answer to turn/start keeps
  its slot beyond it, and the first of these waits ignores cancellation too (`LockFree`,
  `CodexGreets`); so does a write to a pipe nobody reads (`PipeDrains`) or to a
  client that stays connected and does not read (`ClientsRead`).
- `cmd/codex-dispatch/broker.go:67-73` has detached.Wait return because every drain observes
  the cancelled context; a detached run that waits for `appserverMu` behind the hung handshake
  of a dispatch.run, whose context is its request's, does not, and holds up the shutdown.
- `handlers_task.go:104-120`: a task admitted and not yet launched is in no wait group; if
  the wait returns first, its run starts on a broker that closes its child (`late`).
- `snapshot.go:59`: an ignored file that the turn makes git list enters the patch with
  content nobody touched (`PreexistingExcluded` excepts it).
- `run.go:187`: a patch that cannot be removed stays, and nobody is told (`stuck`); one that
  an earlier dispatch left in a shared directory stays when a run is cancelled.
- `rpc.go:152`: an answer over the limit is not cut, and ends the call at the reader.
- `tasks.go:99-100` says the cap evicts the oldest by end; it walks insertion order.
- `tasks.go:602` says seqs start at 1; an append after eviction sends seq 0
  (`WireInOrder` allows exactly that). `tasks.go:606` says every event is
  written to stdout.log first; the broker's own task.* events are not.
- `claims.go:17-18` says tokens increase per path; the counter is the store's
  and a renewal of a path taken over from another claim may carry a lower one.
- `appserver.go:409`: Cancel after the turn is done does not release a pump
  that is blocked on a consumer that left.
- `cmd/codex-dispatch/broker.go:96`: the shutdown RPC's `force` is ignored.
- A task.start is still accepted after detached.Wait has returned (`late`).
- The claim handlers exist but the broker command does not register them.

## 6. Not modelled, and the plan

Not modelled: the policy (a pure decision over one request), the credential files
(operating-system calls), the MCP loop, candidate picking, prompts and results, the
command line and the hook (sequential text or file work without protocol), the plan
runner (a program of its own, of the same size as the broker's models again), and the review and
promotion scripts. `PROJECT.json` gives each one's reason.

In the modelled parts these abstractions hold: payloads, messages and
prompts are not represented (in `EventStream`, by the names of their bytes); in
`Dispatch` the child is what a run's handshake, calls and turn observe of it, each call
ending as the child decides, and `AppServerPool` has the child; the reader's matching of answers to calls is taken as
correct; the queue of a Go channel's waiters is fairness. Of the life cycle, HTTP and the
listener's grace period are left out, and PIDs are never reused. Of the evidence, the saved index and
the closure of git objects, `baseline-pre.patch`, `effective-workdir.txt`, statistics, and
ownership and mode checks are left out; the verifier's work tree is the tree it applies
the patch to.

What is next, in order:

1. `PlanRunner`: waves, locks, cancellation against process start, the deadline.
2. Proofs: that the runs of `Dispatch` and the turns of `TurnMux` agree on what a
   drained turn is, once a module composes the two.
3. The policy as a pure operator against a reference, if it earns it.
