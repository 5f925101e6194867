--------------------------- MODULE TaskTableProofs ---------------------------
(***************************************************************************)
(* Theorems about TaskTable, for any tasks, limits, eviction policy and    *)
(* bounds.  The invariant adds to the type what ties the memory, the       *)
(* archive, the ids drawn and the entries still to load together.          *)
(***************************************************************************)
EXTENDS TaskTable, FiniteSetTheorems, TLAPS

(* A pinned record has ended; only a serving broker pins one. *)
PinnedEnded ==
  \A t \in Tasks : mem[t].pinned => mem[t].state \in Terminal /\ Serving

(* An id with a record or a file was drawn: it is never drawn again. *)
KnownDrawn ==
  \A t \in Tasks : mem[t].state # "absent" \/ disk[t].state # "absent" => t \in drawn

(* Entries are left to load only while loading; they have a file and no    *)
(* record yet, and every live file is among them.                          *)
LoadingSound ==
  /\ phase # "loading" => toLoad = {}
  /\ phase = "down" => mem = NoMemory
  /\ phase = "loading" =>
       \A t \in Tasks : /\ mem[t].state \notin Live
                        /\ disk[t].state \in Live => t \in toLoad
                        /\ t \in toLoad => mem[t] = Absent /\ disk[t].state # "absent"

(* Without cancel_queued a serving broker holds every live file's task. *)
LiveHeld ==
  (~CancelQueued /\ phase = "up") =>
     \A t \in Tasks : disk[t].state \in Live => mem[t].state # "absent"

Inv ==
  /\ TypeOK
  /\ PinnedEnded
  /\ KnownDrawn
  /\ MemoryMatchesDisk
  /\ LoadingSound
  /\ LiveHeld

-----------------------------------------------------------------------------
LEMMA AbsentType == Absent \in Record
  BY DEF Absent, Record

(* evictTerminalLocked keeps each record or drops it, and drops only       *)
(* terminal records that are not pinned.                                   *)
Trimmed(m, n) ==
  /\ n \in [Tasks -> Record]
  /\ \A t \in Tasks : \/ n[t] = m[t]
                      \/ n[t] = Absent /\ m[t].state \in Terminal /\ ~m[t].pinned

LEMMA Trimming ==
  ASSUME NEW m \in [Tasks -> Record], NEW V, CapVictims(AfterTTL(m), V)
  PROVE  Trimmed(m, Drop(AfterTTL(m), V))
  <1> DEFINE a == AfterTTL(m)
  <1>1. \A t \in Tasks : \/ a[t] = m[t]
                         \/ a[t] = Absent /\ m[t].state \in Terminal /\ ~m[t].pinned
    BY DEF AfterTTL, Drop, Aged, EndedIn
  <1>2. \A t \in V : t \in Tasks /\ a[t].state \in Terminal /\ ~a[t].pinned
    BY DEF CapVictims, Evictable, EndedIn
  <1>3. a \in [Tasks -> Record]
    BY AbsentType DEF AfterTTL, Drop
  <1> HIDE DEF a
  <1>4. \A t \in V : a[t] = m[t]
    BY <1>1, <1>2 DEF Absent, Terminal
  <1>5. Drop(a, V) \in [Tasks -> Record]
    BY <1>3, AbsentType DEF Drop
  <1>6. \A t \in Tasks : Drop(a, V)[t] = IF t \in V THEN Absent ELSE a[t]
    BY DEF Drop
  <1>7. Trimmed(m, Drop(a, V))
    BY <1>1, <1>2, <1>4, <1>5, <1>6 DEF Trimmed
  <1>8. QED
    BY <1>7 DEF a

(* A live record of a broker whose archive is open is in the archive. *)
LEMMA LiveWritten ==
  ASSUME Inv, phase = "up", NEW t \in Tasks, mem[t].state \in Live
  PROVE  disk[t] = File(mem[t]) /\ ~mem[t].pinned /\ t \in drawn
  BY DEF Inv, MemoryMatchesDisk, PinnedEnded, KnownDrawn, Live, Terminal

-----------------------------------------------------------------------------
LEMMA Initially == Init => Inv
  <1> SUFFICES ASSUME Init PROVE Inv
    OBVIOUS
  <1>1. \A t \in Tasks : /\ mem[t] = Absent /\ disk[t] = NoFile
                        /\ mem[t].state = "absent" /\ disk[t].state = "absent"
                        /\ ~mem[t].pinned
    BY DEF Init, NoMemory, Absent, NoFile
  <1>2. TypeOK
    BY AbsentType DEF Init, TypeOK, NoMemory, NoFile, Stored
  <1>3. phase = "up" /\ toLoad = {}
    BY DEF Init
  <1>4. PinnedEnded /\ KnownDrawn /\ MemoryMatchesDisk /\ LoadingSound
    BY <1>1, <1>3 DEF PinnedEnded, KnownDrawn, MemoryMatchesDisk, LoadingSound
  <1>5. LiveHeld
    BY <1>1 DEF LiveHeld, Live
  <1>6. QED
    BY <1>2, <1>4, <1>5 DEF Inv

(* What every transition of a task does to memory and archive: the record  *)
(* r it computes is stored and written, and the write may fail.            *)
LEMMA Written1 ==
  ASSUME Inv, NEW t \in Tasks, NEW r \in Record, NEW ok \in BOOLEAN,
         Written(t, r, ok)
  PROVE  /\ disk' \in [Tasks -> Stored]
         /\ disk'[t] = IF ok /\ phase # "closed" THEN File(r) ELSE disk[t]
         /\ \A u \in Tasks \ {t} : disk'[u] = disk[u]
  BY DEF Written, Inv, TypeOK, File, Stored, Record

LEMMA Persisted1 ==
  ASSUME Inv, NEW r \in Record, NEW ok \in BOOLEAN, ~r.pinned
  PROVE  /\ Persisted(r, ok) \in Record
         /\ Persisted(r, ok).pinned = ~ok
         /\ ok => Persisted(r, ok) = r
         /\ ~ok => Persisted(r, ok).state \in Terminal
  BY DEF Persisted, Record, Inv, TypeOK, Terminal

(* A serving broker that stores and writes a record of t, and may trim the *)
(* table, keeps the invariant.                                             *)
LEMMA Recorded ==
  ASSUME Inv, Serving, NEW t \in Tasks, NEW r \in Record, NEW ok \in BOOLEAN,
         ~r.pinned, r.state # "absent", Written(t, r, ok), ok \/ phase = "up",
         Trimmed([mem EXCEPT ![t] = Persisted(r, ok)], mem'),
         drawn' = drawn \cup {t}, UNCHANGED <<phase, toLoad, now, crashes>>,
         storeErr' \in BOOLEAN, nextPos' \in Nat
  PROVE  Inv'
  <1> DEFINE q == Persisted(r, ok)
             m == [mem EXCEPT ![t] = q]
  <1>1. /\ q \in Record /\ q.pinned = ~ok
        /\ ok => q = r
        /\ ~ok => q.state \in Terminal
    BY Persisted1
  <1>2. /\ disk' \in [Tasks -> Stored]
        /\ disk'[t] = IF ok /\ phase # "closed" THEN File(r) ELSE disk[t]
        /\ \A u \in Tasks \ {t} : disk'[u] = disk[u]
    BY Written1
  <1>3. m[t] = q /\ \A u \in Tasks \ {t} : m[u] = mem[u]
    BY DEF Inv, TypeOK
  <1>4. \A u \in Tasks : \/ mem'[u] = m[u]
                         \/ /\ mem'[u] = Absent /\ mem'[u].state = "absent" /\ ~mem'[u].pinned
                            /\ m[u].state \in Terminal /\ ~m[u].pinned
    BY DEF Trimmed, Absent
  <1>5. phase' = phase /\ toLoad' = toLoad /\ phase \in {"up", "closed"}
    BY DEF Serving
  <1> HIDE DEF q, m
  <1>6. TypeOK'
    BY <1>2 DEF TypeOK, Inv, Trimmed
  <1>7. PinnedEnded'
    <2> SUFFICES ASSUME NEW u \in Tasks, mem'[u].pinned
                 PROVE  mem'[u].state \in Terminal
      BY <1>5 DEF PinnedEnded, Serving
    <2>1. CASE u = t
      BY <2>1, <1>1, <1>3, <1>4
    <2>2. CASE u # t
      BY <2>2, <1>3, <1>4 DEF Inv, PinnedEnded
    <2>3. QED
      BY <2>1, <2>2
  <1>8. KnownDrawn'
    BY <1>2, <1>3, <1>4 DEF KnownDrawn, Inv
  <1>9. MemoryMatchesDisk'
    <2> SUFFICES ASSUME phase = "up", NEW u \in Tasks, mem'[u].state # "absent", ~mem'[u].pinned
                 PROVE  \/ disk'[u] = File(mem'[u])
                        \/ CancelQueued /\ mem'[u].state = "cancelled" /\ disk'[u].state = "queued"
      BY <1>5 DEF MemoryMatchesDisk, File
    <2>1. CASE u = t
      BY <2>1, <1>1, <1>2, <1>3, <1>4
    <2>2. CASE u # t
      BY <2>2, <1>2, <1>3, <1>4 DEF Inv, MemoryMatchesDisk
    <2>3. QED
      BY <2>1, <2>2
  <1>10. LoadingSound'
    BY <1>5 DEF LoadingSound, Inv
  <1>11. LiveHeld'
    <2> SUFFICES ASSUME ~CancelQueued, phase = "up", NEW u \in Tasks, disk'[u].state \in Live,
                        mem'[u].state = "absent"
                 PROVE  FALSE
      BY <1>5 DEF LiveHeld
    <2>1. m[u].state # "absent" => m[u].state \in Terminal /\ ~m[u].pinned
      BY <1>4
    <2>2. CASE u = t
      <3>1. q.state # "absent"
        BY <1>1 DEF Terminal
      <3>2. q.state \in Terminal /\ ~q.pinned
        BY <3>1, <2>1, <2>2, <1>3
      <3>3. ok /\ q = r
        BY <3>2, <1>1
      <3>4. disk'[t].state = r.state
        BY <3>3, <1>2 DEF File
      <3>5. QED
        BY <3>2, <3>3, <3>4, <2>2 DEF Live, Terminal
    <2>3. CASE u # t
      <3>1. mem[u].state # "absent"
        BY <2>3, <1>2 DEF Inv, LiveHeld
      <3>2. disk[u] = File(mem[u]) /\ mem[u].state \in Terminal
        BY <3>1, <2>1, <2>3, <1>3 DEF Inv, MemoryMatchesDisk
      <3>3. QED
        BY <3>2, <2>3, <1>2 DEF File, Live, Terminal
    <2>4. QED
      BY <2>2, <2>3
  <1>12. QED
    BY <1>6, <1>7, <1>8, <1>9, <1>10, <1>11 DEF Inv

(* Trimming alone keeps the invariant of a serving broker. *)
LEMMA TrimKeeps ==
  ASSUME Inv, Serving, Trimmed(mem, mem'), drawn' \in SUBSET Tasks, drawn \subseteq drawn',
         UNCHANGED <<phase, disk, toLoad, now, crashes>>,
         storeErr' \in BOOLEAN, nextPos' \in Nat
  PROVE  Inv'
  <1>1. \A u \in Tasks : \/ mem'[u] = mem[u]
                         \/ /\ mem'[u] = Absent /\ mem'[u].state = "absent" /\ ~mem'[u].pinned
                            /\ mem[u].state \in Terminal /\ ~mem[u].pinned
    BY DEF Trimmed, Absent
  <1>2. phase' = phase /\ toLoad' = toLoad /\ disk' = disk /\ phase \in {"up", "closed"}
    BY DEF Serving
  <1>3. TypeOK'
    BY DEF TypeOK, Inv, Trimmed
  <1>4. PinnedEnded' /\ KnownDrawn'
    BY <1>1, <1>2 DEF PinnedEnded, KnownDrawn, Inv, Serving
  <1>5. MemoryMatchesDisk'
    BY <1>1, <1>2 DEF MemoryMatchesDisk, Inv
  <1>6. LoadingSound'
    BY <1>2 DEF LoadingSound, Inv
  <1>7. LiveHeld'
    <2> SUFFICES ASSUME ~CancelQueued, phase = "up", NEW u \in Tasks, disk[u].state \in Live
                 PROVE  mem'[u].state # "absent"
      BY <1>2 DEF LiveHeld
    <2>1. mem[u].state # "absent"
      BY DEF Inv, LiveHeld
    <2>2. disk[u] = File(mem[u]) \/ mem[u].pinned
      BY <2>1 DEF Inv, MemoryMatchesDisk
    <2>3. mem[u].state \notin Terminal \/ mem[u].pinned
      BY <2>2 DEF File, Live, Terminal
    <2>4. QED
      BY <2>1, <2>3, <1>1
  <1>8. QED
    BY <1>3, <1>4, <1>5, <1>6, <1>7 DEF Inv
-----------------------------------------------------------------------------
(* The record a live task carries is not pinned, and its id was drawn. *)
LEMMA LiveRecord ==
  ASSUME Inv, NEW t \in Tasks, mem[t].state \in Live
  PROVE  ~mem[t].pinned /\ drawn \cup {t} = drawn /\ mem[t] \in Record
  BY DEF Inv, TypeOK, PinnedEnded, KnownDrawn, Live, Terminal

LEMMA OutcomeType ==
  ASSUME NEW ok \in Outcomes, Serving
  PROVE  ok \in BOOLEAN /\ (ok \/ phase = "up")
  BY TableAssumption DEF Outcomes, Serving

(* A refused write leaves the archive and trims the table; an accepted one *)
(* also inserts the queued record.                                         *)
LEMMA AdmitPreserves ==
  ASSUME Inv, NEW t \in Tasks, Admit(t)
  PROVE  Inv'
  <1> DEFINE r == [Absent EXCEPT !.state = "queued", !.pos = nextPos]
  <1>1. PICK ok \in Outcomes, V \in SUBSET Tasks :
          /\ CapVictims(AfterTTL(mem), V)
          /\ Written(t, r, ok)
          /\ storeErr' = ~ok
          /\ mem' = IF ok THEN [Drop(AfterTTL(mem), V) EXCEPT ![t] = r]
                          ELSE Drop(AfterTTL(mem), V)
          /\ nextPos' = IF ok THEN nextPos + 1 ELSE nextPos
    BY DEF Admit
  <1>2. /\ Serving /\ drawn' = drawn \cup {t}
        /\ UNCHANGED <<phase, toLoad, now, crashes>>
    BY DEF Admit
  <1>3. ok \in BOOLEAN /\ (ok \/ phase = "up")
    BY <1>2, OutcomeType
  <1>4. r \in Record /\ ~r.pinned /\ r.state = "queued" /\ r.state # "absent"
    BY DEF Absent, Record, Live, Inv, TypeOK
  <1>5. Trimmed(mem, Drop(AfterTTL(mem), V))
    BY <1>1, Trimming DEF Inv, TypeOK
  <1>6. nextPos' \in Nat /\ storeErr' \in BOOLEAN
    BY <1>1, <1>3 DEF Inv, TypeOK
  <1> HIDE DEF r
  <1>7. CASE ok
    <2>1. mem' = [Drop(AfterTTL(mem), V) EXCEPT ![t] = r]
      BY <1>1, <1>7
    <2>2. Trimmed([mem EXCEPT ![t] = r], mem')
      BY <2>1, <1>4, <1>5 DEF Trimmed, Inv, TypeOK
    <2>3. Persisted(r, ok) = r
      BY <1>7 DEF Persisted
    <2>4. QED
      BY <1>1, <1>2, <1>3, <1>4, <1>6, <2>2, <2>3, Recorded
  <1>8. CASE ~ok
    <2>1. mem' = Drop(AfterTTL(mem), V) /\ disk' = disk
      BY <1>1, <1>8 DEF Written
    <2>2. drawn' \in SUBSET Tasks /\ drawn \subseteq drawn'
      BY <1>2 DEF Inv, TypeOK
    <2>3. QED
      BY <1>2, <1>5, <1>6, <2>1, <2>2, TrimKeeps
  <1>9. QED
    BY <1>3, <1>7, <1>8

LEMMA MarkRunningPreserves ==
  ASSUME Inv, NEW t \in Tasks, MarkRunning(t)
  PROVE  Inv'
  <1> DEFINE r == [mem[t] EXCEPT !.state = "running"]
  <1>1. PICK ok \in Outcomes :
          /\ Written(t, r, ok)
          /\ storeErr' = (storeErr \/ ~ok)
          /\ mem' = [mem EXCEPT ![t] = Persisted(r, ok)]
    BY DEF MarkRunning
  <1>2. /\ Serving /\ drawn' = drawn /\ nextPos' = nextPos
        /\ UNCHANGED <<phase, toLoad, now, crashes>>
    BY DEF MarkRunning
  <1>3. ok \in BOOLEAN /\ (ok \/ phase = "up")
    BY <1>2, OutcomeType
  <1>4. mem[t].state \in Live
    BY DEF MarkRunning, Live
  <1>5. r \in Record /\ ~r.pinned /\ r.state # "absent"
    BY <1>4, LiveRecord DEF Record, Live
  <1>6. Persisted(r, ok) \in Record
    BY <1>3, <1>5, Persisted1
  <1>7. storeErr' \in BOOLEAN /\ nextPos' \in Nat
    BY <1>1, <1>2, <1>3 DEF Inv, TypeOK
  <1> HIDE DEF r
  <1>8. Trimmed([mem EXCEPT ![t] = Persisted(r, ok)], mem')
    BY <1>1, <1>6 DEF Trimmed, Inv, TypeOK
  <1>9. drawn' = drawn \cup {t}
    BY <1>2, <1>4, LiveRecord
  <1>10. QED
    BY <1>1, <1>2, <1>3, <1>5, <1>7, <1>8, <1>9, Recorded

LEMMA FinishPreserves ==
  ASSUME Inv, NEW t \in Tasks, NEW from, NEW to \in Terminal, from \subseteq Live,
         Finish(t, from, to)
  PROVE  Inv'
  <1> DEFINE r == [mem[t] EXCEPT !.state = to, !.fin = now]
  <1>1. PICK ok \in Outcomes :
          /\ Written(t, r, ok)
          /\ storeErr' = (storeErr \/ ~ok)
          /\ EvictInto([mem EXCEPT ![t] = Persisted(r, ok)])
    BY DEF Finish
  <1>2. /\ Serving /\ drawn' = drawn /\ nextPos' = nextPos
        /\ UNCHANGED <<phase, toLoad, now, crashes>>
    BY DEF Finish
  <1>3. ok \in BOOLEAN /\ (ok \/ phase = "up")
    BY <1>2, OutcomeType
  <1>4. mem[t].state \in Live
    BY DEF Finish
  <1>5. r \in Record /\ ~r.pinned /\ r.state # "absent"
    BY <1>4, LiveRecord DEF Record, Live, Terminal, Inv, TypeOK
  <1>6. Persisted(r, ok) \in Record
    BY <1>3, <1>5, Persisted1
  <1>7. storeErr' \in BOOLEAN /\ nextPos' \in Nat
    BY <1>1, <1>2, <1>3 DEF Inv, TypeOK
  <1> HIDE DEF r
  <1>8. [mem EXCEPT ![t] = Persisted(r, ok)] \in [Tasks -> Record]
    BY <1>6 DEF Inv, TypeOK
  <1>9. Trimmed([mem EXCEPT ![t] = Persisted(r, ok)], mem')
    BY <1>1, <1>8, Trimming DEF EvictInto
  <1>10. drawn' = drawn \cup {t}
    BY <1>2, <1>4, LiveRecord
  <1>11. QED
    BY <1>1, <1>2, <1>3, <1>5, <1>7, <1>9, <1>10, Recorded

(* The queued tasks of a session become cancelled in memory alone. *)
LEMMA DeregisterPreserves ==
  ASSUME Inv, NEW s \in Sessions, DeregisterSession(s)
  PROVE  Inv'
  <1>1. /\ Serving /\ CancelQueued
        /\ UNCHANGED <<phase, disk, storeErr, toLoad, nextPos, drawn, now, crashes>>
        /\ phase' = phase /\ disk' = disk /\ phase \in {"up", "closed"}
    BY DEF DeregisterSession, Serving
  <1>2. mem' = [t \in Tasks |->
                 IF SessionOf[t] = s /\ mem[t].state = "queued"
                 THEN [mem[t] EXCEPT !.state = "cancelled", !.fin = now]
                 ELSE mem[t]]
    BY DEF DeregisterSession
  <1>3. ASSUME NEW t \in Tasks
        PROVE  /\ mem'[t] \in Record
               /\ mem'[t].pinned = mem[t].pinned
               /\ \/ mem'[t] = mem[t]
                  \/ mem[t].state = "queued" /\ mem'[t].state = "cancelled"
    <2>1. mem[t] \in Record
      BY DEF Inv, TypeOK
    <2>2. CASE SessionOf[t] = s /\ mem[t].state = "queued"
      BY <1>2, <2>1, <2>2 DEF Record, Terminal, Inv, TypeOK
    <2>3. CASE ~(SessionOf[t] = s /\ mem[t].state = "queued")
      BY <1>2, <2>1, <2>3
    <2>4. QED
      BY <2>2, <2>3
  <1>4. TypeOK'
    <2>1. mem' \in [Tasks -> Record]
      BY <1>2, <1>3
    <2>2. QED
      BY <2>1, <1>1 DEF TypeOK, Inv
  <1>5. PinnedEnded' /\ KnownDrawn'
    BY <1>1, <1>3 DEF PinnedEnded, KnownDrawn, Inv, Serving, Terminal
  <1>6. MemoryMatchesDisk'
    <2> SUFFICES ASSUME phase = "up", NEW t \in Tasks, mem'[t].state # "absent", ~mem'[t].pinned
                 PROVE  \/ disk'[t] = File(mem'[t])
                        \/ CancelQueued /\ mem'[t].state = "cancelled" /\ disk'[t].state = "queued"
      BY <1>1 DEF MemoryMatchesDisk, File
    <2>1. CASE mem'[t] = mem[t]
      BY <1>1, <2>1 DEF Inv, MemoryMatchesDisk
    <2>2. CASE mem[t].state = "queued" /\ mem'[t].state = "cancelled"
      <3>1. disk[t] = File(mem[t])
        BY <2>2, LiveWritten DEF Live
      <3>2. disk'[t].state = "queued"
        BY <3>1, <2>2, <1>1 DEF File
      <3>3. QED
        BY <3>2, <2>2, <1>1
    <2>3. QED
      BY <1>3, <2>1, <2>2
  <1>7. LoadingSound' /\ LiveHeld'
    BY <1>1 DEF LoadingSound, LiveHeld, Inv, Serving
  <1>8. QED
    BY <1>4, <1>5, <1>6, <1>7 DEF Inv
(* An entry is read back: a live one has been ended, on disk too. *)
LEMMA Reloaded ==
  ASSUME Inv, NEW t \in toLoad, phase = "loading"
  PROVE  /\ t \in Tasks /\ t \in drawn
         /\ Reload(t) \in Record /\ ~Reload(t).pinned
         /\ Reload(t).state \in Terminal
         /\ File(Reload(t)) \in Stored
         /\ IF disk[t].state \in Live THEN Reload(t).state = "errored"
                                      ELSE Reload(t).state = disk[t].state
  <1>1. t \in Tasks /\ disk[t].state # "absent" /\ t \in drawn /\ disk[t] \in Stored
    BY DEF Inv, TypeOK, LoadingSound, KnownDrawn
  <1> DEFINE r == [state |-> disk[t].state, fin |-> disk[t].fin, pinned |-> FALSE, pos |-> nextPos]
  <1>2. r \in Record
    BY <1>1 DEF Stored, Record, Inv, TypeOK
  <1>3. CASE disk[t].state \in Live
    <2>1. Reload(t) = [r EXCEPT !.state = "errored", !.fin = now]
      BY <1>3 DEF Reload
    <2>2. now \in Nat
      BY DEF Inv, TypeOK
    <2>3. QED
      BY <1>1, <1>2, <1>3, <2>1, <2>2 DEF Record, Stored, File, Terminal
  <1>4. CASE disk[t].state \notin Live
    <2>1. Reload(t) = r
      BY <1>4 DEF Reload
    <2>2. disk[t].state \in Terminal
      BY <1>1, <1>4 DEF Stored
    <2>3. QED
      BY <1>1, <1>2, <1>4, <2>1, <2>2 DEF Record, Stored, File, Terminal
  <1>5. QED
    BY <1>3, <1>4

LEMMA LoadTaskPreserves ==
  ASSUME Inv, NEW t \in Tasks, LoadTask(t)
  PROVE  Inv'
  <1> DEFINE r == Reload(t)
             m == [mem EXCEPT ![t] = r]
  <1>1. /\ phase = "loading" /\ t \in toLoad
        /\ disk' = [disk EXCEPT ![t] = File(r)]
        /\ toLoad' = toLoad \ {t}
        /\ EvictInto(m)
        /\ nextPos' = nextPos + 1
        /\ phase' = phase /\ storeErr' = storeErr /\ drawn' = drawn
        /\ now' = now /\ crashes' = crashes
    BY DEF LoadTask
  <1>2. /\ t \in drawn /\ r \in Record /\ ~r.pinned /\ File(r) \in Stored
        /\ r.state \in Terminal
    BY <1>1, Reloaded
  <1>3. /\ m \in [Tasks -> Record] /\ m[t] = r
        /\ \A u \in Tasks \ {t} : m[u] = mem[u]
    BY <1>2 DEF Inv, TypeOK
  <1>4. /\ disk' \in [Tasks -> Stored] /\ disk'[t] = File(r)
        /\ \A u \in Tasks \ {t} : disk'[u] = disk[u]
    BY <1>1, <1>2 DEF Inv, TypeOK
  <1> HIDE DEF r, m
  <1>5. Trimmed(m, mem')
    BY <1>1, <1>3, Trimming DEF EvictInto
  <1>6. \A u \in Tasks : \/ mem'[u] = m[u]
                         \/ mem'[u] = Absent /\ mem'[u].state = "absent" /\ ~mem'[u].pinned
    BY <1>5 DEF Trimmed, Absent
  <1>7. TypeOK'
    BY <1>1, <1>4, <1>5 DEF TypeOK, Inv, Trimmed
  <1>8. PinnedEnded'
    <2> SUFFICES ASSUME NEW u \in Tasks PROVE ~mem'[u].pinned
      BY DEF PinnedEnded
    <2>1. ~mem[u].pinned
      BY <1>1 DEF Inv, PinnedEnded, Serving
    <2>2. ~m[u].pinned
      BY <2>1, <1>2, <1>3
    <2>3. QED
      BY <2>2, <1>6
  <1>9. KnownDrawn'
    BY <1>1, <1>2, <1>3, <1>4, <1>6 DEF KnownDrawn, Inv
  <1>10. MemoryMatchesDisk'
    <2> SUFFICES ASSUME NEW u \in Tasks, mem'[u].state # "absent", ~mem'[u].pinned
                 PROVE  \/ disk'[u] = File(mem'[u])
                        \/ CancelQueued /\ mem'[u].state = "cancelled" /\ disk'[u].state = "queued"
      BY DEF MemoryMatchesDisk, File
    <2>1. mem'[u] = m[u]
      BY <1>6
    <2>2. CASE u = t
      BY <2>1, <2>2, <1>3, <1>4
    <2>3. CASE u # t
      BY <2>1, <2>3, <1>1, <1>3, <1>4 DEF Inv, MemoryMatchesDisk
    <2>4. QED
      BY <2>2, <2>3
  <1>11. LoadingSound'
    <2>1. ASSUME NEW u \in Tasks
          PROVE  /\ mem'[u].state \notin Live
                 /\ disk'[u].state \in Live => u \in toLoad'
                 /\ u \in toLoad' => mem'[u] = Absent /\ disk'[u].state # "absent"
      <3>1. CASE u = t
        <4>1. mem'[u].state \notin Live
          BY <3>1, <1>2, <1>3, <1>6 DEF Live, Terminal
        <4>2. disk'[u].state \notin Live
          BY <3>1, <1>2, <1>4 DEF File, Live, Terminal
        <4>3. QED
          BY <4>1, <4>2, <3>1, <1>1
      <3>2. CASE u # t
        <4>1. /\ mem[u].state \notin Live
              /\ disk[u].state \in Live => u \in toLoad
              /\ u \in toLoad => mem[u] = Absent /\ disk[u].state # "absent"
          BY <1>1 DEF Inv, LoadingSound
        <4>2. "absent" \notin Live
          BY DEF Live
        <4>3. QED
          BY <3>2, <4>1, <4>2, <1>1, <1>3, <1>4, <1>6
      <3>3. QED
        BY <3>1, <3>2
    <2>2. QED
      BY <2>1, <1>1 DEF LoadingSound
  <1>12. LiveHeld'
    BY <1>1 DEF LiveHeld
  <1>13. QED
    BY <1>7, <1>8, <1>9, <1>10, <1>11, <1>12 DEF Inv

(* The process ends. *)
LEMMA GonePreserves ==
  ASSUME Inv, Gone, UNCHANGED <<disk, drawn, now>>, crashes' \in Nat
  PROVE  Inv'
  <1>1. /\ phase' = "down" /\ mem' = NoMemory /\ storeErr' = FALSE /\ toLoad' = {}
        /\ nextPos' = 1 /\ disk' = disk /\ drawn' = drawn /\ now' = now
    BY DEF Gone
  <1>2. NoMemory \in [Tasks -> Record] /\ \A t \in Tasks : NoMemory[t].state = "absent" /\ ~NoMemory[t].pinned
    BY AbsentType DEF NoMemory, Absent
  <1>3. TypeOK'
    BY <1>1, <1>2 DEF TypeOK, Inv
  <1>4. PinnedEnded' /\ KnownDrawn'
    BY <1>1, <1>2 DEF PinnedEnded, KnownDrawn, Inv
  <1>5. MemoryMatchesDisk' /\ LoadingSound' /\ LiveHeld'
    BY <1>1 DEF MemoryMatchesDisk, LoadingSound, LiveHeld
  <1>6. QED
    BY <1>3, <1>4, <1>5 DEF Inv

LEMMA RestartPreserves ==
  ASSUME Inv, Restart
  PROVE  Inv'
  <1>1. /\ phase = "down" /\ phase' = "loading" /\ mem = NoMemory /\ mem' = mem
        /\ toLoad' = {t \in Tasks : disk[t].state # "absent"}
        /\ disk' = disk /\ storeErr' = storeErr /\ nextPos' = nextPos /\ drawn' = drawn
        /\ now' = now /\ crashes' = crashes
    BY DEF Restart, Inv, LoadingSound
  <1>2. \A t \in Tasks : mem[t] = Absent /\ mem[t].state = "absent" /\ ~mem[t].pinned
    BY <1>1 DEF NoMemory, Absent
  <1>3. TypeOK'
    BY <1>1 DEF TypeOK, Inv
  <1>4. PinnedEnded' /\ KnownDrawn' /\ MemoryMatchesDisk'
    BY <1>1, <1>2 DEF PinnedEnded, KnownDrawn, MemoryMatchesDisk, Inv
  <1>5. LoadingSound' /\ LiveHeld'
    BY <1>1, <1>2 DEF LoadingSound, LiveHeld, Live
  <1>6. QED
    BY <1>3, <1>4, <1>5 DEF Inv

LEMMA FinishLoadingPreserves ==
  ASSUME Inv, FinishLoading
  PROVE  Inv'
  <1>1. /\ phase = "loading" /\ phase' = "up" /\ toLoad = {} /\ toLoad' = {}
        /\ mem' = mem /\ disk' = disk /\ storeErr' = storeErr /\ nextPos' = nextPos
        /\ drawn' = drawn /\ now' = now /\ crashes' = crashes
    BY DEF FinishLoading
  <1>2. TypeOK' /\ PinnedEnded' /\ KnownDrawn' /\ MemoryMatchesDisk'
    BY <1>1 DEF TypeOK, PinnedEnded, KnownDrawn, MemoryMatchesDisk, Serving, Inv
  <1>3. LoadingSound'
    BY <1>1 DEF LoadingSound
  <1>4. LiveHeld'
    BY <1>1 DEF LiveHeld, LoadingSound, Inv
  <1>5. QED
    BY <1>2, <1>3, <1>4 DEF Inv

-----------------------------------------------------------------------------
LEMMA Preserved == Inv /\ [Next]_vars => Inv'
  <1> SUFFICES ASSUME Inv, [Next]_vars PROVE Inv'
    OBVIOUS
  <1>1. ASSUME NEW t \in Tasks, Admit(t) PROVE Inv'
    BY <1>1, AdmitPreserves
  <1>2. ASSUME NEW t \in Tasks, MarkRunning(t) PROVE Inv'
    BY <1>2, MarkRunningPreserves
  <1>3. ASSUME NEW t \in Tasks, MarkDone(t) PROVE Inv'
    BY <1>3, FinishPreserves DEF MarkDone, Live, Terminal
  <1>4. ASSUME NEW t \in Tasks, MarkErrored(t) PROVE Inv'
    BY <1>4, FinishPreserves DEF MarkErrored, Terminal
  <1>5. ASSUME NEW t \in Tasks, Cancel(t) PROVE Inv'
    BY <1>5, FinishPreserves DEF Cancel, Terminal
  <1>6. ASSUME NEW t \in Tasks, LoadTask(t) PROVE Inv'
    BY <1>6, LoadTaskPreserves
  <1>7. ASSUME NEW t \in Tasks, LoadFails(t) PROVE Inv'
    BY <1>7, GonePreserves DEF LoadFails, Inv, TypeOK
  <1>8. ASSUME NEW s \in Sessions, DeregisterSession(s) PROVE Inv'
    BY <1>8, DeregisterPreserves
  <1>9. CASE Tick
    BY <1>9 DEF Tick, Inv, TypeOK, PinnedEnded, KnownDrawn, MemoryMatchesDisk, LoadingSound,
                LiveHeld, Serving
  <1>10. CASE ClosePersistence
    BY <1>10 DEF ClosePersistence, Inv, TypeOK, PinnedEnded, KnownDrawn, MemoryMatchesDisk,
                 LoadingSound, LiveHeld, Serving
  <1>11. CASE Crash
    BY <1>11, GonePreserves DEF Crash, Inv, TypeOK
  <1>12. CASE Restart
    BY <1>12, RestartPreserves
  <1>13. CASE FinishLoading
    BY <1>13, FinishLoadingPreserves
  <1>14. CASE UNCHANGED vars
    BY <1>14 DEF vars, Inv, TypeOK, PinnedEnded, KnownDrawn, MemoryMatchesDisk, LoadingSound,
                 LiveHeld, Serving
  <1>15. QED
    BY <1>1, <1>2, <1>3, <1>4, <1>5, <1>6, <1>7, <1>8, <1>9, <1>10, <1>11, <1>12, <1>13, <1>14
    DEF Next

LEMMA Invariance == Spec => []Inv
  BY Initially, Preserved, PTL DEF Spec

-----------------------------------------------------------------------------
(* Every value stays of its type. *)
THEOREM TypeCorrect == Spec => []TypeOK
  BY Invariance, PTL DEF Inv

(* Memory and archive agree on every record that is not pinned, whatever   *)
(* is evicted, fails to be written or is reloaded.                         *)
THEOREM ArchiveAgrees == Spec => []MemoryMatchesDisk
  BY Invariance, PTL DEF Inv

(* If no session asks for cancel_queued, no file of a serving broker says  *)
(* queued or running of a task its memory has dropped.                     *)
THEOREM NoPhantoms ==
  ASSUME ~CancelQueued
  PROVE  Spec => []NoPhantomLiveTask
  <1>1. Inv => NoPhantomLiveTask
    BY DEF Inv, LiveHeld, LoadingSound, NoPhantomLiveTask
  <1>2. QED
    BY <1>1, Invariance, PTL
-----------------------------------------------------------------------------
(* What a transition of the live task t does to the other tasks and to the *)
(* archive: others stay or are trimmed, and at most t's file changes.      *)
Moves(t, from, to) ==
  /\ Serving /\ phase' = phase
  /\ mem[t].state \in from /\ mem[t].state \in Live /\ ~mem[t].pinned
  /\ \A u \in Tasks \ {t} :
       mem'[u] = mem[u] \/ (mem'[u] = Absent /\ mem[u].state \in Terminal /\ ~mem[u].pinned)
  /\ \/ disk' = disk
     \/ /\ phase = "up" /\ disk[t] = File(mem[t])
        /\ \E f \in Stored : f.state = to /\ disk' = [disk EXCEPT ![t] = f]

LEMMA RunningMoves ==
  ASSUME Inv, NEW t \in Tasks, MarkRunning(t)
  PROVE  Moves(t, {"queued"}, "running")
  <1> DEFINE r == [mem[t] EXCEPT !.state = "running"]
  <1>1. PICK ok \in Outcomes :
          Written(t, r, ok) /\ mem' = [mem EXCEPT ![t] = Persisted(r, ok)]
    BY DEF MarkRunning
  <1>2. /\ Serving /\ phase' = phase /\ mem[t].state \in {"queued"} /\ mem[t].state \in Live
    BY DEF MarkRunning, Live
  <1>3. ~mem[t].pinned /\ mem[t] \in Record
    BY <1>2, LiveRecord
  <1>4. File(r) \in Stored /\ File(r).state = "running"
    BY <1>3 DEF File, Record, Stored, Live
  <1>5. \A u \in Tasks \ {t} : mem'[u] = mem[u]
    BY <1>1 DEF Inv, TypeOK
  <1>6. \/ disk' = disk
        \/ phase = "up" /\ disk[t] = File(mem[t]) /\ disk' = [disk EXCEPT ![t] = File(r)]
    BY <1>1, <1>2, LiveWritten DEF Written, Serving
  <1> HIDE DEF r
  <1>7. QED
    BY <1>2, <1>3, <1>4, <1>5, <1>6 DEF Moves

LEMMA FinishMoves ==
  ASSUME Inv, NEW t \in Tasks, NEW from, NEW to \in Terminal, from \subseteq Live,
         Finish(t, from, to)
  PROVE  Moves(t, from, to)
  <1> DEFINE r == [mem[t] EXCEPT !.state = to, !.fin = now]
  <1>1. PICK ok \in Outcomes :
          Written(t, r, ok) /\ EvictInto([mem EXCEPT ![t] = Persisted(r, ok)])
    BY DEF Finish
  <1>2. Serving /\ phase' = phase /\ mem[t].state \in from /\ mem[t].state \in Live
    BY DEF Finish
  <1>3. ~mem[t].pinned /\ mem[t] \in Record
    BY <1>2, LiveRecord
  <1>4. r \in Record /\ ~r.pinned /\ File(r) \in Stored /\ File(r).state = to
    BY <1>3 DEF File, Record, Stored, Terminal, Inv, TypeOK
  <1> HIDE DEF r
  <1>5. Persisted(r, ok) \in Record
    BY <1>2, <1>4, OutcomeType, Persisted1
  <1>6. Trimmed([mem EXCEPT ![t] = Persisted(r, ok)], mem')
    BY <1>1, <1>5, Trimming DEF EvictInto, Inv, TypeOK
  <1>7. \A u \in Tasks \ {t} :
          mem'[u] = mem[u] \/ (mem'[u] = Absent /\ mem[u].state \in Terminal /\ ~mem[u].pinned)
    BY <1>6 DEF Trimmed, Inv, TypeOK
  <1>8. \/ disk' = disk
        \/ phase = "up" /\ disk[t] = File(mem[t]) /\ disk' = [disk EXCEPT ![t] = File(r)]
    BY <1>1, <1>2, LiveWritten DEF Written, Serving
  <1>9. QED
    BY <1>2, <1>3, <1>4, <1>7, <1>8 DEF Moves

(* The transitions of Next, as moves. *)
LEMMA Transitions ==
  ASSUME Inv, NEW t \in Tasks
  PROVE  /\ MarkRunning(t) => Moves(t, {"queued"}, "running")
         /\ MarkDone(t) => Moves(t, {"running"}, "done")
         /\ MarkErrored(t) => Moves(t, Live, "errored")
         /\ Cancel(t) => Moves(t, Live, "cancelled")
  BY RunningMoves, FinishMoves DEF MarkDone, MarkErrored, Cancel, Live, Terminal

(* What an admission does: a fresh id gets at most a record and a file. *)
LEMMA AdmitMoves ==
  ASSUME Inv, NEW t \in Tasks, Admit(t)
  PROVE  /\ Serving /\ phase' = phase /\ ~storeErr
         /\ mem[t].state = "absent" /\ disk[t].state = "absent" /\ ~mem[t].pinned
         /\ \A u \in Tasks \ {t} :
              mem'[u] = mem[u] \/ (mem'[u] = Absent /\ mem[u].state \in Terminal /\ ~mem[u].pinned)
         /\ \/ disk' = disk
            \/ \E f \in Stored : f.state = "queued" /\ disk' = [disk EXCEPT ![t] = f]
  <1> DEFINE r == [Absent EXCEPT !.state = "queued", !.pos = nextPos]
  <1>1. PICK ok \in Outcomes, V \in SUBSET Tasks :
          /\ CapVictims(AfterTTL(mem), V)
          /\ Written(t, r, ok)
          /\ mem' = IF ok THEN [Drop(AfterTTL(mem), V) EXCEPT ![t] = r]
                          ELSE Drop(AfterTTL(mem), V)
    BY DEF Admit
  <1>2. Serving /\ phase' = phase /\ ~storeErr /\ t \notin drawn
    BY DEF Admit, Accepts
  <1>3. mem[t].state = "absent" /\ disk[t].state = "absent" /\ ~mem[t].pinned
    BY <1>2 DEF Inv, KnownDrawn, PinnedEnded, Terminal
  <1>4. Trimmed(mem, Drop(AfterTTL(mem), V))
    BY <1>1, Trimming DEF Inv, TypeOK
  <1>5. File(r) \in Stored /\ File(r).state = "queued"
    BY DEF File, Absent, Stored, Live
  <1> HIDE DEF r
  <1>6. \A u \in Tasks \ {t} : mem'[u] = Drop(AfterTTL(mem), V)[u]
    BY <1>1, <1>4 DEF Trimmed
  <1>7. \A u \in Tasks \ {t} :
          mem'[u] = mem[u] \/ (mem'[u] = Absent /\ mem[u].state \in Terminal /\ ~mem[u].pinned)
    BY <1>4, <1>6 DEF Trimmed
  <1>8. disk' = disk \/ disk' = [disk EXCEPT ![t] = File(r)]
    BY <1>1 DEF Written
  <1>9. QED
    BY <1>2, <1>3, <1>5, <1>7, <1>8
-----------------------------------------------------------------------------
LEMMA StepKeepsPinned == Inv /\ [Next]_vars => [KeepsPinned]_vars
  <1> SUFFICES ASSUME Inv, Next, NEW u \in Tasks, mem[u].pinned, phase' # "down"
               PROVE  mem'[u] = mem[u]
    BY DEF KeepsPinned
  <1>1. mem[u].state \in Terminal /\ mem[u].state \notin Live /\ Serving
    BY DEF Inv, PinnedEnded, Live, Terminal
  <1>2. ASSUME NEW t \in Tasks, NEW from, NEW to, Moves(t, from, to)
        PROVE  mem'[u] = mem[u]
    BY <1>2 DEF Moves
  <1>3. ASSUME NEW t \in Tasks, Admit(t) PROVE mem'[u] = mem[u]
    BY <1>3, AdmitMoves
  <1>4. ASSUME NEW t \in Tasks, MarkRunning(t) PROVE mem'[u] = mem[u]
    BY <1>2, <1>4, Transitions
  <1>5. ASSUME NEW t \in Tasks, MarkDone(t) PROVE mem'[u] = mem[u]
    BY <1>2, <1>5, Transitions
  <1>6. ASSUME NEW t \in Tasks, MarkErrored(t) PROVE mem'[u] = mem[u]
    BY <1>2, <1>6, Transitions
  <1>7. ASSUME NEW t \in Tasks, Cancel(t) PROVE mem'[u] = mem[u]
    BY <1>2, <1>7, Transitions
  <1>8. ASSUME NEW t \in Tasks, LoadTask(t) \/ LoadFails(t) PROVE mem'[u] = mem[u]
    BY <1>1, <1>8 DEF LoadTask, LoadFails, Serving
  <1>9. ASSUME NEW s \in Sessions, DeregisterSession(s) PROVE mem'[u] = mem[u]
    BY <1>1, <1>9 DEF DeregisterSession, Live
  <1>10. CASE Tick \/ ClosePersistence \/ Crash \/ Restart \/ FinishLoading
    BY <1>10 DEF Tick, ClosePersistence, Crash, Gone, Restart, FinishLoading
  <1>11. QED
    BY <1>3, <1>4, <1>5, <1>6, <1>7, <1>8, <1>9, <1>10 DEF Next

(* Eviction never drops, and no transition changes, a record whose write   *)
(* failed, until the process ends.                                         *)
THEOREM PinnedStays == Spec => PinnedEvidenceKept
  BY Invariance, StepKeepsPinned, PTL DEF Spec, PinnedEvidenceKept

-----------------------------------------------------------------------------
(* One file changes: the mapped state of that task changes with it. *)
LEMMA OneFile ==
  ASSUME Inv, NEW t \in Tasks, NEW f \in Stored, disk' = [disk EXCEPT ![t] = f]
  PROVE  /\ Archived' = [Archived EXCEPT ![t] = f.state]
         /\ Archived[t] = disk[t].state
  <1>1. /\ disk'[t] = f /\ \A u \in Tasks \ {t} : disk'[u] = disk[u]
    BY DEF Inv, TypeOK
  <1>2. Archived' = [u \in Tasks |-> disk'[u].state]
    BY DEF Archived
  <1>3. [Archived EXCEPT ![t] = f.state] = [u \in Tasks |-> IF u = t THEN f.state ELSE disk[u].state]
    BY DEF Archived
  <1>4. \A u \in Tasks : disk'[u].state = IF u = t THEN f.state ELSE disk[u].state
    BY <1>1
  <1>5. QED
    BY <1>2, <1>3, <1>4 DEF Archived

LEMMA StepImplements == Inv /\ [Next]_vars => [Lifecycle!Next]_Archived
  <1> SUFFICES ASSUME Inv, Next PROVE Lifecycle!Next \/ Archived' = Archived
    BY DEF vars, Archived
  <1>1. disk' = disk => Archived' = Archived
    BY DEF Archived
  <1>2. ASSUME NEW t \in Tasks, NEW from, NEW to, Moves(t, from, to), disk' # disk
        PROVE  Archived[t] \in from /\ Archived[t] \in Live /\ Archived' = [Archived EXCEPT ![t] = to]
    <2>1. PICK f \in Stored : f.state = to /\ disk' = [disk EXCEPT ![t] = f]
      BY <1>2 DEF Moves
    <2>2. disk[t].state = mem[t].state /\ mem[t].state \in from /\ mem[t].state \in Live
      BY <1>2 DEF Moves, File
    <2>3. QED
      BY <2>1, <2>2, OneFile
  <1>3. ASSUME NEW t \in Tasks, Admit(t), disk' # disk PROVE Lifecycle!Next
    <2>1. PICK f \in Stored : f.state = "queued" /\ disk' = [disk EXCEPT ![t] = f]
      BY <1>3, AdmitMoves
    <2>2. disk[t].state = "absent"
      BY <1>3, AdmitMoves
    <2>3. Archived[t] = "absent" /\ Archived' = [Archived EXCEPT ![t] = "queued"]
      BY <2>1, <2>2, OneFile
    <2>4. Lifecycle!Admit(t)
      BY <2>3 DEF Lifecycle!Admit
    <2>5. QED
      BY <2>4 DEF Lifecycle!Next
  <1>4. ASSUME NEW t \in Tasks, MarkRunning(t), disk' # disk PROVE Lifecycle!Next
    BY <1>2, <1>4, Transitions DEF Lifecycle!Next, Lifecycle!Begin
  <1>5. ASSUME NEW t \in Tasks, MarkDone(t), disk' # disk PROVE Lifecycle!Next
    BY <1>2, <1>5, Transitions DEF Lifecycle!Next, Lifecycle!Complete
  <1>6. ASSUME NEW t \in Tasks, MarkErrored(t), disk' # disk PROVE Lifecycle!Next
    BY <1>2, <1>6, Transitions DEF Lifecycle!Next, Lifecycle!Fail, Lifecycle!Live, Live
  <1>7. ASSUME NEW t \in Tasks, Cancel(t), disk' # disk PROVE Lifecycle!Next
    BY <1>2, <1>7, Transitions DEF Lifecycle!Next, Lifecycle!Withdraw, Lifecycle!Live, Live
  <1>8. ASSUME NEW t \in Tasks, LoadTask(t) PROVE Lifecycle!Next \/ Archived' = Archived
    <2>1. /\ phase = "loading" /\ t \in toLoad
          /\ disk' = [disk EXCEPT ![t] = File(Reload(t))]
      BY <1>8 DEF LoadTask
    <2>2. /\ Archived' = [Archived EXCEPT ![t] = Reload(t).state]
          /\ Archived[t] = disk[t].state
      BY <2>1, Reloaded, OneFile DEF File
    <2>3. CASE disk[t].state \in Live
      BY <2>1, <2>2, <2>3, Reloaded DEF Lifecycle!Next, Lifecycle!Fail, Lifecycle!Live, Live
    <2>4. CASE disk[t].state \notin Live
      BY <2>1, <2>2, <2>4, Reloaded DEF Archived
    <2>5. QED
      BY <2>3, <2>4
  <1>9. ASSUME NEW t \in Tasks, LoadFails(t) PROVE disk' = disk
    BY <1>9 DEF LoadFails
  <1>10. ASSUME NEW s \in Sessions, DeregisterSession(s) PROVE disk' = disk
    BY <1>10 DEF DeregisterSession
  <1>11. CASE Tick \/ ClosePersistence \/ Crash \/ Restart \/ FinishLoading
    BY <1>1, <1>11 DEF Tick, ClosePersistence, Crash, Restart, FinishLoading
  <1>12. QED
    BY <1>1, <1>3, <1>4, <1>5, <1>6, <1>7, <1>8, <1>9, <1>10, <1>11 DEF Next

(* The archive implements the life cycle of a task. *)
THEOREM ArchiveImplementsLifecycle == Spec => ImplementsLifecycle
  <1>1. Init => Lifecycle!Init
    BY DEF Init, Lifecycle!Init, Archived, NoFile
  <1>2. QED
    BY <1>1, Invariance, StepImplements, PTL DEF Spec, ImplementsLifecycle, Lifecycle!Spec

-----------------------------------------------------------------------------
LEMMA StepKeepsEnds == ~CancelQueued /\ Inv /\ [Next]_vars => [KeepsReportedEnds]_vars
  <1> SUFFICES ASSUME ~CancelQueued, Inv, Next, NEW u \in Tasks, Answer(u) \in Terminal, ~mem[u].pinned
               PROVE  Answer(u)' = Answer(u)
    BY DEF KeepsReportedEnds
  <1> DEFINE e == mem[u].state
             d == disk[u].state
  <1>1. Terminal \cap Live = {} /\ "absent" \notin Live /\ "absent" \notin Terminal /\ "errored" \notin Live
    BY DEF Live, Terminal
  (* A serving broker answers what the file says. *)
  <1>2. phase = "up" => d = Answer(u) /\ d \notin Live /\ (e = "absent" \/ e = d)
    <2>1. CASE phase = "up" /\ e = "absent"
      BY <1>1, <2>1 DEF Answer
    <2>2. CASE phase = "up" /\ e # "absent"
      <3>1. Answer(u) = e
        BY <2>2 DEF Answer
      <3>2. disk[u] = File(mem[u])
        BY <2>2 DEF Inv, MemoryMatchesDisk
      <3>3. QED
        BY <3>1, <3>2, <1>1 DEF File
    <2>3. QED
      BY <2>1, <2>2
  <1>3. ASSUME disk' = disk, phase' = phase, phase # "up" PROVE Answer(u)' = Answer(u)
    BY <1>3 DEF Answer
  <1>4. ASSUME disk'[u] = disk[u], phase' = phase,
               mem'[u] = mem[u] \/ (mem'[u] = Absent)
        PROVE  Answer(u)' = Answer(u)
    BY <1>2, <1>4 DEF Answer, Absent
  <1>5. ASSUME NEW t \in Tasks, NEW from, NEW to, Moves(t, from, to)
        PROVE  Answer(u)' = Answer(u)
    <2>1. CASE phase # "up"
      BY <1>3, <1>5, <2>1 DEF Moves
    <2>2. CASE phase = "up"
      <3>1. t # u
        BY <1>1, <1>2, <1>5, <2>2 DEF Moves
      <3>2. disk'[u] = disk[u]
        BY <1>5, <3>1 DEF Moves, Inv, TypeOK
      <3>3. QED
        BY <1>4, <1>5, <3>1, <3>2 DEF Moves
    <2>3. QED
      BY <2>1, <2>2
  <1>6. ASSUME NEW t \in Tasks, Admit(t) PROVE Answer(u)' = Answer(u)
    <2>1. CASE t = u
      <3>1. phase = "closed"
        BY <1>1, <1>2, <1>6, <2>1, AdmitMoves DEF Serving
      <3>2. disk' = disk /\ phase' = phase
        BY <1>6, <3>1 DEF Admit, Written
      <3>3. QED
        BY <1>3, <3>1, <3>2
    <2>2. CASE t # u
      <3>1. disk'[u] = disk[u] /\ phase' = phase /\ (mem'[u] = mem[u] \/ mem'[u] = Absent)
        BY <1>6, <2>2, AdmitMoves DEF Inv, TypeOK
      <3>2. QED
        BY <1>4, <3>1
    <2>3. QED
      BY <2>1, <2>2
  <1>7. ASSUME NEW t \in Tasks, MarkRunning(t) PROVE Answer(u)' = Answer(u)
    BY <1>5, <1>7, Transitions
  <1>8. ASSUME NEW t \in Tasks, MarkDone(t) PROVE Answer(u)' = Answer(u)
    BY <1>5, <1>8, Transitions
  <1>9. ASSUME NEW t \in Tasks, MarkErrored(t) PROVE Answer(u)' = Answer(u)
    BY <1>5, <1>9, Transitions
  <1>10. ASSUME NEW t \in Tasks, Cancel(t) PROVE Answer(u)' = Answer(u)
    BY <1>5, <1>10, Transitions
  <1>11. ASSUME NEW t \in Tasks, LoadTask(t) PROVE Answer(u)' = Answer(u)
    <2>1. /\ phase = "loading" /\ phase' = "loading" /\ t \in toLoad
          /\ disk' = [disk EXCEPT ![t] = File(Reload(t))]
      BY <1>11 DEF LoadTask
    <2>2. CASE t = u
      <3>1. disk'[u].state = Reload(u).state
        BY <2>1, <2>2 DEF Inv, TypeOK, File
      <3>2. IF d \in Live THEN Reload(u).state = "errored" ELSE Reload(u).state = d
        BY <2>1, <2>2, Reloaded
      <3>3. QED
        BY <2>1, <3>1, <3>2, <1>1 DEF Answer
    <2>3. CASE t # u
      <3>1. disk'[u] = disk[u]
        BY <2>1, <2>3 DEF Inv, TypeOK
      <3>2. QED
        BY <2>1, <3>1 DEF Answer
    <2>4. QED
      BY <2>2, <2>3
  <1>12. ASSUME NEW t \in Tasks, LoadFails(t) PROVE Answer(u)' = Answer(u)
    BY <1>12 DEF LoadFails, Gone, Answer
  <1>13. ASSUME NEW s \in Sessions, DeregisterSession(s) PROVE FALSE
    BY <1>13 DEF DeregisterSession
  <1>14. CASE Tick
    BY <1>14 DEF Tick, Answer
  <1>15. CASE ClosePersistence
    BY <1>2, <1>15 DEF ClosePersistence, Answer
  <1>16. CASE Crash
    BY <1>2, <1>16 DEF Crash, Gone, Answer
  <1>17. CASE Restart
    BY <1>17 DEF Restart, Answer
  <1>18. CASE FinishLoading
    <2>1. d \notin Live /\ phase = "loading" /\ phase' = "up" /\ mem' = mem /\ disk' = disk
      BY <1>18 DEF FinishLoading, Inv, LoadingSound
    <2>2. e # "absent" => disk[u] = File(mem[u])
      BY <2>1 DEF Inv, MemoryMatchesDisk
    <2>3. e # "absent" => e = d
      BY <2>2 DEF File
    <2>4. QED
      BY <2>1, <2>3 DEF Answer
  <1>19. QED
    BY <1>6, <1>7, <1>8, <1>9, <1>10, <1>11, <1>12, <1>13, <1>14, <1>15, <1>16, <1>17, <1>18 DEF Next

(* If no session asks for cancel_queued, an end that task.status reported  *)
(* is reported ever after, whatever is evicted and whenever brokers end.   *)
THEOREM EndsAreFinal ==
  ASSUME ~CancelQueued
  PROVE  Spec => ReportedEndIsFinal
  BY Invariance, StepKeepsEnds, PTL DEF Spec, ReportedEndIsFinal
-----------------------------------------------------------------------------
(* The strengthening for TableBounded.  A pinned record closes admission,  *)
(* so every admission evicts down to MaxTerminal; and a broker that is     *)
(* still loading holds ended records only, evicted after each entry.       *)
PinnedBars == (\E t \in Tasks : mem[t].pinned) => storeErr

Bounded ==
  /\ PinnedBars
  /\ IsFiniteSet(Held(mem))
  /\ MaxTerminal > 0 /\ phase = "loading" => Cardinality(Held(mem)) <= MaxTerminal
  /\ TableBounded

(* What a table holds is what lives and what has ended. *)
LEMMA HeldParts ==
  ASSUME NEW m \in [Tasks -> Record]
  PROVE  Held(m) = LiveIn(m) \cup EndedIn(m) /\ LiveIn(m) \cap EndedIn(m) = {}
  BY DEF Record, Held, LiveIn, EndedIn, Live, Terminal

(* Where no record is pinned, evictTerminalLocked leaves at most           *)
(* MaxTerminal ended records, and every live one.                          *)
LEMMA EvictedFits ==
  ASSUME NEW m \in [Tasks -> Record], \A t \in Tasks : ~m[t].pinned,
         IsFiniteSet(EndedIn(m)), MaxTerminal > 0,
         NEW V, CapVictims(AfterTTL(m), V), NEW n, n = Drop(AfterTTL(m), V)
  PROVE  /\ LiveIn(n) = LiveIn(m)
         /\ IsFiniteSet(EndedIn(n))
         /\ Cardinality(EndedIn(n)) <= MaxTerminal
  <1>1. PICK a : a = AfterTTL(m)
    OBVIOUS
  <1>2. \A t \in Tasks : \/ a[t] = m[t]
                         \/ a[t] = Absent /\ m[t].state \in Terminal
    BY <1>1 DEF AfterTTL, Drop, Aged, EndedIn
  <1>3. Absent.state = "absent" /\ ~Absent.pinned
    BY DEF Absent
  <1>4. EndedIn(a) \subseteq EndedIn(m) /\ Evictable(a) = EndedIn(a)
    BY <1>2, <1>3 DEF EndedIn, Evictable, Terminal
  <1>5. V \subseteq EndedIn(a)
    BY <1>1, <1>4 DEF CapVictims
  <1>6. \A t \in Tasks : n[t] = IF t \in V THEN Absent ELSE a[t]
    BY <1>1 DEF Drop
  <1>7. EndedIn(n) = EndedIn(a) \ V
    BY <1>3, <1>5, <1>6 DEF EndedIn, Terminal
  <1>8. LiveIn(n) = LiveIn(m)
    <2>1. \A t \in Tasks : n[t] = m[t] \/ (n[t] = Absent /\ m[t].state \in Terminal)
      BY <1>2, <1>5, <1>6 DEF EndedIn, Absent, Terminal
    <2>2. QED
      BY <2>1, <1>3 DEF LiveIn, Live, Terminal
  <1>9. IsFiniteSet(EndedIn(a)) /\ Cardinality(EndedIn(a)) \in Nat
    BY <1>4, FS_Subset, FS_CardinalityType
  <1>10. /\ IsFiniteSet(EndedIn(a) \ V)
         /\ Cardinality(EndedIn(a) \ V) = Cardinality(EndedIn(a)) - Cardinality(V)
    <2>1. EndedIn(a) \cap V = V
      BY <1>5
    <2>2. QED
      BY <2>1, <1>9, FS_Difference
  <1>11. IF Cardinality(EndedIn(a)) - MaxTerminal <= 0 THEN V = {}
         ELSE V = EndedIn(a) \/ Cardinality(V) = Cardinality(EndedIn(a)) - MaxTerminal
    BY <1>1, <1>4 DEF CapVictims, Excess
  <1>12. MaxTerminal \in Nat /\ Cardinality({}) = 0
    BY TableAssumption, FS_EmptySet
  <1>13. Cardinality(EndedIn(a)) - Cardinality(V) <= MaxTerminal
    <2>1. CASE Cardinality(EndedIn(a)) - MaxTerminal <= 0
      BY <2>1, <1>9, <1>11, <1>12
    <2>2. CASE ~(Cardinality(EndedIn(a)) - MaxTerminal <= 0)
      BY <2>2, <1>9, <1>11, <1>12
    <2>3. QED
      BY <2>1, <2>2
  <1>14. QED
    BY <1>7, <1>8, <1>10, <1>13

(* A step that adds no record keeps the bound. *)
LEMMA HeldShrinks ==
  ASSUME Bounded, Held(mem') \subseteq Held(mem), PinnedBars',
         phase' = "loading" => phase = "loading" \/ Held(mem') = {}
  PROVE  Bounded'
  <1>1. /\ IsFiniteSet(Held(mem)) /\ IsFiniteSet(Held(mem'))
        /\ Cardinality(Held(mem')) <= Cardinality(Held(mem))
    BY FS_Subset DEF Bounded
  <1>2. /\ Cardinality(Held(mem)) \in Nat /\ Cardinality(Held(mem')) \in Nat
        /\ Cardinality({}) = 0
    BY <1>1, FS_CardinalityType, FS_EmptySet
  <1>3. MaxTerminal \in Nat /\ Limit \in Nat
    BY TableAssumption
  <1>4. TableBounded'
    BY <1>1, <1>2, <1>3 DEF Bounded, TableBounded
  <1>5. MaxTerminal > 0 /\ phase' = "loading" => Cardinality(Held(mem')) <= MaxTerminal
    BY <1>1, <1>2, <1>3 DEF Bounded
  <1>6. QED
    BY <1>1, <1>4, <1>5 DEF Bounded

(* Dropping terminal records only shrinks the table. *)
LEMMA TrimmedHeld ==
  ASSUME NEW m \in [Tasks -> Record], NEW n, Trimmed(m, n)
  PROVE  Held(n) \subseteq Held(m) /\ \A t \in Tasks : n[t].pinned => m[t].pinned
  BY DEF Trimmed, Held, Absent

(* An admission meets no pinned record, so what it leaves ended fits under *)
(* the cap, and what lives was below the limit.                            *)
LEMMA AdmitBounded ==
  ASSUME Inv, Bounded, NEW t \in Tasks, Admit(t)
  PROVE  Bounded'
  <1> DEFINE r == [Absent EXCEPT !.state = "queued", !.pos = nextPos]
  <1>1. PICK ok \in Outcomes, V \in SUBSET Tasks :
          /\ CapVictims(AfterTTL(mem), V)
          /\ storeErr' = ~ok
          /\ mem' = IF ok THEN [Drop(AfterTTL(mem), V) EXCEPT ![t] = r]
                          ELSE Drop(AfterTTL(mem), V)
    BY DEF Admit
  <1>2. PICK n : n = Drop(AfterTTL(mem), V)
    OBVIOUS
  <1>3. /\ Serving /\ phase' = phase /\ phase \in {"up", "closed"} /\ ~storeErr
        /\ Cardinality(LiveIn(mem)) < Limit
    BY DEF Admit, Accepts, Serving
  <1>4. mem \in [Tasks -> Record] /\ \A u \in Tasks : ~mem[u].pinned
    BY <1>3 DEF Inv, TypeOK, Bounded, PinnedBars
  <1>5. Trimmed(mem, n) /\ n \in [Tasks -> Record]
    BY <1>1, <1>2, <1>4, Trimming DEF Trimmed
  <1>6. Held(n) \subseteq Held(mem) /\ \A u \in Tasks : ~n[u].pinned
    BY <1>4, <1>5, TrimmedHeld
  <1>7. r.state = "queued" /\ ~r.pinned
    BY DEF Absent
  <1> HIDE DEF r
  <1>8. CASE ~ok
    <2>1. mem' = n
      BY <1>1, <1>2, <1>8
    <2>2. PinnedBars'
      BY <1>6, <2>1 DEF PinnedBars
    <2>3. QED
      BY <1>3, <1>6, <2>1, <2>2, HeldShrinks
  <1>9. CASE ok
    <2>1. mem' = [n EXCEPT ![t] = r]
      BY <1>1, <1>2, <1>9
    <2>2. mem'[t] = r /\ \A u \in Tasks \ {t} : mem'[u] = n[u]
      BY <2>1, <1>5
    <2>3. PinnedBars'
      BY <1>6, <1>7, <2>2 DEF PinnedBars
    <2>4. Held(mem') = Held(n) \cup {t}
      BY <2>2, <1>7 DEF Held
    <2>5. IsFiniteSet(Held(n)) /\ IsFiniteSet(Held(mem)) /\ IsFiniteSet(EndedIn(mem)) /\ IsFiniteSet(LiveIn(mem))
      BY <1>4, <1>6, HeldParts, FS_Subset DEF Bounded
    <2>6. IsFiniteSet(Held(mem')) /\ Cardinality(Held(mem')) <= Cardinality(Held(n)) + 1
      <3>1. Cardinality(Held(n)) \in Nat
        BY <2>5, FS_CardinalityType
      <3>2. /\ IsFiniteSet(Held(n) \cup {t})
            /\ Cardinality(Held(n) \cup {t}) =
                 IF t \in Held(n) THEN Cardinality(Held(n)) ELSE Cardinality(Held(n)) + 1
        BY <2>5, FS_AddElement
      <3>3. QED
        BY <2>4, <3>1, <3>2
    <2>7. ASSUME MaxTerminal > 0 PROVE Cardinality(Held(mem')) <= MaxTerminal + Limit
      <3>1. /\ LiveIn(n) = LiveIn(mem) /\ IsFiniteSet(EndedIn(n))
            /\ Cardinality(EndedIn(n)) <= MaxTerminal
        BY <1>1, <1>2, <1>4, <2>5, <2>7, EvictedFits
      <3>2. Held(n) = LiveIn(n) \cup EndedIn(n) /\ LiveIn(n) \cap EndedIn(n) = {}
        BY <1>5, HeldParts
      <3>3. Cardinality(Held(n)) = Cardinality(LiveIn(n)) + Cardinality(EndedIn(n)) - Cardinality({})
        BY <2>5, <3>1, <3>2, FS_Union
      <3>4. /\ Cardinality({}) = 0 /\ Cardinality(LiveIn(n)) \in Nat
            /\ Cardinality(EndedIn(n)) \in Nat /\ Cardinality(Held(mem')) \in Nat
            /\ Limit \in Nat /\ MaxTerminal \in Nat
        BY <2>5, <2>6, <3>1, FS_EmptySet, FS_CardinalityType, TableAssumption
      <3>5. QED
        BY <1>3, <2>6, <3>1, <3>3, <3>4
    <2>8. QED
      BY <1>3, <2>3, <2>6, <2>7 DEF Bounded, TableBounded
  <1>10. QED
    BY <1>8, <1>9

(* A transition replaces a live record, and pins it only as it closes      *)
(* admission.                                                              *)
LEMMA TransitionBounded ==
  ASSUME Inv, Bounded, Serving, phase' = phase, NEW t \in Tasks, mem[t].state \in Live,
         NEW q \in Record, q.pinned => storeErr', storeErr => storeErr',
         Trimmed([mem EXCEPT ![t] = q], mem')
  PROVE  Bounded'
  <1>1. PICK m : m = [mem EXCEPT ![t] = q]
    OBVIOUS
  <1>2. /\ m \in [Tasks -> Record] /\ m[t] = q /\ \A u \in Tasks \ {t} : m[u] = mem[u]
        /\ Trimmed(m, mem')
    BY <1>1 DEF Inv, TypeOK
  <1>3. Held(mem') \subseteq Held(m) /\ \A u \in Tasks : mem'[u].pinned => m[u].pinned
    BY <1>2, TrimmedHeld
  <1>4. Held(m) \subseteq Held(mem)
    BY <1>2 DEF Held, Live
  <1>5. PinnedBars'
    BY <1>2, <1>3 DEF PinnedBars, Bounded
  <1>6. QED
    BY <1>3, <1>4, <1>5, HeldShrinks DEF Serving

LEMMA MarkRunningBounded ==
  ASSUME Inv, Bounded, NEW t \in Tasks, MarkRunning(t)
  PROVE  Bounded'
  <1> DEFINE r == [mem[t] EXCEPT !.state = "running"]
  <1>1. PICK ok \in Outcomes :
          storeErr' = (storeErr \/ ~ok) /\ mem' = [mem EXCEPT ![t] = Persisted(r, ok)]
    BY DEF MarkRunning
  <1>2. Serving /\ phase' = phase /\ mem[t].state \in Live
    BY DEF MarkRunning, Live
  <1>3. r \in Record /\ ~r.pinned
    BY <1>2, LiveRecord DEF Record, Live
  <1> HIDE DEF r
  <1>4. /\ Persisted(r, ok) \in Record /\ Persisted(r, ok).pinned = ~ok
        /\ ok \in BOOLEAN
    BY <1>2, <1>3, OutcomeType, Persisted1
  <1>5. Trimmed([mem EXCEPT ![t] = Persisted(r, ok)], mem')
    BY <1>1, <1>4 DEF Trimmed, Inv, TypeOK
  <1>6. (Persisted(r, ok).pinned => storeErr') /\ (storeErr => storeErr')
    BY <1>1, <1>4
  <1>7. QED
    BY <1>2, <1>4, <1>5, <1>6, TransitionBounded

LEMMA FinishBounded ==
  ASSUME Inv, Bounded, NEW t \in Tasks, NEW from, NEW to \in Terminal, from \subseteq Live,
         Finish(t, from, to)
  PROVE  Bounded'
  <1> DEFINE r == [mem[t] EXCEPT !.state = to, !.fin = now]
  <1>1. PICK ok \in Outcomes :
          /\ storeErr' = (storeErr \/ ~ok)
          /\ EvictInto([mem EXCEPT ![t] = Persisted(r, ok)])
    BY DEF Finish
  <1>2. Serving /\ phase' = phase /\ mem[t].state \in Live
    BY DEF Finish
  <1>3. r \in Record /\ ~r.pinned
    BY <1>2, LiveRecord DEF Record, Live, Terminal, Inv, TypeOK
  <1> HIDE DEF r
  <1>4. /\ Persisted(r, ok) \in Record /\ Persisted(r, ok).pinned = ~ok
        /\ ok \in BOOLEAN
    BY <1>2, <1>3, OutcomeType, Persisted1
  <1>5. Trimmed([mem EXCEPT ![t] = Persisted(r, ok)], mem')
    BY <1>1, <1>4, Trimming DEF EvictInto, Inv, TypeOK
  <1>6. (Persisted(r, ok).pinned => storeErr') /\ (storeErr => storeErr')
    BY <1>1, <1>4
  <1>7. QED
    BY <1>2, <1>4, <1>5, <1>6, TransitionBounded

(* A reloaded entry joins a table of ended, unpinned records, which is     *)
(* then evicted down to the cap.                                           *)
LEMMA LoadTaskBounded ==
  ASSUME Inv, Bounded, NEW t \in Tasks, LoadTask(t)
  PROVE  Bounded'
  <1>1. PICK m : m = [mem EXCEPT ![t] = Reload(t)]
    OBVIOUS
  <1>2. PICK V \in SUBSET Tasks :
          CapVictims(AfterTTL(m), V) /\ mem' = Drop(AfterTTL(m), V)
    BY <1>1 DEF LoadTask, EvictInto
  <1>3. phase = "loading" /\ phase' = phase /\ storeErr' = storeErr /\ t \in toLoad
    BY DEF LoadTask
  <1>4. Reload(t) \in Record /\ ~Reload(t).pinned /\ Reload(t).state \in Terminal
    BY <1>3, Reloaded
  <1>5. /\ m \in [Tasks -> Record] /\ m[t] = Reload(t)
        /\ \A u \in Tasks \ {t} : m[u] = mem[u]
    BY <1>1, <1>4 DEF Inv, TypeOK
  <1>6. \A u \in Tasks : ~m[u].pinned /\ m[u].state \notin Live
    BY <1>3, <1>4, <1>5 DEF Inv, PinnedEnded, Serving, LoadingSound, Live, Terminal
  <1>7. Trimmed(m, mem') /\ mem' \in [Tasks -> Record]
    BY <1>2, <1>5, Trimming DEF Trimmed
  <1>8. \A u \in Tasks : ~mem'[u].pinned
    BY <1>5, <1>6, <1>7, TrimmedHeld
  <1>9. PinnedBars'
    BY <1>8 DEF PinnedBars
  <1>10. EndedIn(m) \subseteq Held(mem) \cup {t}
    BY <1>5 DEF EndedIn, Held, Terminal
  <1>11. IsFiniteSet(EndedIn(m)) /\ IsFiniteSet(Held(mem'))
    <2>1. IsFiniteSet(Held(mem) \cup {t}) /\ IsFiniteSet(EndedIn(m))
      BY <1>10, FS_AddElement, FS_Subset DEF Bounded
    <2>2. Held(mem') \subseteq Held(m) /\ Held(m) = EndedIn(m)
      <3>1. LiveIn(m) = {}
        BY <1>6 DEF LiveIn
      <3>2. Held(m) = LiveIn(m) \cup EndedIn(m)
        BY <1>5, HeldParts
      <3>3. Held(mem') \subseteq Held(m)
        BY <1>5, <1>7, TrimmedHeld
      <3>4. QED
        BY <3>1, <3>2, <3>3
    <2>3. QED
      BY <2>1, <2>2, FS_Subset
  <1>12. ASSUME MaxTerminal > 0 PROVE Cardinality(Held(mem')) <= MaxTerminal
    <2>1. LiveIn(mem') = LiveIn(m) /\ Cardinality(EndedIn(mem')) <= MaxTerminal
      BY <1>2, <1>5, <1>6, <1>11, <1>12, EvictedFits
    <2>2. Held(mem') = EndedIn(mem')
      BY <1>6, <1>7, <2>1, HeldParts DEF LiveIn
    <2>3. QED
      BY <2>1, <2>2
  <1>13. TableBounded'
    BY <1>11, <1>12, FS_CardinalityType, TableAssumption DEF TableBounded
  <1>14. QED
    BY <1>9, <1>11, <1>12, <1>13 DEF Bounded

LEMMA GoneBounded ==
  ASSUME Bounded, Gone
  PROVE  Bounded'
  <1>1. Held(mem') = {} /\ \A t \in Tasks : ~mem'[t].pinned
    BY DEF Gone, Held, NoMemory, Absent
  <1>2. PinnedBars'
    BY <1>1 DEF PinnedBars
  <1>3. QED
    BY <1>1, <1>2, HeldShrinks DEF Gone

LEMMA StepBounded == Inv /\ Bounded /\ [Next]_vars => Bounded'
  <1> SUFFICES ASSUME Inv, Bounded, [Next]_vars PROVE Bounded'
    OBVIOUS
  <1>1. ASSUME NEW t \in Tasks, Admit(t) PROVE Bounded'
    BY <1>1, AdmitBounded
  <1>2. ASSUME NEW t \in Tasks, MarkRunning(t) PROVE Bounded'
    BY <1>2, MarkRunningBounded
  <1>3. ASSUME NEW t \in Tasks, MarkDone(t) \/ MarkErrored(t) \/ Cancel(t) PROVE Bounded'
    BY <1>3, FinishBounded DEF MarkDone, MarkErrored, Cancel, Live, Terminal
  <1>4. ASSUME NEW t \in Tasks, LoadTask(t) PROVE Bounded'
    BY <1>4, LoadTaskBounded
  <1>5. ASSUME NEW t \in Tasks, LoadFails(t) PROVE Bounded'
    BY <1>5, GoneBounded DEF LoadFails
  <1>6. ASSUME NEW s \in Sessions, DeregisterSession(s) PROVE Bounded'
    <2>1. \A t \in Tasks : /\ mem'[t].state # "absent" => mem[t].state # "absent"
                           /\ mem'[t].pinned = mem[t].pinned
      <3> SUFFICES ASSUME NEW t \in Tasks
                   PROVE  /\ mem'[t].state # "absent" => mem[t].state # "absent"
                          /\ mem'[t].pinned = mem[t].pinned
        OBVIOUS
      <3>1. mem[t] \in Record
        BY DEF Inv, TypeOK
      <3>2. \/ mem'[t] = mem[t]
            \/ /\ mem[t].state = "queued"
               /\ mem'[t] = [mem[t] EXCEPT !.state = "cancelled", !.fin = now]
        BY <1>6 DEF DeregisterSession
      <3>3. QED
        BY <3>1, <3>2 DEF Record
    <2>2. phase' = phase /\ storeErr' = storeErr
      BY <1>6 DEF DeregisterSession
    <2>3. Held(mem') \subseteq Held(mem) /\ PinnedBars'
      BY <2>1, <2>2 DEF Held, PinnedBars, Bounded
    <2>4. QED
      BY <2>2, <2>3, HeldShrinks
  <1>7. CASE Crash
    BY <1>7, GoneBounded DEF Crash
  <1>8. CASE Tick \/ ClosePersistence \/ FinishLoading \/ Restart \/ UNCHANGED vars
    <2>1. mem' = mem /\ storeErr' = storeErr
      BY <1>8 DEF Tick, ClosePersistence, FinishLoading, Restart, vars
    <2>2. phase' = "loading" => phase = "loading" \/ phase = "down"
      BY <1>8 DEF Tick, ClosePersistence, FinishLoading, Restart, vars
    <2>3. phase = "down" => Held(mem) = {}
      BY DEF Inv, LoadingSound, Held, NoMemory, Absent
    <2>4. PinnedBars'
      BY <2>1 DEF PinnedBars, Bounded
    <2>5. QED
      BY <2>1, <2>2, <2>3, <2>4, HeldShrinks
  <1>9. QED
    BY <1>1, <1>2, <1>3, <1>4, <1>5, <1>6, <1>7, <1>8 DEF Next

LEMMA InitBounded == Init => Bounded
  <1> SUFFICES ASSUME Init PROVE Bounded
    OBVIOUS
  <1>1. /\ phase = "up" /\ Held(mem) = {} /\ \A t \in Tasks : ~mem[t].pinned
    BY DEF Init, Held, NoMemory, Absent
  <1>2. IsFiniteSet(Held(mem)) /\ Cardinality(Held(mem)) = 0
    BY <1>1, FS_EmptySet
  <1>3. QED
    BY <1>1, <1>2, TableAssumption DEF Bounded, PinnedBars, TableBounded

(* However tasks are drawn (any number of them), however often archive     *)
(* writes fail, sessions deregister with cancel_queued and brokers restart *)
(* over a full archive, the table of a broker with a cap holds at most     *)
(* MaxTerminal + Limit records.                                            *)
THEOREM TableStaysBounded == Spec => []TableBounded
  <1>1. Bounded => TableBounded
    BY DEF Bounded
  <1>2. QED
    BY <1>1, InitBounded, StepBounded, Invariance, PTL DEF Spec

=============================================================================
