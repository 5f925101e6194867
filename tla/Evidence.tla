------------------------------- MODULE Evidence -------------------------------
(***************************************************************************)
(* What a dispatch leaves as evidence of its turn: the snapshots of the    *)
(* working tree before and after, the records it seals in a private store, *)
(* the copies it exports to a run directory that the turn can write to,    *)
(* and the clean verification that later decides what to trust             *)
(* (src/internal/dispatch/run.go; src/internal/diff/snapshot.go;           *)
(* src/internal/authority/authority.go; src/scripts/clean_verify.py).      *)
(* All dispatches share one working tree.  Git objects, the saved index    *)
(* and the digests are abstracted to the contents they stand for.          *)
(***************************************************************************)
EXTENDS Integers, FiniteSets

CONSTANTS
  Dispatches,
  Files,
  Contents,    \* contents of a file; Absent is one of them
  Absent,
  Dirs,        \* run directories
  None,        \* a record that does not exist
  Forged,      \* what a turn writes over an export
  MaxEdits,    \* bound: edits of the working tree, its ignore rules, its index
               \* and its HEAD
  MaxTampers   \* bound: exports overwritten or removed by a turn

Trees == [Files -> Contents]
Heads == 0 .. 1

ASSUME EvidenceAssumption ==
  /\ Absent \in Contents
  /\ None # Forged /\ {None, Forged} \cap Contents = {}
  /\ MaxEdits \in Nat /\ MaxTampers \in Nat

VARIABLES
  DirOf,    \* the run directory each dispatch is given; two may share one
  tree,     \* the working tree
  hidden,   \* files that git would not list: ignored and not in the index
  head,     \* HEAD of the repository: the user may commit once
  at,       \* where runWithContext is
  started,  \* headSha, read at first
  held,     \* the Baseline kept in memory: head and tree of the snapshot
  seen,     \* the files read so far for the snapshot being taken
  exit,     \* exitCode
  diffPath, \* does the result name a diff?
  private,  \* the store of a dispatch: authority, patch, capture, result, terminal
  public,   \* a run directory: head, snapshot, patch, result
  verifier, \* clean_verify on a run directory
  edits, tampers,
  touched,  \* history: files written, or listed otherwise, since a dispatch
            \* began its snapshot
  stuck,    \* history: dispatches that could not remove their patch
  left      \* history: the tree of the snapshot taken after the turn

working  == <<tree, hidden, head, edits, touched>>
progress == <<DirOf, at, started, held, seen, exit, diffPath, stuck, left>>
vars == <<working, progress, private, public, verifier, tampers>>

NoStore  == [authority |-> None, patch |-> None, capture |-> None, result |-> None, terminal |-> None]
NoDir    == [head |-> None, snapshot |-> None, patch |-> None, result |-> None]
Idle     == [dir |-> None, head |-> None, run |-> None, tree |-> None]

Init ==
  /\ DirOf \in [Dispatches -> Dirs]
  /\ tree \in Trees /\ hidden \in SUBSET {f \in Files : tree[f] # Absent} /\ head = 0
  /\ at = [d \in Dispatches |-> "start"]
  /\ started = [d \in Dispatches |-> None]
  /\ held = [d \in Dispatches |-> None]
  /\ seen = [d \in Dispatches |-> <<>>]
  /\ exit = [d \in Dispatches |-> 0]
  /\ diffPath = [d \in Dispatches |-> FALSE]
  /\ private = [d \in Dispatches |-> NoStore]
  /\ public = [r \in Dirs |-> NoDir]
  /\ verifier = Idle
  /\ edits = 0 /\ tampers = 0
  /\ touched = [d \in Dispatches |-> {}]
  /\ stuck = {}
  /\ left = [d \in Dispatches |-> None]

-----------------------------------------------------------------------------
Go(d, phase) == at' = [at EXCEPT ![d] = phase]

(* WriteAtomic: a rename over whatever was there. *)
Export(d, leaf, value) == public' = [public EXCEPT ![DirOf[d]][leaf] = value]

(* PublishFile: a hard link, which fails if the name exists. *)
Publish(d, leaf, value) ==
  /\ private[d][leaf] = None
  /\ private' = [private EXCEPT ![d][leaf] = value]

(* The process is over, its memory too. *)
Gone(d) ==
  /\ Go(d, "over")
  /\ started' = [started EXCEPT ![d] = None]
  /\ held' = [held EXCEPT ![d] = None]
  /\ seen' = [seen EXCEPT ![d] = <<>>]
  /\ exit' = [exit EXCEPT ![d] = 0]
  /\ diffPath' = [diffPath EXCEPT ![d] = FALSE]

(* A dispatch dies, or returns 1 without a result: git, the disk, the      *)
(* prompt or the broker failed it.                                         *)
Fail(d) ==
  /\ at[d] \notin {"start", "over"}
  /\ Gone(d)
  /\ UNCHANGED <<working, DirOf, stuck, left, private, public, verifier, tampers>>

ReadHead(d) ==
  /\ at[d] = "start"
  /\ started' = [started EXCEPT ![d] = head]
  /\ Export(d, "head", head)
  /\ Go(d, "baseline")
  /\ UNCHANGED <<working, DirOf, stuck, left, held, seen, exit, diffPath, private, verifier, tampers>>

(* snapshotTree lists the files first (ls-files --cached --others          *)
(* --exclude-standard): an ignored file that the index does not name is    *)
(* left out, and one that appears later is missed, unless the index names  *)
(* it.  Then it reads the files of the list one by one.                    *)
ListFiles(d) ==
  \E missed \in SUBSET {f \in Files : tree[f] = Absent} :
    seen' = [seen EXCEPT ![d] = [f \in hidden \cup missed |-> Absent]]

(* saveSnapshot asks for HEAD again. *)
BeginSnapshot(d) ==
  /\ at[d] = "baseline" /\ ListFiles(d)
  /\ held' = [held EXCEPT ![d] = [run |-> d, head |-> head, tree |-> None]]
  /\ touched' = [touched EXCEPT ![d] = {}]
  /\ Go(d, "before")
  /\ UNCHANGED <<tree, hidden, head, edits, DirOf, stuck, left, started, exit, diffPath, private, public, verifier, tampers>>

ReadFile(d, f) ==
  /\ at[d] \in {"before", "after"} /\ f \notin DOMAIN seen[d]
  /\ seen' = [seen EXCEPT ![d] = [g \in DOMAIN seen[d] \cup {f} |-> IF g = f THEN tree[f] ELSE seen[d][g]]]
  /\ UNCHANGED <<working, DirOf, stuck, left, at, started, held, exit, diffPath, private, public, verifier, tampers>>

Complete(d) == DOMAIN seen[d] = Files

SealBaseline(d) ==
  /\ at[d] = "before" /\ Complete(d)
  /\ held' = [held EXCEPT ![d].tree = seen[d]]
  /\ UNCHANGED seen
  /\ Publish(d, "authority", [head |-> held[d].head, tree |-> seen[d], dir |-> DirOf[d]])
  /\ Go(d, "export")
  /\ UNCHANGED <<working, DirOf, stuck, left, started, exit, diffPath, public, verifier, tampers>>

ExportSnapshot(d) ==
  /\ at[d] = "export"
  /\ Export(d, "snapshot", held[d])
  /\ Go(d, "turn")
  /\ UNCHANGED <<working, DirOf, stuck, left, started, held, seen, exit, diffPath, private, verifier, tampers>>

-----------------------------------------------------------------------------
(* Codex edits the tree, and so may the user.  Only edits after the first  *)
(* listing of a dispatch are told apart from the tree it starts with.      *)
Window == {"before", "export", "turn", "check", "after"}

EditBegins ==
  /\ edits < MaxEdits /\ \E d \in Dispatches : at[d] \in Window
  /\ edits' = edits + 1

Touch(f) ==
  touched' = [d \in Dispatches |-> touched[d] \cup IF at[d] \in Window THEN {f} ELSE {}]

Edit(f) ==
  /\ EditBegins /\ Touch(f)
  /\ \E c \in Contents \ {tree[f]} : tree' = [tree EXCEPT ![f] = c]
  /\ UNCHANGED <<hidden, head, progress, private, public, verifier, tampers>>

(* A rule of .gitignore comes or goes, git add -f, git rm --cached. *)
Relist(f) ==
  /\ EditBegins /\ Touch(f)
  /\ hidden' = IF f \in hidden THEN hidden \ {f} ELSE hidden \cup {f}
  /\ UNCHANGED <<tree, head, progress, private, public, verifier, tampers>>

(* A commit matters between the two readings of HEAD. *)
Commit ==
  /\ \E d \in Dispatches : at[d] = "baseline"
  /\ edits < MaxEdits /\ edits' = edits + 1
  /\ head = 0 /\ head' = 1
  /\ UNCHANGED <<tree, hidden, touched, progress, private, public, verifier, tampers>>

Descriptor(d) == [run |-> d, head |-> private[d].authority.head, tree |-> private[d].authority.tree]

(* The run directories lie in the workspace: a turn may write there what   *)
(* is read back later: another patch, the descriptor of another dispatch.  *)
(* (A directory that no dispatch has is never verified: no HEAD is there.) *)
Tamper(d) ==
  /\ at[d] = "turn" /\ tampers < MaxTampers
  /\ tampers' = tampers + 1
  /\ \E r \in {DirOf[e] : e \in Dispatches} :
       \/ public' = [public EXCEPT ![r].patch = Forged]
       \/ \E e \in Dispatches :
            /\ private[e].authority # None /\ public[r].snapshot # Descriptor(e)
            /\ public' = [public EXCEPT ![r].snapshot = Descriptor(e)]
  /\ UNCHANGED <<working, progress, private, verifier>>

(* codex.Fresh or codex.Resume returns; an exit code that is not 0 stays. *)
TurnEnds(d) ==
  /\ at[d] = "turn"
  /\ \E rc \in {0, 64} : exit' = [exit EXCEPT ![d] = rc]
  /\ Go(d, "check")
  /\ UNCHANGED <<working, DirOf, stuck, left, started, held, seen, diffPath, private, public, verifier, tampers>>

(* handleCanceled: a result without a diff. *)
TurnCanceled(d) ==
  /\ at[d] = "turn"
  /\ exit' = [exit EXCEPT ![d] = 124]
  /\ Go(d, "seal")
  /\ UNCHANGED <<working, DirOf, stuck, left, started, held, seen, diffPath, private, public, verifier, tampers>>

-----------------------------------------------------------------------------
(* Capture and captureSnapshot: the export is as it was made, the private  *)
(* records too, and HEAD did not move between its two readings.            *)
ExportIntact(d) == public[DirOf[d]].snapshot = held[d] /\ started[d] = held[d].head

CheckExport(d) ==
  /\ at[d] = "check" /\ ExportIntact(d) /\ ListFiles(d)
  /\ Go(d, "after")
  /\ UNCHANGED <<working, DirOf, stuck, left, started, held, exit, diffPath, private, public, verifier, tampers>>

(* Mutant: the changes are those against the commit. *)
BaseCommitted(d) == [f \in Files |-> Absent]
Base(d) == held[d].tree

Changed(base, after) == {f \in Files : base[f] # after[f]}
Patch(base, after) == [f \in Changed(base, after) |-> after[f]]

SealPatch(d) ==
  /\ at[d] = "after" /\ Complete(d)
  /\ Publish(d, "patch", Patch(Base(d), seen[d]))
  /\ left' = [left EXCEPT ![d] = seen[d]]
  /\ seen' = [seen EXCEPT ![d] = <<>>]
  /\ Go(d, "capture")
  /\ UNCHANGED <<working, DirOf, stuck, started, held, exit, diffPath, public, verifier, tampers>>

SealCapture(d) ==
  /\ at[d] = "capture"
  /\ Publish(d, "capture", [head |-> held[d].head, tree |-> held[d].tree, dir |-> DirOf[d],
                            patch |-> private[d].patch])
  /\ Go(d, "exportpatch")
  /\ UNCHANGED <<working, DirOf, stuck, left, started, held, seen, exit, diffPath, public, verifier, tampers>>

(* The record names who exported it; the file is the patch alone. *)
ExportPatch(d) ==
  /\ at[d] = "exportpatch"
  /\ Export(d, "patch", [by |-> d, patch |-> private[d].patch])
  /\ Go(d, "stats")
  /\ UNCHANGED <<working, DirOf, stuck, left, started, held, seen, exit, diffPath, private, verifier, tampers>>

CapturedExit(d) == IF exit[d] = 0 /\ DOMAIN private[d].patch = {} THEN 4 ELSE exit[d]

(* The statistics are written; Capture returns. *)
Captured(d) ==
  /\ at[d] = "stats"
  /\ diffPath' = [diffPath EXCEPT ![d] = TRUE]
  /\ exit' = [exit EXCEPT ![d] = CapturedExit(d)]
  /\ Go(d, "seal")
  /\ UNCHANGED <<working, DirOf, stuck, left, started, held, seen, private, public, verifier, tampers>>

(* Never leave a partial or stale patch consumable: os.Remove, whose error *)
(* nobody looks at.                                                        *)
(* Mutant: the exported patch stays. *)
WithdrawNever(d) == UNCHANGED <<public, stuck>>
Withdraw(d) ==
  \/ Export(d, "patch", None) /\ UNCHANGED stuck
  \/ public[DirOf[d]].patch # None /\ stuck' = stuck \cup {d} /\ UNCHANGED public

(* Missing evidence is a failure: the result names no diff. *)
CaptureFails(d) ==
  /\ at[d] \in {"check", "after", "capture", "exportpatch", "stats"}
  /\ exit' = [exit EXCEPT ![d] = 1]
  /\ diffPath' = [diffPath EXCEPT ![d] = FALSE]
  /\ Withdraw(d)
  /\ Go(d, "seal")
  /\ UNCHANGED <<working, DirOf, left, started, held, seen, private, verifier, tampers>>

-----------------------------------------------------------------------------
(* SealResult: result.json, then terminal.json, both private.              *)
State(rc) ==
  CASE rc = 0 -> "SUCCEEDED" [] rc = 4 -> "NO_CHANGES" [] rc = 124 -> "CANCELED" [] OTHER -> "FAILED"

Result(d) == [run |-> d, exit |-> exit[d], diffPath |-> diffPath[d]]

SealResult(d) ==
  /\ at[d] = "seal"
  /\ exit[d] \in {0, 4} => diffPath[d]
  /\ diffPath[d] => private[d].capture # None
  /\ Publish(d, "result", Result(d))
  /\ Go(d, "terminal")
  /\ UNCHANGED <<working, DirOf, stuck, left, started, held, seen, exit, diffPath, public, verifier, tampers>>

(* Mutant: the digest is that of the patch in the run directory. *)
SealedPatchPublic(d) == IF public[DirOf[d]].patch \in {None, Forged} THEN None ELSE public[DirOf[d]].patch.patch
SealedPatch(d) == private[d].capture.patch

SealTerminal(d) ==
  /\ at[d] = "terminal"
  /\ Publish(d, "terminal", [state |-> State(exit[d]), result |-> private[d].result,
                             patch |-> IF diffPath[d] THEN SealedPatch(d) ELSE None])
  /\ Go(d, "report")
  /\ UNCHANGED <<working, DirOf, stuck, left, started, held, seen, exit, diffPath, public, verifier, tampers>>

Report(d) ==
  /\ at[d] = "report"
  /\ Export(d, "result", Result(d))
  /\ Gone(d)
  /\ UNCHANGED <<working, DirOf, stuck, left, private, verifier, tampers>>

-----------------------------------------------------------------------------
(* clean_verify on a run directory: it reads HEAD and the descriptor, and  *)
(* the patch later, while dispatches go on.                                *)
VerifyDescriptor(r) ==
  /\ verifier = Idle
  /\ public[r].patch # None
  /\ LET s == public[r].snapshot IN
       /\ s # None /\ s.head = public[r].head
       /\ verifier' = [dir |-> r, head |-> s.head, run |-> s.run, tree |-> s.tree]
  /\ UNCHANGED <<working, progress, private, public, tampers>>

(* Mutant: the directory is not part of the binding. *)
BindsAnywhere(record, v) == record # None /\ record.head = v.head /\ record.tree = v.tree
Binds(record, v) == record # None /\ record.head = v.head /\ record.tree = v.tree /\ record.dir = v.dir

PatchAgrees(bytes, sealed) == bytes = sealed

Bytes(export) == IF export \in {None, Forged} THEN export ELSE export.patch

(* The private records never change, so it does not matter when they are   *)
(* read.  The patch is read once: the bytes compared are the bytes applied. *)
Accepted ==
  /\ verifier # Idle /\ public[verifier.dir].patch # None
  /\ Binds(private[verifier.run].authority, verifier)
  /\ Binds(private[verifier.run].capture, verifier)
  /\ PatchAgrees(Bytes(public[verifier.dir].patch), private[verifier.run].patch)

(* It accepts, or raises InvalidBaseline; one may verify again. *)
VerifyEnds ==
  /\ verifier # Idle /\ verifier' = Idle
  /\ UNCHANGED <<working, progress, private, public, tampers>>

-----------------------------------------------------------------------------
DispatchStep(d) ==
  \/ Fail(d) \/ ReadHead(d) \/ BeginSnapshot(d)
  \/ \E f \in Files : ReadFile(d, f)
  \/ SealBaseline(d) \/ ExportSnapshot(d) \/ Tamper(d)
  \/ TurnEnds(d) \/ TurnCanceled(d) \/ CheckExport(d) \/ SealPatch(d) \/ SealCapture(d)
  \/ ExportPatch(d) \/ Captured(d) \/ CaptureFails(d)
  \/ SealResult(d) \/ SealTerminal(d) \/ Report(d)

Next ==
  \/ \E d \in Dispatches : DispatchStep(d)
  \/ \E f \in Files : Edit(f) \/ Relist(f)
  \/ Commit
  \/ \E r \in Dirs : VerifyDescriptor(r)
  \/ VerifyEnds

Spec == Init /\ [][Next]_vars

-----------------------------------------------------------------------------
(* The type invariant. *)
Phases == {"start", "baseline", "before", "export", "turn", "check", "after", "capture",
           "exportpatch", "stats", "seal", "terminal", "report", "over"}
Exits == {0, 1, 4, 64, 124}
Patches == UNION {[F -> Contents] : F \in SUBSET Files}
Results == [run : Dispatches, exit : Exits, diffPath : BOOLEAN]
Descriptors == [run : Dispatches, head : Heads, tree : Trees]
Snapshots == [run : Dispatches, head : Heads, tree : Trees \cup {None}]
Authorities == [head : Heads, tree : Trees, dir : Dirs]
Captures == [head : Heads, tree : Trees, dir : Dirs, patch : Patches]
Terminals == [state : {"SUCCEEDED", "NO_CHANGES", "CANCELED", "FAILED"}, result : Results,
              patch : Patches \cup {None}]
Exported == [by : Dispatches, patch : Patches]
Readings == [dir : Dirs, head : Heads, run : Dispatches, tree : Trees]

Stores == [authority : Authorities \cup {None}, patch : Patches \cup {None},
           capture : Captures \cup {None}, result : Results \cup {None},
           terminal : Terminals \cup {None}]
Directories == [head : Heads \cup {None}, snapshot : Descriptors \cup {None},
                patch : Exported \cup {None, Forged}, result : Results \cup {None}]

(* The absence of a record is no record, nor is what a turn forged. *)
ASSUME AbsenceAssumption ==
  \A x \in {None, Forged} : \A S \in {Trees, Patches, Authorities, Captures, Results, Terminals} : x \notin S

TypeOK ==
  /\ DirOf \in [Dispatches -> Dirs]
  /\ tree \in Trees /\ hidden \subseteq Files /\ head \in Heads
  /\ at \in [Dispatches -> Phases]
  /\ started \in [Dispatches -> Heads \cup {None}]
  /\ held \in [Dispatches -> Snapshots \cup {None}]
  /\ seen \in [Dispatches -> Patches]
  /\ exit \in [Dispatches -> Exits] /\ diffPath \in [Dispatches -> BOOLEAN]
  /\ private \in [Dispatches -> Stores] /\ public \in [Dirs -> Directories]
  /\ verifier \in Readings \cup {Idle}
  /\ touched \in [Dispatches -> SUBSET Files] /\ stuck \subseteq Dispatches
  /\ left \in [Dispatches -> Trees \cup {None}]

(* A terminal record speaks of evidence that exists: one that says         *)
(* SUCCEEDED or NO_CHANGES names the patch computed from the snapshots     *)
(* around this very turn, and tells a turn that edited from one that did   *)
(* not, whatever turns wrote over the exports meanwhile.                   *)
TerminalIsSealedEvidence ==
  \A d \in Dispatches : LET t == private[d].terminal IN
    t # None /\ t.state \in {"SUCCEEDED", "NO_CHANGES"} =>
      /\ private[d].capture # None
      /\ t.patch = Patch(private[d].authority.tree, left[d])
      /\ t.state = "SUCCEEDED" <=> left[d] # private[d].authority.tree

(* The result in a run directory is the one sealed in the store of its     *)
(* dispatch, with a terminal record beside it, even if the controller died *)
(* right after.                                                            *)
ReportedIsSealed ==
  \A r \in Dirs : LET res == public[r].result IN
    res # None => private[res.run].terminal # None /\ res = private[res.run].result

(* The records of a dispatch are sealed before anything is reported, and   *)
(* say what its turn did (snapshot.go:222-270, run.go:220-232).            *)
SealedEvidence == TypeOK /\ TerminalIsSealedEvidence /\ ReportedIsSealed

(* A patch holds only files that were written between the two snapshots of *)
(* its dispatch, or that git came to list, or ceased to, in between: other *)
(* work that was in the tree before is never attributed to the dispatch    *)
(* (snapshot.go:59-116, 222-270).                                          *)
PreexistingExcluded ==
  \A d \in Dispatches : private[d].patch # None => DOMAIN private[d].patch \subseteq touched[d]

(* A result that a dispatch reports without naming a diff leaves none of   *)
(* its own patches in the run directory for a consumer to pick up, unless  *)
(* the removal itself failed (run.go:180-189).                             *)
NoStalePatch ==
  \A r \in Dirs : LET res == public[r].result  export == public[r].patch IN
    (res # None /\ export \notin {None, Forged} /\ export.by = res.run) =>
      res.diffPath \/ res.run \in stuck

Applied(base, patch) == [f \in Files |-> IF f \in DOMAIN patch THEN patch[f] ELSE base[f]]

(* What clean verification accepts in a run directory is a run that was    *)
(* made in that directory, and the tree it materializes and patches is     *)
(* the one that run left, although exports change while they are read      *)
(* (clean_verify.py:149-251).                                              *)
VerifiedIsWhatWasLeft ==
  Accepted =>
    LET bytes == Bytes(public[verifier.dir].patch) IN
      /\ DirOf[verifier.run] = verifier.dir
      /\ bytes # Forged
      /\ Applied(verifier.tree, bytes) = left[verifier.run]

=============================================================================
