---------------------------- MODULE EvidenceProofs ----------------------------
(***************************************************************************)
(* Theorems about Evidence, for any dispatches, run directories, files and *)
(* contents, and any number of edits and forgeries.  The private records   *)
(* of a dispatch are written once and in order, each from what the process *)
(* still holds in memory; the exports decide nothing but whether a capture *)
(* succeeds.                                                               *)
(***************************************************************************)
EXTENDS Evidence, TLAPS

(* Where runWithContext is: before its patch is sealed, with a baseline in *)
(* memory, with the outcome decided.                                       *)
Uncaptured == {"start", "baseline", "before", "export", "turn", "check", "after"}
Baselined  == {"export", "turn", "check", "after", "capture", "exportpatch", "stats",
               "seal", "terminal", "report"}
Undecided  == Uncaptured \cup {"capture", "exportpatch", "stats"}
Decided    == {"seal", "terminal", "report"}

(* The baseline in memory is the one sealed, for the directory of the run. *)
BaselineHeld ==
  \A d \in Dispatches :
    /\ at[d] \in {"start", "baseline", "before"} => private[d].authority = None
    /\ at[d] = "before" => held[d] \in Snapshots /\ held[d].run = d
    /\ at[d] \in Baselined => private[d].authority # None /\ held[d] = Descriptor(d)
    /\ private[d].authority # None => private[d].authority.dir = DirOf[d]

(* The patch is the difference of the two snapshots, and the capture binds *)
(* it to the baseline.                                                     *)
PatchSealed ==
  \A d \in Dispatches :
    /\ at[d] \in Uncaptured => private[d].patch = None /\ private[d].capture = None /\ left[d] = None
    /\ at[d] = "capture" => private[d].patch # None
    /\ at[d] \in {"exportpatch", "stats"} => private[d].capture # None
    /\ private[d].patch # None =>
         /\ private[d].authority # None /\ left[d] # None
         /\ private[d].patch = Patch(private[d].authority.tree, left[d])
    /\ private[d].capture # None =>
         /\ private[d].patch # None
         /\ private[d].capture = [head |-> private[d].authority.head, tree |-> private[d].authority.tree,
                                  dir |-> DirOf[d], patch |-> private[d].patch]

(* An outcome of 0 or 4 is decided by the sealed patch alone. *)
OutcomeSound ==
  \A d \in Dispatches :
    /\ at[d] \in Undecided => ~diffPath[d] /\ exit[d] \in {0, 64}
    /\ at[d] \in Decided /\ diffPath[d] => private[d].capture # None
    /\ at[d] \in Decided /\ exit[d] = 0 /\ diffPath[d] => DOMAIN private[d].patch # {}
    /\ at[d] \in Decided /\ exit[d] = 4 /\ diffPath[d] => DOMAIN private[d].patch = {}
    /\ at[d] \in {"terminal", "report"} /\ exit[d] \in {0, 4} => diffPath[d]

(* Result and terminal record come in this order, and last. *)
ResultSealed ==
  \A d \in Dispatches :
    /\ at[d] \in Undecided \cup {"seal"} => private[d].result = None
    /\ at[d] \in Undecided \cup {"seal", "terminal"} => private[d].terminal = None
    /\ at[d] \in {"terminal", "report"} => private[d].result = Result(d)
    /\ at[d] = "report" => private[d].terminal # None

(* A dispatch stands by the patch it exported while it computes the        *)
(* statistics, when its outcome and its result say so, or when it could    *)
(* not remove the file.                                                    *)
StandsBy(d) ==
  /\ at[d] \in {"stats", "over"} \cup Decided
  /\ at[d] \in Decided => diffPath[d] \/ d \in stuck
  /\ private[d].result # None => private[d].result.diffPath \/ d \in stuck

(* A patch in a run directory is one of a run of that directory that still *)
(* stands by it.                                                           *)
ExportsOwned ==
  \A r \in Dirs : LET e == public[r].patch IN
    e \notin {None, Forged} => r = DirOf[e.by] /\ StandsBy(e.by)

ReportsOver ==
  \A r \in Dirs : public[r].result # None => at[public[r].result.run] = "over"

(* What a snapshot taken now would say of a file. *)
Listed(f) == IF f \in hidden THEN Absent ELSE tree[f]

(* A file neither written nor listed otherwise since a dispatch began its  *)
(* snapshot is as its snapshots have it.                                   *)
UntouchedAlike ==
  \A d \in Dispatches : \A f \in Files \ touched[d] :
    /\ at[d] \in {"before", "after"} /\ f \in DOMAIN seen[d] => seen[d][f] = Listed(f)
    /\ at[d] \in {"before", "after"} /\ f \notin DOMAIN seen[d] => f \notin hidden
    /\ at[d] \in {"export", "turn", "check", "after"} => held[d].tree[f] = Listed(f)

Inv ==
  /\ TypeOK /\ BaselineHeld /\ PatchSealed /\ OutcomeSound /\ ResultSealed
  /\ ExportsOwned /\ ReportsOver /\ UntouchedAlike
  /\ TerminalIsSealedEvidence /\ ReportedIsSealed /\ PreexistingExcluded

-----------------------------------------------------------------------------
(* A step that keeps the exported patches, and whoever stands by one,      *)
(* keeps the ownership of exports.                                         *)
LEMMA ExportsKept ==
  ASSUME TypeOK, ExportsOwned, DirOf' = DirOf,
         \A r \in Dirs : public'[r].patch = public[r].patch,
         \A e \in Dispatches : StandsBy(e) => StandsBy(e)'
  PROVE  ExportsOwned'
  <1> SUFFICES ASSUME NEW r \in Dirs, public[r].patch \notin {None, Forged}
               PROVE  r = DirOf[public[r].patch.by] /\ StandsBy(public[r].patch.by)'
    BY DEF ExportsOwned
  <1>1. public[r].patch.by \in Dispatches
    BY DEF TypeOK, Directories, Exported
  <1> QED
    BY <1>1 DEF ExportsOwned

(* A record is told from its absence. *)
LEMMA Present ==
  ASSUME NEW x \in {None, Forged}
  PROVE  /\ x \notin Trees /\ x \notin Patches /\ x \notin Authorities
         /\ x \notin Captures /\ x \notin Results /\ x \notin Terminals
  BY AbsenceAssumption

(* Patches are the functions from some of the files to contents. *)
LEMMA PatchType ==
  ASSUME NEW F \in SUBSET Files, NEW p \in [F -> Contents]
  PROVE  p \in Patches
  BY DEF Patches

(* ... and have no other domain or range. *)
LEMMA PatchDomain ==
  ASSUME NEW p \in Patches
  PROVE  DOMAIN p \subseteq Files /\ p \in [DOMAIN p -> Contents]
  BY DEF Patches

(* A tree is a patch of every file. *)
LEMMA TreeIsPatch ==
  ASSUME NEW p
  PROVE  /\ p \in Trees => p \in Patches /\ DOMAIN p = Files
         /\ p \in Patches /\ DOMAIN p = Files => p \in Trees
  BY PatchType, PatchDomain DEF Trees

(* The empty snapshot. *)
LEMMA NoFiles == <<>> \in Patches /\ DOMAIN <<>> = {}
  <1>1. DOMAIN <<>> = {}
    OBVIOUS
  <1>2. <<>> \in [{} -> Contents]
    OBVIOUS
  <1> QED
    BY <1>1, <1>2, PatchType

(* One record of a store is replaced. *)
LEMMA StoreKept ==
  ASSUME NEW s \in Stores
  PROVE  /\ \A x \in Authorities : [s EXCEPT !.authority = x] \in Stores
         /\ \A x \in Patches : [s EXCEPT !.patch = x] \in Stores
         /\ \A x \in Captures : [s EXCEPT !.capture = x] \in Stores
         /\ \A x \in Results : [s EXCEPT !.result = x] \in Stores
         /\ \A x \in Terminals : [s EXCEPT !.terminal = x] \in Stores
  BY DEF Stores

(* The same for a run directory. *)
LEMMA DirectoryKept ==
  ASSUME NEW s \in Directories
  PROVE  /\ \A x \in Heads : [s EXCEPT !.head = x] \in Directories
         /\ \A x \in Descriptors : [s EXCEPT !.snapshot = x] \in Directories
         /\ \A x \in Exported \cup {None, Forged} : [s EXCEPT !.patch = x] \in Directories
         /\ \A x \in Results : [s EXCEPT !.result = x] \in Directories
  BY DEF Directories

(* A patch between two trees is a patch, on the files that differ. *)
LEMMA PatchBetween ==
  ASSUME NEW base \in Trees, NEW after \in Trees
  PROVE  /\ Patch(base, after) \in Patches
         /\ DOMAIN Patch(base, after) = {f \in Files : base[f] # after[f]}
  <1>1. Changed(base, after) \in SUBSET Files
    BY DEF Changed
  <1>2. Patch(base, after) \in [Changed(base, after) -> Contents]
    BY <1>1 DEF Patch, Trees
  <1>3. DOMAIN Patch(base, after) = Changed(base, after)
    BY DEF Patch
  <1> QED
    BY <1>1, <1>2, <1>3, PatchType DEF Changed

(* A patch is empty just when the trees are equal. *)
LEMMA EmptyPatch ==
  ASSUME NEW base \in Trees, NEW after \in Trees
  PROVE  DOMAIN Patch(base, after) = {} <=> base = after
  <1>1. ASSUME \A f \in Files : base[f] = after[f]
        PROVE  base = after
    BY <1>1 DEF Trees
  <1>2. {f \in Files : base[f] # after[f]} = {} <=> \A f \in Files : base[f] = after[f]
    OBVIOUS
  <1> QED
    BY <1>1, <1>2, PatchBetween

(* Applying the patch between two trees to the first gives the second.     *)
LEMMA PatchApplies ==
  ASSUME NEW base \in Trees, NEW after \in Trees
  PROVE  Applied(base, Patch(base, after)) = after
  <1>1. \A f \in Files : Applied(base, Patch(base, after))[f] = after[f]
    BY PatchBetween DEF Applied, Patch, Changed
  <1>2. Applied(base, Patch(base, after)) = [f \in Files |-> Applied(base, Patch(base, after))[f]]
    BY DEF Applied
  <1> QED
    BY <1>1, <1>2 DEF Trees

-----------------------------------------------------------------------------
(* The first states satisfy the invariant. *)
LEMMA Initially == Init => Inv
  <1> SUFFICES ASSUME Init PROVE Inv
    OBVIOUS
  <1> USE EvidenceAssumption DEF Init, NoStore, NoDir, Uncaptured, Baselined, Undecided, Decided
  <1>1. TypeOK
    <2>1. seen \in [Dispatches -> Patches]
      BY NoFiles
    <2>2. private \in [Dispatches -> Stores] /\ public \in [Dirs -> Directories]
      BY DEF Stores, Directories
    <2> QED
      BY <2>1, <2>2 DEF TypeOK, Phases, Exits, Heads
  <1>2. BaselineHeld /\ PatchSealed /\ OutcomeSound /\ ResultSealed
    BY DEF BaselineHeld, PatchSealed, OutcomeSound, ResultSealed
  <1>3. ExportsOwned /\ ReportsOver /\ UntouchedAlike
    BY DEF ExportsOwned, StandsBy, ReportsOver, UntouchedAlike, Listed
  <1>4. TerminalIsSealedEvidence /\ ReportedIsSealed /\ PreexistingExcluded
    BY DEF TerminalIsSealedEvidence, ReportedIsSealed, PreexistingExcluded
  <1> QED
    BY <1>1, <1>2, <1>3, <1>4 DEF Inv

(* Every step of a dispatch, an editor or the verifier keeps it.          *)
LEMMA Inductive == Inv /\ [Next]_vars => Inv'
  <1> SUFFICES ASSUME Inv, [Next]_vars PROVE Inv'
    OBVIOUS
  <1> USE EvidenceAssumption DEF Inv, vars, working, progress, Uncaptured, Baselined,
         Undecided, Decided, Descriptor, Result, Idle
  <1>1. ASSUME NEW d \in Dispatches, Fail(d) PROVE Inv'
    <2> USE <1>1 DEF Fail, Gone, Go
    <2>1. TypeOK'
      <3>1. at' \in [Dispatches -> Phases]
        BY DEF TypeOK, Phases
      <3>2. started' \in [Dispatches -> Heads \cup {None}]
        BY DEF TypeOK
      <3>3. held' \in [Dispatches -> Snapshots \cup {None}]
        BY DEF TypeOK
      <3>4. seen' \in [Dispatches -> Patches]
        BY NoFiles DEF TypeOK
      <3>5. exit' \in [Dispatches -> Exits]
        BY DEF TypeOK, Exits
      <3>6. diffPath' \in [Dispatches -> BOOLEAN]
        BY DEF TypeOK
      <3> QED
        BY <3>1, <3>2, <3>3, <3>4, <3>5, <3>6 DEF TypeOK
    <2>2. BaselineHeld'
      BY DEF TypeOK, BaselineHeld, Stores
    <2>3. PatchSealed'
      BY DEF TypeOK, PatchSealed, BaselineHeld, Stores
    <2>4. OutcomeSound'
      BY DEF TypeOK, OutcomeSound, PatchSealed
    <2>5. ResultSealed'
      BY DEF TypeOK, ResultSealed, Stores
    <2>6. ExportsOwned'
      BY DEF TypeOK, ExportsOwned, StandsBy, OutcomeSound, ResultSealed, Directories, Exported
    <2>7. ReportsOver'
      BY DEF TypeOK, ReportsOver, Directories, Results
    <2>8. UntouchedAlike'
      BY DEF TypeOK, UntouchedAlike, BaselineHeld, Stores, Snapshots, Listed
    <2>9. (TerminalIsSealedEvidence /\ ReportedIsSealed /\ PreexistingExcluded)'
      BY DEF TerminalIsSealedEvidence, ReportedIsSealed, PreexistingExcluded
    <2> QED
      BY <2>1, <2>2, <2>3, <2>4, <2>5, <2>6, <2>7, <2>8, <2>9
  <1>2. ASSUME NEW d \in Dispatches, ReadHead(d) PROVE Inv'
    <2> USE <1>2 DEF ReadHead, Export, Go
    <2>1. TypeOK'
      <3>1. at' \in [Dispatches -> Phases]
        BY DEF TypeOK, Phases
      <3>2. started' \in [Dispatches -> Heads \cup {None}]
        BY DEF TypeOK
      <3>3. public' \in [Dirs -> Directories]
        BY DirectoryKept DEF TypeOK
      <3> QED
        BY <3>1, <3>2, <3>3 DEF TypeOK
    <2>2. BaselineHeld'
      BY DEF TypeOK, BaselineHeld, Stores
    <2>3. PatchSealed'
      BY DEF TypeOK, PatchSealed, BaselineHeld, Stores
    <2>4. OutcomeSound'
      BY DEF TypeOK, OutcomeSound, PatchSealed
    <2>5. ResultSealed'
      BY DEF TypeOK, ResultSealed, Stores
    <2>6. ExportsOwned'
      <3>1. \A r \in Dirs : public'[r].patch = public[r].patch
        BY DEF TypeOK, Directories
      <3>2. \A e \in Dispatches \ {d} : StandsBy(e) => StandsBy(e)'
        BY DEF TypeOK, StandsBy
      <3>3. StandsBy(d) => StandsBy(d)'
        BY DEF TypeOK, StandsBy, OutcomeSound, ResultSealed, Stores
      <3> QED
        BY <3>1, <3>2, <3>3, ExportsKept
    <2>7. ReportsOver'
      BY DEF TypeOK, ReportsOver, Directories, Results
    <2>8. UntouchedAlike'
      BY DEF TypeOK, UntouchedAlike, BaselineHeld, Stores, Snapshots, Listed
    <2>9. ReportedIsSealed'
      BY DEF TypeOK, ReportedIsSealed, ResultSealed, ReportsOver, Directories, Stores,
         Results
    <2>10. (TerminalIsSealedEvidence /\ PreexistingExcluded)'
      BY DEF TerminalIsSealedEvidence, PreexistingExcluded
    <2> QED
      BY <2>1, <2>2, <2>3, <2>4, <2>5, <2>6, <2>7, <2>8, <2>9, <2>10
  <1>3. ASSUME NEW d \in Dispatches, BeginSnapshot(d) PROVE Inv'
    <2> USE <1>3 DEF BeginSnapshot, ListFiles, Go
    <2>1. TypeOK'
      <3>1. at' \in [Dispatches -> Phases]
        BY DEF TypeOK, Phases
      <3>2. held' \in [Dispatches -> Snapshots \cup {None}]
        BY DEF TypeOK, Snapshots
      <3>3. seen' \in [Dispatches -> Patches]
        <4>1. PICK missed \in SUBSET Files : seen' = [seen EXCEPT ![d] = [f \in missed |-> Absent]]
          BY DEF TypeOK
        <4>2. [f \in missed |-> Absent] \in [missed -> Contents]
          OBVIOUS
        <4> QED
          BY <4>1, <4>2, PatchType DEF TypeOK
      <3>4. touched' \in [Dispatches -> SUBSET Files]
        BY DEF TypeOK
      <3> QED
        BY <3>1, <3>2, <3>3, <3>4 DEF TypeOK
    <2>2. BaselineHeld'
      <3>1. held'[d] \in Snapshots /\ held'[d].run = d
        BY DEF TypeOK, Snapshots
      <3> QED
        BY <3>1 DEF TypeOK, BaselineHeld
    <2>3. PatchSealed'
      BY DEF TypeOK, PatchSealed, BaselineHeld, Stores
    <2>4. OutcomeSound'
      BY DEF TypeOK, OutcomeSound, PatchSealed
    <2>5. ResultSealed'
      BY DEF TypeOK, ResultSealed, Stores
    <2>6. ExportsOwned'
      BY DEF TypeOK, ExportsOwned, StandsBy, OutcomeSound, ResultSealed, Directories, Exported
    <2>7. ReportsOver'
      BY DEF TypeOK, ReportsOver, Directories, Results
    <2>8. UntouchedAlike'
      BY DEF TypeOK, UntouchedAlike, BaselineHeld, Stores, Snapshots, Listed
    <2>9. PreexistingExcluded'
      BY DEF TypeOK, PatchSealed, PreexistingExcluded
    <2>10. (TerminalIsSealedEvidence /\ ReportedIsSealed)'
      BY DEF TerminalIsSealedEvidence, ReportedIsSealed
    <2> QED
      BY <2>1, <2>2, <2>3, <2>4, <2>5, <2>6, <2>7, <2>8, <2>9, <2>10
  <1>4. ASSUME NEW d \in Dispatches, NEW f \in Files, ReadFile(d, f) PROVE Inv'
    <2> USE <1>4 DEF ReadFile
    <2>1. TypeOK'
      <3>1. seen' \in [Dispatches -> Patches]
        <4> DEFINE more == [g \in DOMAIN seen[d] \cup {f} |-> IF g = f THEN tree[f] ELSE seen[d][g]]
        <4>1. more \in [DOMAIN seen[d] \cup {f} -> Contents]
          BY PatchDomain DEF TypeOK, Trees
        <4>2. DOMAIN seen[d] \cup {f} \in SUBSET Files
          BY PatchDomain DEF TypeOK
        <4>3. more \in Patches
          <5> HIDE DEF more
          <5> QED
            BY <4>1, <4>2, PatchType
        <4> QED
          BY <4>3 DEF TypeOK
      <3> QED
        BY <3>1 DEF TypeOK
    <2>2. UntouchedAlike'
      BY DEF TypeOK, UntouchedAlike, BaselineHeld, Stores, Snapshots, Listed
    <2>3. (BaselineHeld /\ PatchSealed /\ OutcomeSound /\ ResultSealed
           /\ ExportsOwned /\ ReportsOver /\ TerminalIsSealedEvidence
           /\ ReportedIsSealed /\ PreexistingExcluded)'
      <3>1. (BaselineHeld /\ PatchSealed)'
        BY DEF BaselineHeld, PatchSealed
      <3>2. (OutcomeSound /\ ResultSealed)'
        BY DEF OutcomeSound, ResultSealed
      <3>3. (ExportsOwned /\ ReportsOver /\ TerminalIsSealedEvidence)'
        BY DEF ExportsOwned, StandsBy, ReportsOver, TerminalIsSealedEvidence
      <3>4. (ReportedIsSealed /\ PreexistingExcluded)'
        BY DEF ReportedIsSealed, PreexistingExcluded
      <3> QED
        BY <3>1, <3>2, <3>3, <3>4
    <2> QED
      BY <2>1, <2>2, <2>3
  <1>5. ASSUME NEW d \in Dispatches, SealBaseline(d) PROVE Inv'
    <2> USE <1>5 DEF SealBaseline, Complete, Publish, Go
    <2> DEFINE authority == [head |-> held[d].head, tree |-> seen[d], dir |-> DirOf[d]]
    <2>0. /\ held[d] \in Snapshots /\ held[d].run = d /\ seen[d] \in Trees
          /\ authority \in Authorities /\ authority # None
      <3>1. held[d] \in Snapshots /\ held[d].run = d /\ seen[d] \in Trees
        BY TreeIsPatch DEF TypeOK, BaselineHeld
      <3>2. authority \in Authorities
        BY <3>1 DEF TypeOK, Snapshots, Authorities
      <3> QED
        BY <3>1, <3>2, Present
    <2>a. /\ held'[d] = [run |-> d, head |-> held[d].head, tree |-> seen[d]]
          /\ private'[d].authority = authority /\ private'[d].patch = None /\ private'[d].capture = None
          /\ \A e \in Dispatches \ {d} : held'[e] = held[e] /\ private'[e] = private[e]
      <3>1. held'[d] = [run |-> d, head |-> held[d].head, tree |-> seen[d]]
        BY <2>0 DEF TypeOK, Snapshots
      <3>2. private[d].patch = None /\ private[d].capture = None
        BY DEF PatchSealed
      <3>3. private' = [private EXCEPT ![d].authority = authority]
        OBVIOUS
      <3>4. /\ private'[d].authority = authority /\ private'[d].patch = private[d].patch
            /\ private'[d].capture = private[d].capture
        BY <3>3 DEF TypeOK, Stores
      <3>5. \A e \in Dispatches \ {d} : held'[e] = held[e] /\ private'[e] = private[e]
        BY <3>3 DEF TypeOK
      <3> QED
        BY <3>1, <3>2, <3>4, <3>5
    <2>1. TypeOK'
      <3>1. at' \in [Dispatches -> Phases]
        BY DEF TypeOK, Phases
      <3>2. held' \in [Dispatches -> Snapshots \cup {None}]
        BY TreeIsPatch DEF TypeOK, Snapshots, BaselineHeld
      <3>3. private' \in [Dispatches -> Stores]
        BY StoreKept, <2>0 DEF TypeOK
      <3> QED
        BY <3>1, <3>2, <3>3 DEF TypeOK
    <2>2. BaselineHeld'
      BY <2>0, <2>a DEF TypeOK, BaselineHeld
    <2>3. PatchSealed'
      <3>1. at' = [at EXCEPT ![d] = "export"] /\ left' = left
        OBVIOUS
      <3>2. at[d] = "before" /\ left[d] = None
        BY DEF PatchSealed, Uncaptured
      <3>3. at'[d] = "export" /\ \A e \in Dispatches \ {d} : at'[e] = at[e]
        BY <3>1 DEF TypeOK
      <3> QED
        BY <2>a, <3>1, <3>2, <3>3 DEF PatchSealed
    <2>4. OutcomeSound'
      BY DEF TypeOK, OutcomeSound, PatchSealed
    <2>5. ResultSealed'
      BY DEF TypeOK, ResultSealed, Stores
    <2>6. ExportsOwned'
      BY DEF TypeOK, ExportsOwned, StandsBy, OutcomeSound, ResultSealed, Directories, Exported
    <2>7. ReportsOver'
      BY DEF TypeOK, ReportsOver, Directories, Results
    <2>8. UntouchedAlike'
      BY DEF TypeOK, UntouchedAlike, BaselineHeld, Stores, Snapshots, Listed
    <2>9. TerminalIsSealedEvidence'
      <3>1. private'[d].terminal = private[d].terminal
        BY DEF TypeOK, Stores
      <3>2. private[d].terminal = None
        BY DEF ResultSealed
      <3> QED
        BY <2>a, <3>1, <3>2 DEF TerminalIsSealedEvidence
    <2>10. ReportedIsSealed'
      BY DEF TypeOK, ReportedIsSealed, ResultSealed, ReportsOver, Directories, Stores,
         Results
    <2>11. PreexistingExcluded'
      BY DEF TypeOK, PreexistingExcluded, PatchSealed, UntouchedAlike, BaselineHeld, Stores
    <2> QED
      BY <2>1, <2>2, <2>3, <2>4, <2>5, <2>6, <2>7, <2>8, <2>9, <2>10, <2>11
  <1>6. ASSUME NEW d \in Dispatches, ExportSnapshot(d) PROVE Inv'
    <2> USE <1>6 DEF ExportSnapshot, Export, Go
    <2>1. TypeOK'
      <3>1. at' \in [Dispatches -> Phases]
        BY DEF TypeOK, Phases
      <3>2. public' \in [Dirs -> Directories]
        <4>1. held[d] \in Descriptors
          BY DEF TypeOK, BaselineHeld, Descriptors, Stores, Authorities
        <4> QED
          BY <4>1, DirectoryKept DEF TypeOK
      <3> QED
        BY <3>1, <3>2 DEF TypeOK
    <2>2. BaselineHeld'
      BY DEF TypeOK, BaselineHeld, Stores
    <2>3. PatchSealed'
      BY DEF TypeOK, PatchSealed, BaselineHeld, Stores
    <2>4. OutcomeSound'
      BY DEF TypeOK, OutcomeSound, PatchSealed
    <2>5. ResultSealed'
      BY DEF TypeOK, ResultSealed, Stores
    <2>6. ExportsOwned'
      <3>1. \A r \in Dirs : public'[r].patch = public[r].patch
        BY DEF TypeOK, Directories
      <3>2. \A e \in Dispatches \ {d} : StandsBy(e) => StandsBy(e)'
        BY DEF TypeOK, StandsBy
      <3>3. StandsBy(d) => StandsBy(d)'
        BY DEF TypeOK, StandsBy, OutcomeSound, ResultSealed, Stores
      <3> QED
        BY <3>1, <3>2, <3>3, ExportsKept
    <2>7. ReportsOver'
      BY DEF TypeOK, ReportsOver, Directories, Results
    <2>8. UntouchedAlike'
      BY DEF TypeOK, UntouchedAlike, BaselineHeld, Stores, Snapshots, Listed
    <2>9. ReportedIsSealed'
      BY DEF TypeOK, ReportedIsSealed, ResultSealed, ReportsOver, Directories, Stores,
         Results
    <2>10. (TerminalIsSealedEvidence /\ PreexistingExcluded)'
      BY DEF TerminalIsSealedEvidence, PreexistingExcluded
    <2> QED
      BY <2>1, <2>2, <2>3, <2>4, <2>5, <2>6, <2>7, <2>8, <2>9, <2>10
  <1>7. ASSUME NEW d \in Dispatches, Tamper(d) PROVE Inv'
    <2> USE <1>7 DEF Tamper
    <2>r. \E r \in Dirs :
            \/ public' = [public EXCEPT ![r].patch = Forged]
            \/ \E e \in Dispatches :
                 private[e].authority # None /\ public' = [public EXCEPT ![r].snapshot = Descriptor(e)]
      <3>1. PICK r \in {DirOf[e] : e \in Dispatches} :
              \/ public' = [public EXCEPT ![r].patch = Forged]
              \/ \E e \in Dispatches :
                   private[e].authority # None /\ public' = [public EXCEPT ![r].snapshot = Descriptor(e)]
        BY Zenon
      <3>2. r \in Dirs
        BY DEF TypeOK
      <3> QED
        BY <3>1, <3>2, Zenon
    <2>0. /\ DOMAIN public' = DOMAIN public
          /\ \A r \in Dirs : /\ public'[r].result = public[r].result
                             /\ public'[r].patch = public[r].patch \/ public'[r].patch = Forged
      <3>1. CASE \E r \in Dirs : public' = [public EXCEPT ![r].patch = Forged]
        BY <3>1 DEF TypeOK, Directories
      <3>2. CASE \E r \in Dirs : \E e \in Dispatches :
                   private[e].authority # None /\ public' = [public EXCEPT ![r].snapshot = Descriptor(e)]
        BY <3>2 DEF TypeOK, Directories
      <3> QED
        BY <2>r, <3>1, <3>2
    <2>1. TypeOK'
      <3>1. public' \in [Dirs -> Directories]
        <4>1. CASE \E r \in Dirs : public' = [public EXCEPT ![r].patch = Forged]
          <5>1. PICK r \in Dirs : public' = [public EXCEPT ![r].patch = Forged]
            BY <4>1
          <5>2. [public[r] EXCEPT !.patch = Forged] \in Directories
            BY DirectoryKept DEF TypeOK
          <5> QED
            BY <5>1, <5>2 DEF TypeOK
        <4>2. CASE \E r \in Dirs : \E e \in Dispatches :
                     private[e].authority # None /\ public' = [public EXCEPT ![r].snapshot = Descriptor(e)]
          <5>1. PICK r \in Dirs, e \in Dispatches :
                  private[e].authority # None /\ public' = [public EXCEPT ![r].snapshot = Descriptor(e)]
            BY <4>2
          <5>2. Descriptor(e) \in Descriptors
            BY <5>1 DEF TypeOK, Stores, Authorities, Descriptors
          <5> QED
            BY <5>1, <5>2, DirectoryKept DEF TypeOK
        <4> QED
          BY <2>r, <4>1, <4>2
      <3> QED
        BY <3>1 DEF TypeOK
    <2>2. ExportsOwned'
      BY <2>0 DEF TypeOK, ExportsOwned, StandsBy
    <2>3. ReportsOver'
      BY <2>0 DEF TypeOK, ReportsOver
    <2>4. ReportedIsSealed'
      BY <2>0 DEF TypeOK, ReportedIsSealed
    <2>5. (BaselineHeld /\ PatchSealed /\ OutcomeSound /\ ResultSealed
           /\ UntouchedAlike /\ TerminalIsSealedEvidence /\ PreexistingExcluded)'
      <3>1. (BaselineHeld /\ PatchSealed)'
        BY DEF BaselineHeld, PatchSealed
      <3>2. (OutcomeSound /\ ResultSealed)'
        BY DEF OutcomeSound, ResultSealed
      <3>3. (UntouchedAlike /\ TerminalIsSealedEvidence /\ PreexistingExcluded)'
        BY DEF UntouchedAlike, TerminalIsSealedEvidence, PreexistingExcluded, Listed
      <3> QED
        BY <3>1, <3>2, <3>3
    <2> QED
      BY <2>1, <2>2, <2>3, <2>4, <2>5
  <1>8. ASSUME NEW d \in Dispatches, TurnEnds(d) PROVE Inv'
    <2> USE <1>8 DEF TurnEnds, Go
    <2>1. TypeOK'
      BY DEF TypeOK, Phases, Exits, Stores, Directories, Snapshots, Heads, Trees, Results
    <2>2. BaselineHeld'
      BY DEF TypeOK, BaselineHeld, Stores
    <2>3. PatchSealed'
      BY DEF TypeOK, PatchSealed, BaselineHeld, Stores
    <2>4. OutcomeSound'
      BY DEF TypeOK, OutcomeSound, PatchSealed
    <2>5. ResultSealed'
      BY DEF TypeOK, ResultSealed, Stores
    <2>6. ExportsOwned'
      BY DEF TypeOK, ExportsOwned, StandsBy, OutcomeSound, ResultSealed, Directories, Exported
    <2>7. ReportsOver'
      BY DEF TypeOK, ReportsOver, Directories, Results
    <2>8. UntouchedAlike'
      BY DEF TypeOK, UntouchedAlike, BaselineHeld, Stores, Snapshots, Listed
    <2>9. (TerminalIsSealedEvidence /\ ReportedIsSealed /\ PreexistingExcluded)'
      BY DEF TerminalIsSealedEvidence, ReportedIsSealed, PreexistingExcluded
    <2> QED
      BY <2>1, <2>2, <2>3, <2>4, <2>5, <2>6, <2>7, <2>8, <2>9
  <1>9. ASSUME NEW d \in Dispatches, TurnCanceled(d) PROVE Inv'
    <2> USE <1>9 DEF TurnCanceled, Go
    <2>1. TypeOK'
      BY DEF TypeOK, Phases, Exits, Stores, Directories, Snapshots, Heads, Trees, Results
    <2>2. BaselineHeld'
      BY DEF TypeOK, BaselineHeld, Stores
    <2>3. PatchSealed'
      BY DEF TypeOK, PatchSealed, BaselineHeld, Stores
    <2>4. OutcomeSound'
      BY DEF TypeOK, OutcomeSound, PatchSealed
    <2>5. ResultSealed'
      BY DEF TypeOK, ResultSealed, Stores
    <2>6. ExportsOwned'
      BY DEF TypeOK, ExportsOwned, StandsBy, OutcomeSound, ResultSealed, Directories, Exported
    <2>7. ReportsOver'
      BY DEF TypeOK, ReportsOver, Directories, Results
    <2>8. UntouchedAlike'
      BY DEF TypeOK, UntouchedAlike, BaselineHeld, Stores, Snapshots, Listed
    <2>9. (TerminalIsSealedEvidence /\ ReportedIsSealed /\ PreexistingExcluded)'
      BY DEF TerminalIsSealedEvidence, ReportedIsSealed, PreexistingExcluded
    <2> QED
      BY <2>1, <2>2, <2>3, <2>4, <2>5, <2>6, <2>7, <2>8, <2>9
  <1>10. ASSUME NEW d \in Dispatches, CheckExport(d) PROVE Inv'
    <2> USE <1>10 DEF CheckExport, ListFiles, Go
    <2>1. TypeOK'
      <3>1. at' \in [Dispatches -> Phases]
        BY DEF TypeOK, Phases
      <3>2. seen' \in [Dispatches -> Patches]
        <4>1. PICK missed \in SUBSET Files : seen' = [seen EXCEPT ![d] = [f \in missed |-> Absent]]
          BY DEF TypeOK
        <4>2. [f \in missed |-> Absent] \in [missed -> Contents]
          OBVIOUS
        <4> QED
          BY <4>1, <4>2, PatchType DEF TypeOK
      <3> QED
        BY <3>1, <3>2 DEF TypeOK
    <2>2. BaselineHeld'
      BY DEF TypeOK, BaselineHeld, Stores
    <2>3. PatchSealed'
      BY DEF TypeOK, PatchSealed, BaselineHeld, Stores
    <2>4. OutcomeSound'
      BY DEF TypeOK, OutcomeSound, PatchSealed
    <2>5. ResultSealed'
      BY DEF TypeOK, ResultSealed, Stores
    <2>6. ExportsOwned'
      BY DEF TypeOK, ExportsOwned, StandsBy, OutcomeSound, ResultSealed, Directories, Exported
    <2>7. ReportsOver'
      BY DEF TypeOK, ReportsOver, Directories, Results
    <2>8. UntouchedAlike'
      BY DEF TypeOK, UntouchedAlike, BaselineHeld, Stores, Snapshots, Listed
    <2>9. (TerminalIsSealedEvidence /\ ReportedIsSealed /\ PreexistingExcluded)'
      BY DEF TerminalIsSealedEvidence, ReportedIsSealed, PreexistingExcluded
    <2> QED
      BY <2>1, <2>2, <2>3, <2>4, <2>5, <2>6, <2>7, <2>8, <2>9
  <1>11. ASSUME NEW d \in Dispatches, SealPatch(d) PROVE Inv'
    <2> USE <1>11 DEF SealPatch, Complete, Publish, Base, Go
    <2> DEFINE patch == Patch(held[d].tree, seen[d])
    <2>0. /\ private[d].authority # None /\ held[d].tree = private[d].authority.tree
          /\ held[d].tree \in Trees /\ seen[d] \in Trees /\ seen[d] # None
          /\ patch \in Patches /\ patch # None
          /\ DOMAIN patch = {f \in Files : held[d].tree[f] # seen[d][f]}
      <3>0. private[d].authority # None /\ held[d] = Descriptor(d)
        BY DEF BaselineHeld
      <3>1. private[d].authority # None /\ held[d].tree = private[d].authority.tree
        BY <3>0
      <3>2. held[d].tree \in Trees
        BY <3>1 DEF TypeOK, Stores, Authorities
      <3>3. seen[d] \in Trees
        BY TreeIsPatch DEF TypeOK
      <3>4. seen[d] # None
        BY <3>3, Present
      <3>5. patch \in Patches /\ DOMAIN patch = {f \in Files : held[d].tree[f] # seen[d][f]}
        BY <3>2, <3>3, PatchBetween
      <3>6. patch # None
        BY <3>5, Present
      <3> QED
        BY <3>1, <3>2, <3>3, <3>4, <3>5, <3>6
    <2>a. /\ private'[d] = [private[d] EXCEPT !.patch = patch] /\ left'[d] = seen[d]
          /\ private'[d].authority = private[d].authority /\ private'[d].patch = patch
          /\ private'[d].capture = None /\ private'[d].terminal = None
          /\ \A e \in Dispatches \ {d} : private'[e] = private[e] /\ left'[e] = left[e]
      <3>1. private[d].capture = None /\ private[d].terminal = None
        BY DEF PatchSealed, ResultSealed
      <3>2. private' = [private EXCEPT ![d].patch = patch] /\ left' = [left EXCEPT ![d] = seen[d]]
        OBVIOUS
      <3>3. private'[d] = [private[d] EXCEPT !.patch = patch] /\ left'[d] = seen[d]
        BY <3>2 DEF TypeOK
      <3>4. /\ private'[d].authority = private[d].authority /\ private'[d].patch = patch
            /\ private'[d].capture = private[d].capture /\ private'[d].terminal = private[d].terminal
        BY <3>3 DEF TypeOK, Stores
      <3>5. \A e \in Dispatches \ {d} : private'[e] = private[e] /\ left'[e] = left[e]
        BY <3>2 DEF TypeOK
      <3> QED
        BY <3>1, <3>3, <3>4, <3>5
    <2> HIDE DEF patch
    <2>1. TypeOK'
      <3>1. at' \in [Dispatches -> Phases]
        BY DEF TypeOK, Phases
      <3>2. seen' \in [Dispatches -> Patches]
        BY NoFiles DEF TypeOK
      <3>3. private' \in [Dispatches -> Stores]
        BY StoreKept, <2>0 DEF TypeOK, patch
      <3>4. left' \in [Dispatches -> Trees \cup {None}]
        BY TreeIsPatch DEF TypeOK
      <3> QED
        BY <3>1, <3>2, <3>3, <3>4 DEF TypeOK
    <2>2. BaselineHeld'
      BY DEF TypeOK, BaselineHeld, Stores
    <2>3. PatchSealed'
      BY <2>0, <2>a DEF TypeOK, PatchSealed
    <2>4. OutcomeSound'
      BY DEF TypeOK, OutcomeSound, PatchSealed
    <2>5. ResultSealed'
      BY DEF TypeOK, ResultSealed, Stores
    <2>6. ExportsOwned'
      BY DEF TypeOK, ExportsOwned, StandsBy, OutcomeSound, ResultSealed, Directories, Exported
    <2>7. ReportsOver'
      BY DEF TypeOK, ReportsOver, Directories, Results
    <2>8. UntouchedAlike'
      BY DEF TypeOK, UntouchedAlike, BaselineHeld, Stores, Snapshots, Listed
    <2>9. TerminalIsSealedEvidence'
      BY <2>a DEF TypeOK, TerminalIsSealedEvidence
    <2>10. ReportedIsSealed'
      BY DEF TypeOK, ReportedIsSealed, ResultSealed, ReportsOver, Directories, Stores,
         Results
    <2>11. PreexistingExcluded'
      BY <2>0, <2>a DEF TypeOK, PreexistingExcluded, UntouchedAlike, Listed
    <2> QED
      BY <2>1, <2>2, <2>3, <2>4, <2>5, <2>6, <2>7, <2>8, <2>9, <2>10, <2>11
  <1>12. ASSUME NEW d \in Dispatches, SealCapture(d) PROVE Inv'
    <2> USE <1>12 DEF SealCapture, Publish, Go
    <2> DEFINE capture == [head |-> held[d].head, tree |-> held[d].tree, dir |-> DirOf[d],
                           patch |-> private[d].patch]
    <2>0. /\ private[d].patch # None /\ private[d].authority # None
          /\ held[d] = Descriptor(d) /\ capture \in Captures /\ capture # None
      <3>1. /\ private[d].patch # None /\ private[d].authority # None
            /\ held[d] = Descriptor(d)
        BY DEF BaselineHeld, PatchSealed
      <3>2. capture \in Captures
        BY <3>1 DEF TypeOK, Stores, Authorities, Captures
      <3> QED
        BY <3>1, <3>2, Present
    <2>a. /\ private'[d].authority = private[d].authority /\ private'[d].patch = private[d].patch
          /\ private'[d].capture = capture
          /\ \A e \in Dispatches \ {d} : private'[e] = private[e]
      BY DEF TypeOK, Stores
    <2>1. TypeOK'
      <3>1. at' \in [Dispatches -> Phases]
        BY DEF TypeOK, Phases
      <3>2. private' \in [Dispatches -> Stores]
        BY StoreKept, <2>0 DEF TypeOK
      <3> QED
        BY <3>1, <3>2 DEF TypeOK
    <2>2. BaselineHeld'
      BY DEF TypeOK, BaselineHeld, Stores
    <2>3. PatchSealed'
      BY <2>0, <2>a DEF TypeOK, PatchSealed
    <2>4. OutcomeSound'
      BY DEF TypeOK, OutcomeSound, PatchSealed
    <2>5. ResultSealed'
      BY DEF TypeOK, ResultSealed, Stores
    <2>6. ExportsOwned'
      BY DEF TypeOK, ExportsOwned, StandsBy, OutcomeSound, ResultSealed, Directories, Exported
    <2>7. ReportsOver'
      BY DEF TypeOK, ReportsOver, Directories, Results
    <2>8. UntouchedAlike'
      BY DEF TypeOK, UntouchedAlike, BaselineHeld, Stores, Snapshots, Listed
    <2>9. TerminalIsSealedEvidence'
      BY DEF TypeOK, TerminalIsSealedEvidence, OutcomeSound, PatchSealed, Stores, State
    <2>10. ReportedIsSealed'
      BY DEF TypeOK, ReportedIsSealed, ResultSealed, ReportsOver, Directories, Stores,
         Results
    <2>11. PreexistingExcluded'
      BY DEF TypeOK, PreexistingExcluded, PatchSealed, UntouchedAlike, BaselineHeld, Stores
    <2> QED
      BY <2>1, <2>2, <2>3, <2>4, <2>5, <2>6, <2>7, <2>8, <2>9, <2>10, <2>11
  <1>13. ASSUME NEW d \in Dispatches, ExportPatch(d) PROVE Inv'
    <2> USE <1>13 DEF ExportPatch, Export, Go
    <2>1. TypeOK'
      <3>1. at' \in [Dispatches -> Phases]
        BY DEF TypeOK, Phases
      <3>2. public' \in [Dirs -> Directories]
        <4>1. [by |-> d, patch |-> private[d].patch] \in Exported
          BY DEF TypeOK, PatchSealed, Stores, Exported
        <4> QED
          BY <4>1, DirectoryKept DEF TypeOK
      <3> QED
        BY <3>1, <3>2 DEF TypeOK
    <2>2. BaselineHeld'
      BY DEF TypeOK, BaselineHeld, Stores
    <2>3. PatchSealed'
      BY DEF TypeOK, PatchSealed, BaselineHeld, Stores
    <2>4. OutcomeSound'
      BY DEF TypeOK, OutcomeSound, PatchSealed
    <2>5. ResultSealed'
      BY DEF TypeOK, ResultSealed, Stores
    <2>6. ExportsOwned'
      <3>1. /\ public'[DirOf[d]].patch = [by |-> d, patch |-> private[d].patch]
            /\ \A r \in Dirs \ {DirOf[d]} : public'[r] = public[r]
        BY DEF TypeOK, Directories
      <3>2. StandsBy(d)'
        BY DEF TypeOK, ResultSealed, StandsBy
      <3>3. \A e \in Dispatches \ {d} : StandsBy(e) => StandsBy(e)'
        BY DEF TypeOK, StandsBy
      <3>4. \A r \in Dirs : public[r].patch \notin {None, Forged} => public[r].patch.by \in Dispatches
        BY DEF TypeOK, Directories, Exported
      <3>5. DirOf[d] \in Dirs /\ DirOf' = DirOf
        BY DEF TypeOK
      <3> SUFFICES ASSUME NEW r \in Dirs, public'[r].patch \notin {None, Forged}
                   PROVE  (r = DirOf[public[r].patch.by] /\ StandsBy(public[r].patch.by))'
        BY DEF ExportsOwned
      <3>6. CASE r = DirOf[d]
        BY <3>1, <3>2, <3>5, <3>6
      <3>7. CASE r # DirOf[d]
        <4>1. public'[r] = public[r]
          BY <3>1, <3>7
        <4>2. r = DirOf[public[r].patch.by] /\ StandsBy(public[r].patch.by)
          BY <4>1 DEF ExportsOwned
        <4> QED
          BY <3>2, <3>3, <3>4, <3>5, <4>1, <4>2
      <3> QED
        BY <3>6, <3>7
    <2>7. ReportsOver'
      BY DEF TypeOK, ReportsOver, Directories, Results
    <2>8. UntouchedAlike'
      BY DEF TypeOK, UntouchedAlike, BaselineHeld, Stores, Snapshots, Listed
    <2>9. ReportedIsSealed'
      BY DEF TypeOK, ReportedIsSealed, ResultSealed, ReportsOver, Directories, Stores,
         Results
    <2>10. (TerminalIsSealedEvidence /\ PreexistingExcluded)'
      BY DEF TerminalIsSealedEvidence, PreexistingExcluded
    <2> QED
      BY <2>1, <2>2, <2>3, <2>4, <2>5, <2>6, <2>7, <2>8, <2>9, <2>10
  <1>14. ASSUME NEW d \in Dispatches, Captured(d) PROVE Inv'
    <2> USE <1>14 DEF Captured, CapturedExit, Go
    <2>1. TypeOK'
      BY DEF TypeOK, Phases, Exits, Stores, Directories, Snapshots, Heads, Trees, Results
    <2>2. BaselineHeld'
      BY DEF TypeOK, BaselineHeld, Stores
    <2>3. PatchSealed'
      BY DEF TypeOK, PatchSealed, BaselineHeld, Stores
    <2>4. OutcomeSound'
      <3>1. exit[d] \in {0, 64} /\ private[d].capture # None
        BY DEF OutcomeSound, PatchSealed
      <3>2. /\ at'[d] = "seal" /\ diffPath'[d]
            /\ exit'[d] = 0 => DOMAIN private[d].patch # {}
            /\ exit'[d] = 4 => DOMAIN private[d].patch = {}
        BY <3>1 DEF TypeOK
      <3>3. \A e \in Dispatches \ {d} : at'[e] = at[e] /\ exit'[e] = exit[e] /\ diffPath'[e] = diffPath[e]
        BY DEF TypeOK
      <3> QED
        BY <3>1, <3>2, <3>3 DEF OutcomeSound
    <2>5. ResultSealed'
      BY DEF TypeOK, ResultSealed, Stores
    <2>6. ExportsOwned'
      BY DEF TypeOK, ExportsOwned, StandsBy, OutcomeSound, ResultSealed, Directories, Exported
    <2>7. ReportsOver'
      BY DEF TypeOK, ReportsOver, Directories, Results
    <2>8. UntouchedAlike'
      BY DEF TypeOK, UntouchedAlike, BaselineHeld, Stores, Snapshots, Listed
    <2>9. (TerminalIsSealedEvidence /\ ReportedIsSealed /\ PreexistingExcluded)'
      BY DEF TerminalIsSealedEvidence, ReportedIsSealed, PreexistingExcluded
    <2> QED
      BY <2>1, <2>2, <2>3, <2>4, <2>5, <2>6, <2>7, <2>8, <2>9
  <1>15. ASSUME NEW d \in Dispatches, CaptureFails(d) PROVE Inv'
    <2> USE <1>15 DEF CaptureFails, Withdraw, Export, Go
    <2>0. \/ /\ public' = [public EXCEPT ![DirOf[d]].patch = None] /\ stuck' = stuck
          \/ public' = public /\ stuck' = stuck \cup {d}
      OBVIOUS
    <2>a. /\ stuck \subseteq stuck' /\ DOMAIN public' = DOMAIN public
          /\ \A r \in Dirs : /\ public'[r].result = public[r].result
                             /\ \/ public'[r].patch = None
                                \/ /\ public'[r].patch = public[r].patch
                                   /\ r = DirOf[d] => d \in stuck'
      BY <2>0 DEF TypeOK, Directories
    <2>1. TypeOK'
      <3>1. at' \in [Dispatches -> Phases]
        BY DEF TypeOK, Phases
      <3>2. exit' \in [Dispatches -> Exits]
        BY DEF TypeOK, Exits
      <3>3. diffPath' \in [Dispatches -> BOOLEAN]
        BY DEF TypeOK
      <3>4. public' \in [Dirs -> Directories]
        <4>1. [public[DirOf[d]] EXCEPT !.patch = None] \in Directories
          BY DirectoryKept DEF TypeOK
        <4> QED
          BY <2>0, <4>1 DEF TypeOK
      <3>5. stuck' \subseteq Dispatches
        BY <2>0 DEF TypeOK
      <3> QED
        BY <3>1, <3>2, <3>3, <3>4, <3>5 DEF TypeOK
    <2>2. BaselineHeld'
      BY DEF TypeOK, BaselineHeld, Stores
    <2>3. PatchSealed'
      BY DEF TypeOK, PatchSealed, BaselineHeld, Stores
    <2>4. OutcomeSound'
      BY DEF TypeOK, OutcomeSound, PatchSealed
    <2>5. ResultSealed'
      BY DEF TypeOK, ResultSealed, Stores
    <2>6. ExportsOwned'
      <3> SUFFICES ASSUME NEW r \in Dirs, public'[r].patch \notin {None, Forged}
                   PROVE  LET e == public'[r].patch IN
                            /\ r = DirOf[e.by] /\ at'[e.by] \in {"stats", "over"} \cup Decided
                            /\ at'[e.by] \in Decided => diffPath'[e.by] \/ e.by \in stuck'
                            /\ private[e.by].result # None =>
                                 private[e.by].result.diffPath \/ e.by \in stuck'
        BY DEF ExportsOwned, StandsBy
      <3> DEFINE e == public'[r].patch
      <3>1. public'[r].patch = public[r].patch /\ (r = DirOf[d] => d \in stuck')
        BY <2>a
      <3>2. e.by \in Dispatches /\ r = DirOf[e.by]
        BY <3>1 DEF TypeOK, Directories, Exported, ExportsOwned, StandsBy
      <3>3. CASE e.by = d
        BY <3>1, <3>2, <3>3 DEF TypeOK
      <3>4. CASE e.by # d
        <4>1. at'[e.by] = at[e.by] /\ diffPath'[e.by] = diffPath[e.by]
          BY <3>2, <3>4 DEF TypeOK
        <4> QED
          BY <2>a, <3>1, <3>2, <4>1 DEF ExportsOwned, StandsBy
      <3> QED
        BY <3>3, <3>4
    <2>7. ReportsOver'
      BY DEF TypeOK, ReportsOver, Directories, Results
    <2>8. UntouchedAlike'
      BY DEF TypeOK, UntouchedAlike, BaselineHeld, Stores, Snapshots, Listed
    <2>9. ReportedIsSealed'
      <3>1. private' = private /\ \A r \in Dirs : public'[r].result = public[r].result
        BY <2>a
      <3> QED
        BY <3>1 DEF ReportedIsSealed
    <2>10. (TerminalIsSealedEvidence /\ PreexistingExcluded)'
      BY DEF TerminalIsSealedEvidence, PreexistingExcluded
    <2> QED
      BY <2>1, <2>2, <2>3, <2>4, <2>5, <2>6, <2>7, <2>8, <2>9, <2>10
  <1>16. ASSUME NEW d \in Dispatches, SealResult(d) PROVE Inv'
    <2> USE <1>16 DEF SealResult, Publish, Go
    <2>1. TypeOK'
      <3>1. at' \in [Dispatches -> Phases]
        BY DEF TypeOK, Phases
      <3>2. private' \in [Dispatches -> Stores]
        BY StoreKept DEF TypeOK, Results
      <3> QED
        BY <3>1, <3>2 DEF TypeOK
    <2>2. BaselineHeld'
      BY DEF TypeOK, BaselineHeld, Stores
    <2>3. PatchSealed'
      BY DEF TypeOK, PatchSealed, BaselineHeld, Stores
    <2>4. OutcomeSound'
      BY DEF TypeOK, OutcomeSound, PatchSealed
    <2>5. ResultSealed'
      BY DEF TypeOK, ResultSealed, Stores
    <2>6. ExportsOwned'
      <3>1. \A r \in Dirs : public'[r].patch = public[r].patch
        BY DEF TypeOK, Directories
      <3>2. \A e \in Dispatches \ {d} : StandsBy(e) => StandsBy(e)'
        BY DEF TypeOK, StandsBy
      <3>3. StandsBy(d) => StandsBy(d)'
        BY DEF TypeOK, StandsBy, OutcomeSound, ResultSealed, Stores
      <3> QED
        BY <3>1, <3>2, <3>3, ExportsKept
    <2>7. ReportsOver'
      BY DEF TypeOK, ReportsOver, Directories, Results
    <2>8. UntouchedAlike'
      BY DEF TypeOK, UntouchedAlike, BaselineHeld, Stores, Snapshots, Listed
    <2>9. TerminalIsSealedEvidence'
      BY DEF TypeOK, TerminalIsSealedEvidence, OutcomeSound, PatchSealed, Stores, State
    <2>10. ReportedIsSealed'
      BY DEF TypeOK, ReportedIsSealed, ResultSealed, ReportsOver, Directories, Stores,
         Results
    <2>11. PreexistingExcluded'
      BY DEF TypeOK, PreexistingExcluded, PatchSealed, UntouchedAlike, BaselineHeld, Stores
    <2> QED
      BY <2>1, <2>2, <2>3, <2>4, <2>5, <2>6, <2>7, <2>8, <2>9, <2>10, <2>11
  <1>17. ASSUME NEW d \in Dispatches, SealTerminal(d) PROVE Inv'
    <2> USE <1>17 DEF SealTerminal, Publish, SealedPatch, Go
    <2> DEFINE terminal == [state |-> State(exit[d]), result |-> private[d].result,
                            patch |-> IF diffPath[d] THEN private[d].capture.patch ELSE None]
    <2>0. private' = [private EXCEPT ![d].terminal = terminal]
      OBVIOUS
    <2>a. terminal \in Terminals /\ terminal # None
      <3>1. Result(d) \in Results /\ private[d].result = Result(d)
        BY DEF TypeOK, ResultSealed, Results
      <3>2. terminal.patch \in Patches \cup {None}
        BY DEF TypeOK, OutcomeSound, Stores, Captures
      <3>3. State(exit[d]) \in {"SUCCEEDED", "NO_CHANGES", "CANCELED", "FAILED"}
        BY DEF State
      <3>4. terminal \in Terminals
        BY <3>1, <3>2, <3>3 DEF Terminals
      <3> QED
        BY <3>4, Present
    <2>1. TypeOK'
      <3>1. at' \in [Dispatches -> Phases]
        BY DEF TypeOK, Phases
      <3>2. private' \in [Dispatches -> Stores]
        <4>1. [private[d] EXCEPT !.terminal = terminal] \in Stores
          BY <2>a, StoreKept DEF TypeOK
        <4> HIDE DEF terminal, SealTerminal
        <4> QED
          BY <2>0, <4>1 DEF TypeOK
      <3> QED
        BY <3>1, <3>2 DEF TypeOK
    <2>2. BaselineHeld'
      BY DEF TypeOK, BaselineHeld, Stores
    <2>3. PatchSealed'
      BY DEF TypeOK, PatchSealed, BaselineHeld, Stores
    <2>4. OutcomeSound'
      BY DEF TypeOK, OutcomeSound, PatchSealed
    <2>5. ResultSealed'
      BY <2>0, <2>a DEF TypeOK, ResultSealed, Stores
    <2>6. ExportsOwned'
      <3>1. \A r \in Dirs : public'[r].patch = public[r].patch
        BY DEF TypeOK, Directories
      <3>2. \A e \in Dispatches \ {d} : StandsBy(e) => StandsBy(e)'
        BY DEF TypeOK, StandsBy
      <3>3. StandsBy(d) => StandsBy(d)'
        BY DEF TypeOK, StandsBy, OutcomeSound, ResultSealed, Stores
      <3> QED
        BY <3>1, <3>2, <3>3, ExportsKept
    <2>7. ReportsOver'
      BY DEF TypeOK, ReportsOver, Directories, Results
    <2>8. UntouchedAlike'
      BY DEF TypeOK, UntouchedAlike, BaselineHeld, Stores, Snapshots, Listed
    <2>9. TerminalIsSealedEvidence'
      <3>1. ASSUME terminal.state \in {"SUCCEEDED", "NO_CHANGES"}
            PROVE  /\ private[d].capture # None
                   /\ terminal.patch = Patch(private[d].authority.tree, left[d])
                   /\ terminal.state = "SUCCEEDED" <=> left[d] # private[d].authority.tree
        <4>1. exit[d] \in {0, 4} /\ (terminal.state = "SUCCEEDED" <=> exit[d] = 0)
          BY <3>1 DEF State
        <4>2. diffPath[d] /\ private[d].capture # None
          BY <4>1 DEF OutcomeSound
        <4>3. /\ terminal.patch = private[d].patch /\ private[d].patch # None
              /\ private[d].patch = Patch(private[d].authority.tree, left[d])
              /\ private[d].authority # None /\ left[d] # None
          <5>1. terminal.patch = private[d].capture.patch
            BY <4>2
          <5>2. private[d].patch # None /\ private[d].capture.patch = private[d].patch
            <6>1. private[d].capture # None
              BY <4>2
            <6>2. /\ private[d].patch # None
                  /\ private[d].capture = [head |-> private[d].authority.head,
                        tree |-> private[d].authority.tree, dir |-> DirOf[d], patch |-> private[d].patch]
              BY <6>1 DEF PatchSealed
            <6> QED
              BY <6>2
          <5> QED
            BY <5>1, <5>2 DEF PatchSealed
        <4>5. private[d].authority.tree \in Trees /\ left[d] \in Trees
          BY <4>3 DEF TypeOK, Stores, Authorities
        <4>4. exit[d] = 0 <=> DOMAIN private[d].patch # {}
          BY <4>1, <4>2 DEF OutcomeSound
        <4>6. DOMAIN private[d].patch # {} <=> left[d] # private[d].authority.tree
          <5>1. DOMAIN Patch(private[d].authority.tree, left[d]) = {} <=> private[d].authority.tree = left[d]
            BY <4>5, EmptyPatch
          <5> QED
            BY <4>3, <5>1
        <4> HIDE DEF terminal
        <4> QED
          BY <4>1, <4>2, <4>3, <4>4, <4>6
      <3>2. /\ private'[d].terminal = terminal /\ private'[d].capture = private[d].capture
            /\ private'[d].authority = private[d].authority
            /\ \A e \in Dispatches \ {d} : private'[e] = private[e]
        BY <2>0 DEF TypeOK, Stores
      <3> QED
        <4> HIDE DEF terminal
        <4> QED
          BY <3>1, <3>2 DEF TerminalIsSealedEvidence
    <2>10. ReportedIsSealed'
      BY DEF TypeOK, ReportedIsSealed, ResultSealed, ReportsOver, Directories, Stores,
         Results
    <2>11. PreexistingExcluded'
      BY DEF TypeOK, PreexistingExcluded, PatchSealed, UntouchedAlike, BaselineHeld, Stores
    <2> QED
      BY <2>1, <2>2, <2>3, <2>4, <2>5, <2>6, <2>7, <2>8, <2>9, <2>10, <2>11
  <1>18. ASSUME NEW d \in Dispatches, Report(d) PROVE Inv'
    <2> USE <1>18 DEF Report, Export, Gone, Go
    <2>1. TypeOK'
      <3>1. at' \in [Dispatches -> Phases]
        BY DEF TypeOK, Phases
      <3>2. started' \in [Dispatches -> Heads \cup {None}]
        BY DEF TypeOK
      <3>3. held' \in [Dispatches -> Snapshots \cup {None}]
        BY DEF TypeOK
      <3>4. seen' \in [Dispatches -> Patches]
        BY NoFiles DEF TypeOK
      <3>5. exit' \in [Dispatches -> Exits]
        BY DEF TypeOK, Exits
      <3>6. diffPath' \in [Dispatches -> BOOLEAN]
        BY DEF TypeOK
      <3>7. public' \in [Dirs -> Directories]
        <4>1. Result(d) \in Results
          BY DEF TypeOK, Results
        <4> QED
          BY <4>1, DirectoryKept DEF TypeOK
      <3> QED
        BY <3>1, <3>2, <3>3, <3>4, <3>5, <3>6, <3>7 DEF TypeOK
    <2>2. BaselineHeld'
      BY DEF TypeOK, BaselineHeld, Stores
    <2>3. PatchSealed'
      BY DEF TypeOK, PatchSealed, BaselineHeld, Stores
    <2>4. OutcomeSound'
      BY DEF TypeOK, OutcomeSound, PatchSealed
    <2>5. ResultSealed'
      BY DEF TypeOK, ResultSealed, Stores
    <2>6. ExportsOwned'
      <3>1. \A r \in Dirs : public'[r].patch = public[r].patch
        BY DEF TypeOK, Directories
      <3>2. \A e \in Dispatches \ {d} : StandsBy(e) => StandsBy(e)'
        BY DEF TypeOK, StandsBy
      <3>3. StandsBy(d) => StandsBy(d)'
        BY DEF TypeOK, StandsBy, OutcomeSound, ResultSealed, Stores
      <3> QED
        BY <3>1, <3>2, <3>3, ExportsKept
    <2>7. ReportsOver'
      BY DEF TypeOK, ReportsOver, Directories, Results
    <2>8. UntouchedAlike'
      BY DEF TypeOK, UntouchedAlike, BaselineHeld, Stores, Snapshots, Listed
    <2>9. ReportedIsSealed'
      BY DEF TypeOK, ReportedIsSealed, ResultSealed, ReportsOver, Directories, Stores,
         Results
    <2>10. (TerminalIsSealedEvidence /\ PreexistingExcluded)'
      BY DEF TerminalIsSealedEvidence, PreexistingExcluded
    <2> QED
      BY <2>1, <2>2, <2>3, <2>4, <2>5, <2>6, <2>7, <2>8, <2>9, <2>10
  <1>19. ASSUME NEW f \in Files, Edit(f) PROVE Inv'
    <2> USE <1>19 DEF Edit, EditBegins, Touch
    <2>1. TypeOK'
      BY DEF TypeOK, Phases, Exits, Stores, Directories, Snapshots, Heads, Trees, Results
    <2>2. UntouchedAlike'
      <3>1. \A e \in Dispatches : \A g \in Files \ touched'[e] :
              /\ g \in Files \ touched[e]
              /\ at[e] \in Window => Listed(g)' = Listed(g) /\ (g \in hidden' <=> g \in hidden)
        <4> TAKE e \in Dispatches
        <4>1. touched'[e] = touched[e] \cup (IF at[e] \in Window THEN {f} ELSE {})
          OBVIOUS
        <4>2. \A g \in Files \ {f} : tree'[g] = tree[g] /\ (g \in hidden' <=> g \in hidden)
          BY DEF TypeOK, Trees
        <4> QED
          BY <4>1, <4>2 DEF Listed
      <3> QED
        BY <3>1 DEF UntouchedAlike, Window
    <2>3. PreexistingExcluded'
      BY DEF TypeOK, PreexistingExcluded
    <2>4. (BaselineHeld /\ PatchSealed /\ OutcomeSound /\ ResultSealed
           /\ ExportsOwned /\ ReportsOver /\ TerminalIsSealedEvidence
           /\ ReportedIsSealed)'
      <3>1. (BaselineHeld /\ PatchSealed)'
        BY DEF BaselineHeld, PatchSealed
      <3>2. (OutcomeSound /\ ResultSealed)'
        BY DEF OutcomeSound, ResultSealed
      <3>3. (ExportsOwned /\ ReportsOver /\ TerminalIsSealedEvidence)'
        BY DEF ExportsOwned, StandsBy, ReportsOver, TerminalIsSealedEvidence
      <3>4. (ReportedIsSealed)'
        BY DEF ReportedIsSealed
      <3> QED
        BY <3>1, <3>2, <3>3, <3>4
    <2> QED
      BY <2>1, <2>2, <2>3, <2>4
  <1>20. ASSUME NEW f \in Files, Relist(f) PROVE Inv'
    <2> USE <1>20 DEF Relist, EditBegins, Touch
    <2>1. TypeOK'
      BY DEF TypeOK, Phases, Exits, Stores, Directories, Snapshots, Heads, Trees, Results
    <2>2. UntouchedAlike'
      <3>1. \A e \in Dispatches : \A g \in Files \ touched'[e] :
              /\ g \in Files \ touched[e]
              /\ at[e] \in Window => Listed(g)' = Listed(g) /\ (g \in hidden' <=> g \in hidden)
        <4> TAKE e \in Dispatches
        <4>1. touched'[e] = touched[e] \cup (IF at[e] \in Window THEN {f} ELSE {})
          OBVIOUS
        <4>2. \A g \in Files \ {f} : tree'[g] = tree[g] /\ (g \in hidden' <=> g \in hidden)
          OBVIOUS
        <4> QED
          BY <4>1, <4>2 DEF Listed
      <3> QED
        BY <3>1 DEF UntouchedAlike, Window
    <2>3. PreexistingExcluded'
      BY DEF TypeOK, PreexistingExcluded
    <2>4. (BaselineHeld /\ PatchSealed /\ OutcomeSound /\ ResultSealed
           /\ ExportsOwned /\ ReportsOver /\ TerminalIsSealedEvidence
           /\ ReportedIsSealed)'
      <3>1. (BaselineHeld /\ PatchSealed)'
        BY DEF BaselineHeld, PatchSealed
      <3>2. (OutcomeSound /\ ResultSealed)'
        BY DEF OutcomeSound, ResultSealed
      <3>3. (ExportsOwned /\ ReportsOver /\ TerminalIsSealedEvidence)'
        BY DEF ExportsOwned, StandsBy, ReportsOver, TerminalIsSealedEvidence
      <3>4. (ReportedIsSealed)'
        BY DEF ReportedIsSealed
      <3> QED
        BY <3>1, <3>2, <3>3, <3>4
    <2> QED
      BY <2>1, <2>2, <2>3, <2>4
  <1>21. CASE Commit
    <2> USE <1>21 DEF Commit
    <2>1. TypeOK'
      BY DEF TypeOK, Phases, Exits, Stores, Directories, Snapshots, Heads, Trees, Results
    <2>2. (BaselineHeld /\ PatchSealed /\ OutcomeSound /\ ResultSealed
           /\ ExportsOwned /\ ReportsOver /\ UntouchedAlike
           /\ TerminalIsSealedEvidence /\ ReportedIsSealed /\ PreexistingExcluded)'
      <3>1. (BaselineHeld /\ PatchSealed)'
        BY DEF BaselineHeld, PatchSealed
      <3>2. (OutcomeSound /\ ResultSealed)'
        BY DEF OutcomeSound, ResultSealed
      <3>3. (ExportsOwned /\ ReportsOver /\ UntouchedAlike)'
        BY DEF ExportsOwned, StandsBy, ReportsOver, UntouchedAlike, Listed
      <3>4. (TerminalIsSealedEvidence /\ ReportedIsSealed /\ PreexistingExcluded)'
        BY DEF TerminalIsSealedEvidence, ReportedIsSealed, PreexistingExcluded
      <3> QED
        BY <3>1, <3>2, <3>3, <3>4
    <2> QED
      BY <2>1, <2>2
  <1>22. ASSUME NEW r \in Dirs, VerifyDescriptor(r) PROVE Inv'
    <2> USE <1>22 DEF VerifyDescriptor
    <2>1. TypeOK'
      <3>1. verifier' \in Readings \cup {Idle}
        <4>1. public[r].snapshot \in Descriptors
          BY DEF TypeOK, Directories
        <4> QED
          BY <4>1 DEF Descriptors, Readings
      <3> QED
        BY <3>1 DEF TypeOK
    <2>2. (BaselineHeld /\ PatchSealed /\ OutcomeSound /\ ResultSealed
           /\ ExportsOwned /\ ReportsOver /\ UntouchedAlike
           /\ TerminalIsSealedEvidence /\ ReportedIsSealed /\ PreexistingExcluded)'
      <3>1. (BaselineHeld /\ PatchSealed)'
        BY DEF BaselineHeld, PatchSealed
      <3>2. (OutcomeSound /\ ResultSealed)'
        BY DEF OutcomeSound, ResultSealed
      <3>3. (ExportsOwned /\ ReportsOver /\ UntouchedAlike)'
        BY DEF ExportsOwned, StandsBy, ReportsOver, UntouchedAlike, Listed
      <3>4. (TerminalIsSealedEvidence /\ ReportedIsSealed /\ PreexistingExcluded)'
        BY DEF TerminalIsSealedEvidence, ReportedIsSealed, PreexistingExcluded
      <3> QED
        BY <3>1, <3>2, <3>3, <3>4
    <2> QED
      BY <2>1, <2>2
  <1>23. CASE VerifyEnds
    <2> USE <1>23 DEF VerifyEnds
    <2>1. TypeOK'
      BY DEF TypeOK, Phases, Exits, Stores, Directories, Snapshots, Heads, Trees, Results
    <2>2. (BaselineHeld /\ PatchSealed /\ OutcomeSound /\ ResultSealed
           /\ ExportsOwned /\ ReportsOver /\ UntouchedAlike
           /\ TerminalIsSealedEvidence /\ ReportedIsSealed /\ PreexistingExcluded)'
      <3>1. (BaselineHeld /\ PatchSealed)'
        BY DEF BaselineHeld, PatchSealed
      <3>2. (OutcomeSound /\ ResultSealed)'
        BY DEF OutcomeSound, ResultSealed
      <3>3. (ExportsOwned /\ ReportsOver /\ UntouchedAlike)'
        BY DEF ExportsOwned, StandsBy, ReportsOver, UntouchedAlike, Listed
      <3>4. (TerminalIsSealedEvidence /\ ReportedIsSealed /\ PreexistingExcluded)'
        BY DEF TerminalIsSealedEvidence, ReportedIsSealed, PreexistingExcluded
      <3> QED
        BY <3>1, <3>2, <3>3, <3>4
    <2> QED
      BY <2>1, <2>2
  <1>24. CASE UNCHANGED vars
    <2>1. (TypeOK /\ BaselineHeld /\ PatchSealed)'
      BY <1>24 DEF TypeOK, BaselineHeld, PatchSealed
    <2>2. (OutcomeSound /\ ResultSealed /\ ExportsOwned /\ ReportsOver)'
      BY <1>24 DEF OutcomeSound, ResultSealed, ExportsOwned, StandsBy, ReportsOver
    <2>3. UntouchedAlike'
      BY <1>24 DEF UntouchedAlike, Listed
    <2>4. (TerminalIsSealedEvidence /\ ReportedIsSealed /\ PreexistingExcluded)'
      BY <1>24 DEF TerminalIsSealedEvidence, ReportedIsSealed, PreexistingExcluded
    <2> QED
      BY <2>1, <2>2, <2>3, <2>4
  <1> QED
    BY <1>1, <1>2, <1>3, <1>4, <1>5, <1>6, <1>7, <1>8, <1>9, <1>10, <1>11, <1>12, <1>13,
       <1>14, <1>15, <1>16, <1>17, <1>18, <1>19, <1>20, <1>21, <1>22, <1>23, <1>24 DEF Next,
       DispatchStep

(* The invariant of every dispatch: the type invariant, the order in which *)
(* records are sealed, and what each says.                                 *)
THEOREM EvidenceInvariant == Spec => []Inv
  <1> QED
    BY Initially, Inductive, PTL DEF Spec

(* Whatever is reported is sealed, and a terminal record that claims an    *)
(* outcome names the difference of the snapshots around this very turn     *)
(* (snapshot.go:222-270, run.go:220-232).                                  *)
THEOREM EvidenceIsSealed == Spec => []SealedEvidence
  <1>1. Inv => SealedEvidence
    BY DEF Inv, SealedEvidence
  <1> QED
    BY <1>1, EvidenceInvariant, PTL

(* A patch holds only files written, or listed otherwise, between the two  *)
(* snapshots of its dispatch, however files, ignore rules, index and HEAD  *)
(* change while they are read: the rest of the work that was in the tree   *)
(* before is not in it (snapshot.go:59-116).                               *)
THEOREM EarlierWorkIsExcluded == Spec => []PreexistingExcluded
  <1>1. Inv => PreexistingExcluded
    BY DEF Inv
  <1> QED
    BY <1>1, EvidenceInvariant, PTL

(* A dispatch that reports no diff has withdrawn its patch, or failed to   *)
(* (run.go:180-189).                                                       *)
THEOREM PatchesAreWithdrawn == Spec => []NoStalePatch
  <1>1. ASSUME Inv PROVE NoStalePatch
    <2> SUFFICES ASSUME NEW r \in Dirs, public[r].result # None,
                        public[r].patch \notin {None, Forged},
                        public[r].patch.by = public[r].result.run
                 PROVE  public[r].result.diffPath \/ public[r].result.run \in stuck
      BY DEF NoStalePatch
    <2>1. private[public[r].patch.by].result = public[r].result
      BY <1>1 DEF Inv, ReportedIsSealed
    <2> QED
      BY <1>1, <2>1 DEF Inv, ExportsOwned, StandsBy
  <1> QED
    BY <1>1, EvidenceInvariant, PTL

(* Clean verification accepts only what a run of that directory left, with *)
(* any number of edits, forgeries and dispatches going on meanwhile        *)
(* (clean_verify.py:149-251).                                              *)
THEOREM VerificationIsSound == Spec => []VerifiedIsWhatWasLeft
  <1>1. ASSUME Inv, Accepted PROVE VerifiedIsWhatWasLeft
    <2> DEFINE d == verifier.run
               bytes == Bytes(public[verifier.dir].patch)
    <2>1. /\ d \in Dispatches /\ bytes = private[d].patch
          /\ Binds(private[d].authority, verifier) /\ private[d].capture # None
      BY <1>1 DEF Accepted, Binds, PatchAgrees, Inv, TypeOK, Readings
    <2>2. /\ verifier.tree = private[d].authority.tree
          /\ private[d].authority # None
          /\ verifier.dir = DirOf[d]
      BY <1>1, <2>1 DEF Binds, Inv, BaselineHeld
    <2>3. /\ private[d].patch # None /\ left[d] # None
          /\ private[d].patch = Patch(private[d].authority.tree, left[d])
      BY <1>1, <2>1 DEF Inv, PatchSealed
    <2>4. /\ private[d].authority.tree \in Trees /\ left[d] \in Trees
          /\ private[d].patch \in Patches
      BY <1>1, <2>1, <2>2, <2>3 DEF Inv, TypeOK, Stores, Authorities
    <2>5. bytes # Forged
      BY <2>1, <2>4, Present
    <2>6. Applied(verifier.tree, bytes) = left[d]
      BY <2>1, <2>2, <2>3, <2>4, PatchApplies
    <2> QED
      BY <2>2, <2>5, <2>6 DEF VerifiedIsWhatWasLeft
  <1>2. Inv => VerifiedIsWhatWasLeft
    BY <1>1 DEF VerifiedIsWhatWasLeft
  <1> QED
    BY <1>2, EvidenceInvariant, PTL

=============================================================================
