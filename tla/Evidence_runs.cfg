SPECIFICATION Spec
CONSTANTS
  Dispatches = {d1, d2}
  Files = {f1}
  Contents <- MCContents
  Absent = 0
  Dirs = {r1, r2}
  None = none
  Forged = forged
  MaxEdits = 1
  MaxTampers = 1
INVARIANTS SealedEvidence PreexistingExcluded NoStalePatch VerifiedIsWhatWasLeft
CHECK_DEADLOCK FALSE
SYMMETRY MCSymmetry
