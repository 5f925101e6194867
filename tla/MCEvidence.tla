------------------------------ MODULE MCEvidence ------------------------------
EXTENDS Evidence, TLC

(* Contents of a file: none, or one of two versions. *)
MCContents == {0, 1}

(* Dispatches, files and directories are interchangeable. *)
MCSymmetry == Permutations(Dispatches) \cup Permutations(Files) \cup Permutations(Dirs)

===============================================================================
