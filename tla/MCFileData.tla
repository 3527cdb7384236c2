----------------------------- MODULE MCFileData -----------------------------
(* Instances of FileData: the disturbances that the master copes with, and    *)
(* pairs of them that it does not.                                            *)
EXTENDS FileData

Symmetry == Permutations(Client)

AllFamily      == {{"fail", "drop", "danger", "late"}, {"overlap"}}
LateFamily     == {{"overlap", "late"}}
RollbackFamily == {{"overlap", "fail"}}
DropFamily     == {{"drop", "fail"}}
=============================================================================
