------------------------------ MODULE MCFsTree ------------------------------
(* An instance of FsTree with two names. *)
EXTENDS FsTree

MCName == <<"a", "b">>
=============================================================================
