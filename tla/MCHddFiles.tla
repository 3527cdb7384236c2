------------------------------ MODULE MCHddFiles ------------------------------
(* HddFiles with the folders, ids and bounds of HddFiles.cfg and               *)
(* HddDuplicates.cfg.                                                          *)
EXTENDS HddFiles
================================================================================
