------------------------------ MODULE MCImportPage -------------------------------
(* Instances of ImportPage for TLC. *)
EXTENDS ImportPage, TLC

CONSTANTS f1, f2, f3
=============================================================================
