------------------------------ MODULE MCImport ------------------------------
(***************************************************************************)
(* Two workers; two workbooks of one production, and one that is broken.   *)
(***************************************************************************)
EXTENDS Import

CONSTANTS w1, w2, bookA, bookB, bookBad
=============================================================================
