--------------------------- MODULE MC_SlottedPage ---------------------------
(* A page of 20 bytes with 5-bit offsets: up to six rows, row sizes that      *)
(* InsertRow refuses, updates that fit and updates that do not.               *)
EXTENDS SlottedPage
=============================================================================
