----------------------------- MODULE MC_Transfer -----------------------------
(* Two transfers of two parts.                                               *)
EXTENDS Transfer
=============================================================================
