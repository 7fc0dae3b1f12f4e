---------------------------- MODULE MC_PageCache ----------------------------
(* The page cache over three pages with two contents and limits 0 to 2: one  *)
(* page more than the largest limit, and limits below the present size.      *)
EXTENDS PageCache
=============================================================================
