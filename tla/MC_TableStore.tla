--------------------------- MODULE MC_TableStore ---------------------------
(* Small databases: the bounds of each run are in its configuration.          *)
EXTENDS TableStore, TLC

\* Tables differ in their names only.
Symmetry == Permutations(Table)

\* The state without its history, which no step depends on.
WithoutHistory == <<file, meta, up, mem, hdr, cache, op, crashes, faults>>
=============================================================================
