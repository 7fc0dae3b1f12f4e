----------------------------- MODULE MC_Catalog -----------------------------
EXTENDS Catalog

CONSTANTS a, b
Symmetry == Permutations(Name)

\* States in which nothing is promised of any table are not explored further.
SomethingPromised == loose # Name
=============================================================================
