----------------------------- MODULE MCMergeLoop -----------------------------
EXTENDS MergeLoop

MCWalls == {1, 2}
MCLocs  == {0, 1}
=============================================================================
