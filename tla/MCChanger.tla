------------------------------ MODULE MCChanger ------------------------------
EXTENDS Changer

CONSTANTS d1, d2, one, two

MCNames  == {1, 2}
OneName  == {1}
MCWalls  == {3}
MoreWalls == {3, 4}
MCLocs   == {0, 1}
MCDirs   == {d1, d2}
MCCrc    == (d1 :> 0) @@ (d2 :> 1)
OddOnes   == {4, d2}
BothFiles == {"paths", "library"}
Nothing   == {}
OneProc  == {one}
TwoProcs == {one, two}
=============================================================================
