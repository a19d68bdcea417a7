----------------------------- MODULE MCRotation -----------------------------
(***************************************************************************)
(* Two wallpapers, each of which can be entered from either of two         *)
(* directories, whose CRC32 differ.                                        *)
(***************************************************************************)
EXTENDS Rotation

CONSTANTS d1, d2

MCNames == {1, 2}
MCWalls == {3, 4}
MCLocs  == {0, 1}
MCDirs  == {d1, d2}
MCCrc   == (d1 :> 0) @@ (d2 :> 1)
=============================================================================
