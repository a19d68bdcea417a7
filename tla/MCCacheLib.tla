----------------------------- MODULE MCCacheLib -----------------------------
(***************************************************************************)
(* Two wallpapers and three collections; the rank 1 is both a wallpaper    *)
(* and a collection, since remove_cache_item and move_cache_item compare   *)
(* the two.                                                                *)
(***************************************************************************)
EXTENDS CacheLib

MCNames == 1..3
MCWalls == {1, 4}
MCLocs  == {0}

\* States that differ in the operation last called are one: no operation looks
\* at it, and the invariants do not either.
LibOnly == lib
=============================================================================
