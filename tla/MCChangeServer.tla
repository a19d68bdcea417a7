--------------------------- MODULE MCChangeServer ---------------------------
(***************************************************************************)
(* Two clients with two requests and any number of pings, on a server that *)
(* starts without a library or with two collections.  Wallpaper 4 has a    *)
(* name that is not UTF-8.                                                 *)
(***************************************************************************)
EXTENDS ChangeServer

CONSTANTS c1, c2

MCNames   == {1, 2}
MCWalls   == {3, 4}
MCLocs    == {0}
MCClients == {c1, c2}
MCNotUtf8 == {4}

Unused(w) == [value |-> w, state |-> "unused", loc |-> 0]
Used(w)   == [value |-> w, state |-> "used", loc |-> 0]

MCStart ==
    {[active |-> 0, libraries |-> <<>>],
     [active |-> 2, libraries |-> <<[name |-> 1, items |-> <<Unused(3)>>],
                                    [name |-> 2, items |-> <<Used(3), Unused(3)>>]>>]}
=============================================================================
