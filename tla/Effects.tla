------------------------------- MODULE Effects -------------------------------
(***************************************************************************)
(* What an operation on a library is meant to do, as relations between the *)
(* library l before it and the library r after it: on the wallpapers that  *)
(* each collection holds and on the active name, and on nothing else.      *)
(***************************************************************************)
EXTENDS CacheLibrary

Values(items) == {it.value : it \in ToSet(items)}

Held(l) == [n \in LibNames(l) |-> {it.value : it \in ToSet(l.vec[LibFind(l, n)].cache.items)}]

\* The empty string comes into a library only as the value of a blank item.
AllWalls == Walls \cup {NoString}

Stays(l, r)   == Held(r) = Held(l) /\ r.active = l.active
Reopens(l, r) == Held(r) = Held(l) /\ r.active \in Strings

Activates(l, r, n) == n \in LibNames(l) /\ Held(r) = Held(l) /\ r.active = n

Creates(l, r, n, ws) ==
    /\ n \notin LibNames(l) /\ ws \in SUBSET AllWalls /\ r.active = l.active
    /\ Held(r) = [m \in LibNames(l) \cup {n} |-> IF m = n THEN ws ELSE Held(l)[m]]

Puts(l, r, n, w) ==
    /\ n \in LibNames(l) /\ r.active = l.active
    /\ Held(r) = [Held(l) EXCEPT ![n] = Held(l)[n] \cup {w}]

\* A collection may hold copies of a wallpaper; one of them goes.
Discards(l, r, n, w) ==
    /\ n \in LibNames(l) /\ w \in Held(l)[n] /\ r.active = l.active
    /\ \E rest \in {Held(l)[n], Held(l)[n] \ {w}} : Held(r) = [Held(l) EXCEPT ![n] = rest]

Drops(l, r, n) ==
    /\ n \in LibNames(l) /\ r.active = l.active
    /\ Held(r) = [m \in LibNames(l) \ {n} |-> Held(l)[m]]

Renames(l, r, from, to) ==
    /\ from \in LibNames(l) /\ to \notin LibNames(l)
    /\ Held(r) = [m \in (LibNames(l) \ {from}) \cup {to} |->
                     IF m = to THEN Held(l)[from] ELSE Held(l)[m]]
    /\ r.active = IF l.active = from THEN to ELSE l.active

Merges(l, r, n, m) ==
    /\ {n, m} \subseteq LibNames(l) /\ n # m /\ r.active = l.active
    /\ Held(r) = [k \in LibNames(l) \ {m} |->
                     IF k = n THEN Held(l)[n] \cup Held(l)[m] ELSE Held(l)[k]]

Moves(l, r, from, to, w) ==
    /\ {from, to} \subseteq LibNames(l) /\ from # to /\ w \in Held(l)[from]
    /\ r.active = l.active
    /\ \E rest \in {Held(l)[from], Held(l)[from] \ {w}} :
          Held(r) = [Held(l) EXCEPT ![from] = rest, ![to] = Held(l)[to] \cup {w}]
=============================================================================
