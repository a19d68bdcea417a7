-------------------------------- MODULE Shelf --------------------------------
(***************************************************************************)
(* What a library of wallpaper collections promises to its user, without   *)
(* the vectors, the flags, the item states or the files: each collection   *)
(* holds a set of wallpapers, every request does what it says or, when the *)
(* collections and the wallpaper it names are not there as it needs them,  *)
(* nothing at all, and the active name follows a renaming.                 *)
(*                                                                         *)
(* A collection may hold several copies of one wallpaper (merging and      *)
(* moving do not look at values), so taking one out may leave another.     *)
(***************************************************************************)
EXTENDS FiniteSets

CONSTANTS Names, Walls, NoName

VARIABLES held,      \* the wallpapers of each existing collection
          active,    \* the name last activated
          asked      \* the last request

shelf == <<held, active, asked>>

Collections == DOMAIN held

With(n, ws) == [m \in Collections \cup {n} |-> IF m = n THEN ws ELSE held[m]]

\* One copy of w leaves the set ws.
Fewer(ws, w) == {ws, ws \ {w}}

ShelfInit ==
    /\ held = [n \in {} |-> {}]
    /\ active = NoName
    /\ asked = <<"Reopen">>

Stays == UNCHANGED <<held, active>>

Look(n) == asked' = <<"Look", n>> /\ Stays
Mark    == asked' = <<"Mark">> /\ Stays

Create(n, ws) ==
    /\ asked' = <<"Create", n, ws>>
    /\ IF n \in Collections THEN Stays
       ELSE held' = With(n, ws) /\ UNCHANGED active

Put(n, w) ==
    /\ asked' = <<"Put", n, w>> /\ n \in Collections
    /\ held' = With(n, held[n] \cup {w}) /\ UNCHANGED active

Rename(from, to) ==
    /\ asked' = <<"Rename", from, to>>
    /\ IF from \in Collections /\ to \notin Collections
         THEN /\ held' = [m \in (Collections \ {from}) \cup {to} |->
                             IF m = to THEN held[from] ELSE held[m]]
              /\ active' = IF active = from THEN to ELSE active
         ELSE Stays

Drop(n) ==
    /\ asked' = <<"Drop", n>>
    /\ IF n \in Collections
         THEN held' = [m \in Collections \ {n} |-> held[m]] /\ UNCHANGED active
         ELSE Stays

\* A wallpaper that has the name of its collection is not discarded.
Discard(n, w) ==
    /\ asked' = <<"Discard", n, w>>
    /\ IF n # w /\ n \in Collections /\ w \in held[n]
         THEN /\ \E rest \in Fewer(held[n], w) : held' = With(n, rest)
              /\ UNCHANGED active
         ELSE Stays

Merge(n, m) ==
    /\ asked' = <<"Merge", n, m>>
    /\ IF n # m /\ {n, m} \subseteq Collections
         THEN /\ held' = [k \in Collections \ {m} |->
                             IF k = n THEN held[n] \cup held[m] ELSE held[k]]
              /\ UNCHANGED active
         ELSE Stays

\* A wallpaper is not moved to a collection that has its name.
Move(from, to, w) ==
    /\ asked' = <<"Move", from, to, w>>
    /\ IF from # to /\ to # w /\ {from, to} \subseteq Collections /\ w \in held[from]
         THEN /\ \E rest \in Fewer(held[from], w) :
                    held' = [held EXCEPT ![from] = rest, ![to] = @ \cup {w}]
              /\ UNCHANGED active
         ELSE Stays

Activate(n) ==
    /\ asked' = <<"Activate", n>>
    /\ active' = IF n \in Collections THEN n ELSE active
    /\ UNCHANGED held

\* Closing and reopening keeps the shelf; it may come back with another name
\* as the active one.
Reopen ==
    /\ asked' = <<"Reopen">>
    /\ active' \in Names \cup {NoName}
    /\ UNCHANGED held

ShelfNext ==
    \/ Reopen \/ Mark
    \/ \E n \in Names :
          \/ Look(n) \/ Drop(n) \/ Activate(n)
          \/ \E ws \in SUBSET Walls : Create(n, ws)
          \/ \E w \in Walls : Put(n, w) \/ Discard(n, w)
          \/ \E m \in Names : Rename(n, m) \/ Merge(n, m) \/ \E w \in Walls : Move(n, m, w)

ShelfSpec == ShelfInit /\ [][ShelfNext]_shelf
=============================================================================
