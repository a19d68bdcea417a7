------------------------------- MODULE Rotation -------------------------------
(***************************************************************************)
(* Manager (change_app/wall_manager.cpp) as it changes the wallpaper:      *)
(* next_wall, previous_wall and mark_favorate, between the operations on   *)
(* collections.  next_wall draws indices at random until it finds an       *)
(* unused wallpaper in the collection of the active name; mark_favorate    *)
(* looks for the last wallpaper of the history in the collection at        *)
(* m_current, which need not be the one it was drawn from.                 *)
(***************************************************************************)
EXTENDS CacheLibrary, PathTable

CONSTANTS MaxListing,    \* bound: wallpapers a collection is created with
          MaxAdds,       \* bound: wallpapers entered, all in all
          MaxHistory     \* bound: entries of the history

ASSUME RotationAssumption ==
    /\ Ids \subseteq Locs
    /\ NoString \notin Walls \cup Names
    /\ {MaxListing, MaxAdds, MaxHistory} \subseteq Nat

VARIABLES lib,           \* m_cache
          table,         \* m_path_buf
          history,       \* m_previous
          drawing,       \* next_wall is in its loop
          alive,         \* the process has not crashed
          desktop,       \* the entry returned last
          entered,       \* which wallpaper was entered from which directory
          added, shown   \* how often each wallpaper was entered and drawn

vars == <<lib, table, history, drawing, alive, desktop, entered, added, shown>>

Drawn   == [wall : Walls \cup {NoString}, path : Dirs]
Nothing == [wall |-> NoString, path |-> NoString]

None == [w \in Walls |-> 0]

Init ==
    /\ lib = EmptyLibrary /\ table = TableOf(EmptyStore)
    /\ history = <<>> /\ drawing = FALSE /\ alive = TRUE
    /\ desktop = Nothing
    /\ entered = {} /\ added = None /\ shown = None

\* The process has crashed, and nothing is stored.
Dies ==
    /\ lib' = EmptyLibrary /\ table' = TableOf(EmptyStore)
    /\ history' = <<>> /\ drawing' = FALSE /\ alive' = FALSE
    /\ desktop' = Nothing
    /\ entered' = {} /\ added' = None /\ shown' = None

Ready == alive /\ ~ drawing

-----------------------------------------------------------------------------
\* An operation on the collections leaves the library l.
Changes(l) ==
    /\ Ready
    /\ lib' = l
    /\ UNCHANGED <<table, history, drawing, alive, desktop, entered, added, shown>>

\* The wallpapers ws of the directory d are entered.
Enters(l, d, ws) ==
    /\ Ready
    /\ lib' = l /\ table' = TableInsert(table, d)
    /\ entered' = entered \cup (ws \X {d})
    /\ added' = [w \in Walls |-> IF w \in ws THEN added[w] + 1 ELSE added[w]]
    /\ UNCHANGED <<history, drawing, alive, desktop, shown>>

\* The files of the directory d, and of those below it when the command says so:
\* all of them are entered under d.
Create(n, d, listing) ==
    Enters(LibInsert(lib, n, CacheOf(listing, Crc[d])).lib, d,
           IF LibExists(lib, n) THEN {} ELSE ToSet(listing))

\* Without a path, or with one that does not exist, nothing is entered.
CreateEmpty(n) == Changes(LibInsert(lib, n, NewCache).lib)

Insert(n, w, loc) == [lib EXCEPT !.vec[LibFind(lib, n)].cache = CacheInsert(@, w, loc)]

NewIn(n, w) ==
    IF CacheContains(lib.vec[LibFind(lib, n)].cache, w) THEN {} ELSE {w}

\* Mutants of Add: another directory is entered; the wallpaper gets no directory.
AddOnly(n, w, d) ==
    /\ LibExists(lib, n)
    /\ Enters(Insert(n, w, Crc[d]), CHOOSE any \in Dirs : TRUE, NewIn(n, w))

AddNowhere(n, w, d) ==
    /\ LibExists(lib, n)
    /\ Enters(Insert(n, w, 0), d, NewIn(n, w))

Add(n, w, d) ==
    /\ LibExists(lib, n)
    /\ Enters(Insert(n, w, Crc[d]), d, NewIn(n, w))

Activate(n)         == Changes(LibChangeActive(lib, n).lib)
RemoveCollection(n) == Changes(LibRemove(lib, n).lib)
RemoveWallpaper(n, w) == Changes(LibRemoveItem(lib, n, w).lib)
Rename(n, m)        == Changes(LibRename(lib, n, m).lib)
Merge(n, m)         == Changes(LibMerge(lib, n, m).lib)
Move(w, n, m)       == Changes(LibMove(lib, n, m, w).lib)

-----------------------------------------------------------------------------
(***************************************************************************)
(* next_wall.  The distribution is over 1..size and the index is 0-based:  *)
(* index 0 is never drawn, and index size lies behind the span.            *)
(***************************************************************************)
ActiveItems == lib.vec[LibFind(lib, lib.active)].cache.items

\* get_cache marks the active collection; without one, next_wall returns.
NextWall ==
    /\ Ready /\ LibExists(lib, lib.active)
    /\ lib' = LibGetCache(lib, lib.active).lib
    /\ drawing' = TRUE
    /\ UNCHANGED <<table, history, alive, desktop, entered, added, shown>>

Return(e) ==
    /\ history' = Append(history, e) /\ desktop' = e
    /\ drawing' = FALSE
    /\ UNCHANGED <<table, alive, entered, added>>

\* Mutant of CanDraw: the last wallpaper is out of reach as well.
CanDrawShort(idx) ==
    /\ drawing /\ idx \in 1..(Len(ActiveItems) - 2)
    /\ ActiveItems[idx + 1].state = "unused"

CanDraw(idx) ==
    /\ drawing /\ idx \in 1..(Len(ActiveItems) - 1)
    /\ ActiveItems[idx + 1].state = "unused"

\* value() of a directory that is not entered would end the process, but see
\* DrawNeverThrows.
Finds(idx) ==
    /\ CanDraw(idx)
    /\ LET item == ActiveItems[idx + 1]
       IN  /\ item.loc \in DOMAIN table.store
           /\ Return([wall |-> item.value, path |-> table.store[item.loc]])
           /\ shown' = [shown EXCEPT ![item.value] = @ + 1]

\* Mutant of Draw: the wallpaper is marked in a copy of the collection.
DrawUnmarked(idx) == Finds(idx) /\ UNCHANGED lib

Draw(idx) ==
    /\ Finds(idx)
    /\ lib' = [lib EXCEPT !.vec[LibFind(lib, lib.active)].cache =
                  CacheSetState(@, idx + 1, "used")]

\* What lies behind the span is not a wallpaper: reading it can end the
\* process, or it passes for one that is unused.  (When it passes for one that
\* is not, the loop goes on.)
DrawBehind ==
    /\ drawing
    /\ \/ Dies
       \/ \E id \in DOMAIN table.store :
             /\ Return([wall |-> NoString, path |-> table.store[id]])
             /\ UNCHANGED <<lib, shown>>

-----------------------------------------------------------------------------
PreviousWall ==
    /\ Ready /\ history # <<>>
    /\ desktop' = history[Len(history)]
    /\ history' = SubSeq(history, 1, Len(history) - 1)
    /\ UNCHANGED <<lib, table, drawing, alive, entered, added, shown>>

Current == lib.vec[lib.current + 1].cache
Recent  == history[Len(history)].wall

MarkAt(k) ==
    /\ lib' = [lib EXCEPT !.vec[lib.current + 1].cache = CacheSetState(@, k, "favorate")]
    /\ UNCHANGED <<table, history, drawing, alive, desktop, entered, added, shown>>

Markable == Ready /\ history # <<>>
Listed   == lib.current < Len(lib.vec) /\ CacheContains(Current, Recent)

\* Mutant of MarkFavorate: the item after the one that is found is marked.
MarkFavorateNext ==
    /\ Markable /\ Listed /\ CacheFind(Current, Recent) < Len(Current.items)
    /\ MarkAt(CacheFind(Current, Recent) + 1)

MarkFavorate == Markable /\ Listed /\ MarkAt(CacheFind(Current, Recent))

\* Nothing is found: the state is written behind the items, or behind the
\* library, which the process may survive.
MarkBehind ==
    /\ Markable /\ ~ Listed
    /\ \/ Dies
       \/ /\ lib' = IF lib.current < Len(lib.vec)
                      THEN [lib EXCEPT !.vec[lib.current + 1].cache = CacheTouch(@)]
                      ELSE lib
          /\ UNCHANGED <<table, history, drawing, alive, desktop, entered, added, shown>>

-----------------------------------------------------------------------------
Collections ==
    \E n \in Names :
        \/ \E d \in Dirs, listing \in Listings(MaxListing) : Create(n, d, listing)
        \/ CreateEmpty(n)
        \/ Activate(n) \/ RemoveCollection(n)
        \/ \E w \in Walls : \/ \E d \in Dirs : Add(n, w, d)
                            \/ RemoveWallpaper(n, w)
                            \/ \E m \in Names : Move(w, n, m)
        \/ \E m \in Names : Rename(n, m) \/ Merge(n, m)

SumOf(f) == FoldFunction(LAMBDA a, b : a + b, 0, f)

Found == \E idx \in 1..MaxAdds : Draw(idx)

Next ==
    \/ Collections /\ SumOf(added') <= MaxAdds
    \/ Len(history) < MaxHistory /\ NextWall
    \/ Found \/ DrawBehind
    \/ PreviousWall \/ MarkFavorate \/ MarkBehind

\* The draws are random: an index that finds an unused wallpaper is drawn at last.
Spec     == Init /\ [][Next]_vars
LiveSpec == Spec /\ WF_vars(Found)

-----------------------------------------------------------------------------
TypeOK ==
    /\ lib \in Library /\ table \in PathTables
    /\ history \in Seq(Drawn) /\ desktop \in Drawn \cup {Nothing}
    /\ drawing \in BOOLEAN /\ alive \in BOOLEAN
    /\ entered \subseteq Walls \X Dirs
    /\ added \in [Walls -> Nat] /\ shown \in [Walls -> Nat]

\* How many items of the library are the wallpaper w in a state of S.
Entries(w, S) == Cardinality(Holding(lib, [value : {w}, state : S, loc : Locs]))

\* However collections are merged, moved and marked in between, a wallpaper is
\* drawn at most as often as it has been entered: every entry comes up once.
ShownOncePerEntry ==
    \A w \in Walls : shown[w] + Entries(w, {"unused"}) <= added[w]

\* Only what has been shown is used or a favourite.
UsedWereShown ==
    \A w \in Walls : Entries(w, {"used", "favorate"}) > 0 => shown[w] > 0

\* The wallpaper w was entered from a directory with that CRC32.
EnteredUnder(en, w, id) == \E d \in Dirs : Crc[d] = id /\ <<w, d>> \in en

\* Whatever is merged, moved and removed between an entry and a draw, next_wall
\* gives a wallpaper with the directory that it was entered from, or with one
\* of the same CRC32: never with that of another wallpaper.
ShownIsThere ==
    desktop.wall # NoString => EnteredUnder(entered, desktop.wall, Crc[desktop.path])

\* Every directory that is looked up is known: drawing never throws.
DrawNeverThrows ==
    \A idx \in 1..MaxAdds : CanDraw(idx) => ActiveItems[idx + 1].loc \in DOMAIN table.store

\* A draw ends when an unused wallpaper other than the first is left.
FoundAtLast ==
    (drawing /\ \E i \in 2..Len(ActiveItems) : ActiveItems[i].state = "unused") ~> ~ drawing
=============================================================================
