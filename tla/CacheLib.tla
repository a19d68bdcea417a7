------------------------------ MODULE CacheLib ------------------------------
(***************************************************************************)
(* The life of one cache_lib object under every operation of its class.    *)
(* The client builds caches from directory listings, writes item states    *)
(* through the spans it is handed, and now and then saves the library and  *)
(* starts over from the file (cache_lib(true)).                            *)
(***************************************************************************)
EXTENDS CacheLibrary

CONSTANTS MaxItems,      \* bound: items in the whole library
          MaxListing     \* bound: files in a directory listing

ASSUME BoundsAssumption == MaxItems \in Nat /\ MaxListing \in Nat

VARIABLES lib,
          asked          \* the operation last called, which no operation looks at

vars == <<lib, asked>>

TypeOK == lib \in Library

Init == lib = EmptyLibrary /\ asked = <<"Reopen">>

-----------------------------------------------------------------------------
Insert(n, listing, loc) ==
    /\ asked' = <<"Create", n, ToSet(listing)>>
    /\ lib' = LibInsert(lib, n, CacheOf(listing, loc)).lib
    /\ ItemCount(lib') <= MaxItems

\* operator[] hands out the cache, and its owner inserts a wallpaper.
AddItem(n, w, loc) ==
    /\ asked' = <<"Put", n, w>>
    /\ LibExists(lib, n)
    /\ lib' = [lib EXCEPT !.vec[LibFind(lib, n)].cache = CacheInsert(@, w, loc)]
    /\ ItemCount(lib') <= MaxItems

\* Operation op, which leaves the library r.lib.
Does(op, r) == asked' = op /\ lib' = r.lib

GetCache(n)                == Does(<<"Look", n>>, LibGetCache(lib, n))
ChangeActive(n)            == Does(<<"Activate", n>>, LibChangeActive(lib, n))
RenameStore(from, to)      == Does(<<"Rename", from, to>>, LibRename(lib, from, to))
RemoveStore(n)             == Does(<<"Drop", n>>, LibRemove(lib, n))
RemoveCacheItem(n, w)      == Does(<<"Discard", n, w>>, LibRemoveItem(lib, n, w))
MergeCache(col1, col2)     == Does(<<"Merge", col1, col2>>, LibMerge(lib, col1, col2))
MoveCacheItem(src, dst, w) == Does(<<"Move", src, dst, w>>, LibMove(lib, src, dst, w))

\* get_current() has no check of its own: the action has the guard that keeps
\* the access inside the vector.  The caller marks one item of the span.
WriteCurrent(k) ==
    LET p == lib.current + 1
    IN  /\ asked' = <<"Mark">>
        /\ p \in DOMAIN lib.vec
        /\ k \in DOMAIN lib.vec[p].cache.items
        /\ lib' = [lib EXCEPT !.vec[p].cache = CacheSetState(@, k, "favorate")]

\* serialize(), then cache_lib(true) in the next run.
SaveAndReload ==
    /\ asked' = <<"Reopen">>
    /\ TRUE \in LibModified(lib)
    /\ \E a \in LibActiveWritten(lib) : lib' = LibLoad(LibDocument(lib, a))

Next ==
    \/ SaveAndReload
    \/ \E k \in 1..MaxItems : WriteCurrent(k)
    \/ \E n \in Names :
          \/ GetCache(n) \/ ChangeActive(n) \/ RemoveStore(n)
          \/ \E listing \in Listings(MaxListing), loc \in Locs : Insert(n, listing, loc)
          \/ \E w \in Walls :
                \/ RemoveCacheItem(n, w)
                \/ \E loc \in Locs : AddItem(n, w, loc)
                \/ \E m \in Names : MoveCacheItem(n, m, w)
          \/ \E m \in Names : RenameStore(n, m) \/ MergeCache(n, m)

Spec == Init /\ [][Next]_vars

-----------------------------------------------------------------------------
\* No two collections have the same name: every lookup stops at the first.
NamesUnique == DistinctNames(lib.vec)

\* A collection with wallpapers is marked as modified, whatever happened to it
\* since it was loaded: modified() only reads behind the vector, and saving is
\* only left to chance, when every collection is empty.
NonEmptyIsMarked == \A i \in DOMAIN lib.vec : Marked(lib.vec[i].cache)

\* The collection at m_current is the one whose name is m_active_name.
Agreement(l) == l.current < Len(l.vec) /\ l.vec[l.current + 1].name = l.active

\* A step took away a collection stored at or before m_current.
ErasedUpToCurrent ==
    /\ Len(lib'.vec) < Len(lib.vec)
    /\ \E i \in 1..(lib.current + 1) :
          i \in DOMAIN lib'.vec => lib'.vec[i].name # lib.vec[i].name

\* remove() and merge_cache() on the collections up to the active one are the
\* only operations after which get_current() and active_cache_name() differ
\* although they agreed before: not renaming, moving, saving or reloading.
AgreementKept == [][Agreement(lib) /\ ~ ErasedUpToCurrent => Agreement(lib')]_lib

\* The library implements the shelf, operation by operation: creating enters the
\* wallpapers listed, merging gives the union, moving takes from one collection
\* and gives to the other, discarding takes the one wallpaper named, renaming,
\* saving and reloading keep all of them; an operation that is refused changes
\* nothing, and one that could be carried out is not refused.
ShelfView ==
    INSTANCE Shelf WITH
        Walls  <- Walls \cup {NoString},
        NoName <- NoString,
        active <- lib.active,
        held   <- [n \in LibNames(lib) |->
                      {it.value : it \in ToSet(lib.vec[LibFind(lib, n)].cache.items)}]

ImplementsShelf == ShelfView!ShelfSpec

-----------------------------------------------------------------------------
\* What the tests say of get_current(): after a collection has been activated,
\* and as long as it exists, the current collection is that collection.
CurrentIsActive == lib.active \in LibNames(lib) => Agreement(lib)
=============================================================================
