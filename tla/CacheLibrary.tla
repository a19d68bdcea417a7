---------------------------- MODULE CacheLibrary ----------------------------
(***************************************************************************)
(* wallchanger::cache_lib (change_lib/wall_cache_library.cpp) as pure      *)
(* operators.  A library is the record of the three members of the class:  *)
(* m_cache_vec, m_current (0-based) and m_active_name.  An operation gives *)
(* the pair of the error it reports ("Success" for none) and the library   *)
(* it leaves, which may differ from the old one on an error as well.       *)
(***************************************************************************)
EXTENDS WallCache

CONSTANT Names       \* names of collections

ASSUME NamesAssumption == Names \subseteq Nat

Strings == Names \cup {NoString}

Entry   == [name : Names, cache : Cache]
Library == [vec : Seq(Entry), current : Nat, active : Strings]

EmptyLibrary == [vec |-> <<>>, current |-> 0, active |-> NoString]

Result(err, l) == [err |-> err, lib |-> l]
Ok(l)          == Result("Success", l)

-----------------------------------------------------------------------------
LibNames(l) == {l.vec[i].name : i \in DOMAIN l.vec}

HoldsWallpapers(l) == \E i \in DOMAIN l.vec : l.vec[i].cache.items # <<>>

\* Where the items are, as pairs of a collection's place and an item's place in
\* it, and the places that hold one of the items in G.
Spots(l)      == UNION {{i} \X DOMAIN l.vec[i].cache.items : i \in DOMAIN l.vec}
ItemAt(l, p)  == l.vec[p[1]].cache.items[p[2]]
Holding(l, G) == {p \in Spots(l) : ItemAt(l, p) \in G}

ItemCount(l) == FoldLeft(LAMBDA n, e : n + Len(e.cache.items), 0, l.vec)

LibExists(l, n) == \E i \in DOMAIN l.vec : l.vec[i].name = n

\* std::ranges::find over the names: the first collection of that name.
LibFind(l, n) == Min({i \in DOMAIN l.vec : l.vec[i].name = n})

\* Mutant of LibInsert: the name is not looked up.
LibInsertUnchecked(l, n, c) == Ok([l EXCEPT !.vec = Append(@, [name |-> n, cache |-> c])])

LibInsert(l, n, c) ==
    IF LibExists(l, n)
      THEN Result("cache_does_not_exists", l)
      ELSE Ok([l EXCEPT !.vec = Append(@, [name |-> n, cache |-> c])])

\* get_cache() on a library that may be written: its span comes from data().
LibGetCache(l, n) ==
    IF LibExists(l, n)
      THEN Ok([l EXCEPT !.vec[LibFind(l, n)].cache = CacheTouch(@)])
      ELSE Result("cache_does_not_exists", l)

\* Mutant of LibChangeActive: the distance is one too short.
LibChangeActiveShort(l, n) ==
    IF LibExists(l, n)
      THEN Ok([l EXCEPT !.active = n, !.current = LibFind(l, n) - 2])
      ELSE Result("cache_does_not_exists", l)

LibChangeActive(l, n) ==
    IF LibExists(l, n)
      THEN Ok([l EXCEPT !.active = n, !.current = LibFind(l, n) - 1])
      ELSE Result("cache_does_not_exists", l)

\* Mutants of LibRename: the new name may be in use; m_active_name stays.
LibRenameUnchecked(l, from, to) ==
    IF from # to /\ LibExists(l, from)
      THEN Ok([l EXCEPT !.vec[LibFind(l, from)].name = to,
                        !.active = IF @ = from THEN to ELSE @])
      ELSE Result("cache_does_not_exists", l)

LibRenameOnly(l, from, to) ==
    IF from # to /\ LibExists(l, from) /\ ~ LibExists(l, to)
      THEN Ok([l EXCEPT !.vec[LibFind(l, from)].name = to])
      ELSE Result("cache_does_not_exists", l)

LibRename(l, from, to) ==
    IF from = to THEN Result("cache_frm_cache_to_same", l)
    ELSE IF LibExists(l, from) /\ ~ LibExists(l, to)
      THEN Ok([l EXCEPT !.vec[LibFind(l, from)].name = to,
                        !.active = IF @ = from THEN to ELSE @])
      ELSE Result("cache_does_not_exists", l)

\* Neither m_current nor m_active_name follows what is erased.
LibRemove(l, n) ==
    IF LibExists(l, n)
      THEN Ok([l EXCEPT !.vec = RemoveAt(@, LibFind(l, n))])
      ELSE Result("cache_does_not_exists", l)

\* The search for the item goes through the non-const begin().
LibRemoveItem(l, n, w) ==
    IF n = w THEN Result("cache_name_item_name_same", l)
    ELSE IF ~ LibExists(l, n) THEN Result("cache_does_not_exists", l)
    ELSE LET p == LibFind(l, n)
         IN  IF CacheContains(l.vec[p].cache, w)
               THEN Ok([l EXCEPT !.vec[p].cache = CacheErase(@, CacheFind(@, w))])
               ELSE Result("cache_elem_not_exists",
                           [l EXCEPT !.vec[p].cache = CacheTouch(@)])

\* The merged cache goes to the end of the library under the first name.
LibMerge(l, col1, col2) ==
    IF col1 = col2 THEN Result("cache_frm_cache_to_same", l)
    ELSE IF LibExists(l, col1) /\ LibExists(l, col2)
      THEN LET merged == CacheMerge(l.vec[LibFind(l, col1)].cache,
                                    l.vec[LibFind(l, col2)].cache)
               rest   == LibRemove(LibRemove(l, col1).lib, col2).lib
           IN  Ok([rest EXCEPT !.vec = Append(@, [name |-> col1, cache |-> merged])])
      ELSE Result("cache_does_not_exists", l)

LibMove(l, src, dst, w) ==
    IF src = dst \/ dst = w THEN Result("cache_frm_cache_to_same", l)
    ELSE IF ~ (LibExists(l, src) /\ LibExists(l, dst)) THEN Result("cache_does_not_exists", l)
    ELSE LET s    == LibFind(l, src)
             from == l.vec[s].cache
             k    == CacheFind(from, w)
         IN  IF CacheContains(from, w)
               THEN Ok([l EXCEPT
                          !.vec[LibFind(l, dst)].cache = CacheInsertElem(@, from.items[k]),
                          !.vec[s].cache = CacheErase(@, k)])
               ELSE Result("cache_elem_not_exists", l)

-----------------------------------------------------------------------------
\* The names of a library, in memory or in a file, are distinct.
DistinctNames(entries) ==
    \A i, j \in DOMAIN entries : entries[i].name = entries[j].name => i = j

\* A cache that holds something is marked.
Marked(c) == c.items # <<>> => c.modified

(***************************************************************************)
(* What modified() can answer.  When no collection is marked the search    *)
(* ends at end() and the flag is read behind the last element: any value.  *)
(***************************************************************************)
LibModified(l) ==
    IF l.vec = <<>> THEN {FALSE}
    ELSE IF \E i \in DOMAIN l.vec : l.vec[i].cache.modified THEN {TRUE}
    ELSE BOOLEAN

(***************************************************************************)
(* What serialize() can write as the active name: the name of the element  *)
(* at m_current, or, when the vector has become too short, what is left in *)
(* the memory behind it.                                                   *)
(***************************************************************************)
LibActiveWritten(l) ==
    IF l.current < Len(l.vec) THEN {l.vec[l.current + 1].name} ELSE Strings

\* The document of libraries.json.
Documents == [active : Strings, libraries : Seq([name : Names, items : Seq(Item)])]

LibDocument(l, a) ==
    [active    |-> a,
     libraries |-> [i \in DOMAIN l.vec |->
                      [name |-> l.vec[i].name, items |-> l.vec[i].cache.items]]]

\* cache_lib(true), from such a document.
LibLoad(doc) ==
    LET vec == [i \in DOMAIN doc.libraries |->
                  [name  |-> doc.libraries[i].name,
                   cache |-> CacheFromJson(doc.libraries[i].items)]]
        at  == {i \in DOMAIN vec : vec[i].name = doc.active}
    IN  [vec     |-> vec,
         current |-> IF at = {} THEN 0 ELSE Min(at) - 1,
         active  |-> doc.active]
=============================================================================
