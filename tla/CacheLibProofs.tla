--------------------------- MODULE CacheLibProofs ---------------------------
(***************************************************************************)
(* The invariants of CacheLib for every set of names, wallpapers and       *)
(* directories and for libraries of every size.  The inductive invariant   *)
(* is lib \in SoundLibrary: well typed, names unique, and every cache that *)
(* holds an item marked.  Typing alone is not inductive, since a lookup    *)
(* must find something for its result to be a position of the vector.      *)
(*                                                                         *)
(* The last part proves that the closed forms of the merge and of loading, *)
(* which the library is modelled with, are the loops of MergeLoop, for     *)
(* lists of every length.                                                  *)
(***************************************************************************)
EXTENDS CacheLib, MergeLoop, CacheLemmas

LEMMA InitSound == Init => lib \in SoundLibrary
BY EmptyIsSound DEF Init

LEMMA NextSound == lib \in SoundLibrary /\ [Next]_vars => lib' \in SoundLibrary
<1> SUFFICES ASSUME lib \in SoundLibrary, [Next]_vars
             PROVE  lib' \in SoundLibrary
  OBVIOUS
<1>1. CASE SaveAndReload
  <2>1. PICK a \in LibActiveWritten(lib) : lib' = LibLoad(LibDocument(lib, a))
    BY <1>1 DEF SaveAndReload
  <2>. QED
    BY <2>1, ActiveWrittenType, ReloadSound
<1>2. ASSUME NEW k \in 1..MaxItems, WriteCurrent(k)
      PROVE  lib' \in SoundLibrary
  <2>. DEFINE p == lib.current + 1
  <2>1. p \in DOMAIN lib.vec /\ k \in DOMAIN lib.vec[p].cache.items
    BY <1>2 DEF WriteCurrent
  <2>2. lib.vec[p].cache \in MarkedCache
    BY <2>1, SoundEntries DEF MarkedEntry
  <2>3. CacheSetState(lib.vec[p].cache, k, "favorate") \in MarkedCache
    BY <2>1, <2>2, CacheSetStateMarked DEF States
  <2>4. lib' = [lib EXCEPT !.vec[p].cache = CacheSetState(lib.vec[p].cache, k, "favorate")]
    BY <1>2 DEF WriteCurrent
  <2>. HIDE DEF p
  <2>. QED
    BY <2>1, <2>3, <2>4, UpdateIsSound
<1>3. ASSUME NEW n \in Names, NEW listing \in Listings(MaxListing), NEW loc \in Locs,
             Insert(n, listing, loc)
      PROVE  lib' \in SoundLibrary
  BY <1>3, BoundsAssumption, CacheOfMarked, InsertSound DEF Insert
<1>4. ASSUME NEW n \in Names, NEW w \in Walls, NEW loc \in Locs, AddItem(n, w, loc)
      PROVE  lib' \in SoundLibrary
  BY <1>4, AddSound DEF AddItem
<1>5. ASSUME NEW n \in Names, GetCache(n)
      PROVE  lib' \in SoundLibrary
  BY <1>5, GetCacheSound DEF GetCache, Does
<1>6. ASSUME NEW n \in Names, ChangeActive(n)
      PROVE  lib' \in SoundLibrary
  BY <1>6, ChangeActiveSound DEF ChangeActive, Does
<1>7. ASSUME NEW n \in Names, RemoveStore(n)
      PROVE  lib' \in SoundLibrary
  BY <1>7, RemoveSound DEF RemoveStore, Does
<1>8. ASSUME NEW n \in Names, NEW w \in Walls, RemoveCacheItem(n, w)
      PROVE  lib' \in SoundLibrary
  BY <1>8, RemoveItemSound DEF RemoveCacheItem, Does
<1>9. ASSUME NEW n \in Names, NEW m \in Names, NEW w \in Walls, MoveCacheItem(n, m, w)
      PROVE  lib' \in SoundLibrary
  BY <1>9, MoveSound DEF MoveCacheItem, Does
<1>10. ASSUME NEW n \in Names, NEW m \in Names, RenameStore(n, m)
       PROVE  lib' \in SoundLibrary
  BY <1>10, RenameSound DEF RenameStore, Does
<1>11. ASSUME NEW n \in Names, NEW m \in Names, MergeCache(n, m)
       PROVE  lib' \in SoundLibrary
  BY <1>11, MergeSound DEF MergeCache, Does
<1>12. CASE UNCHANGED vars
  BY <1>12 DEF vars
<1>. QED
  BY <1>1, <1>2, <1>3, <1>4, <1>5, <1>6, <1>7, <1>8, <1>9, <1>10, <1>11, <1>12 DEF Next

\* The inductive invariant.
Sound == lib \in SoundLibrary

\* Every library that can be reached is sound.
THEOREM AlwaysSound == Spec => []Sound
<1>1. Init => Sound
  BY InitSound DEF Sound
<1>2. Sound /\ [Next]_vars => Sound'
  BY NextSound DEF Sound
<1>. QED
  BY <1>1, <1>2, PTL DEF Spec

\* Every member of cache_lib keeps its type under every operation.
THEOREM TypeCorrect == Spec => []TypeOK
<1>1. Sound => TypeOK
  BY SoundIsTyped DEF Sound, TypeOK
<1>. QED
  BY <1>1, AlwaysSound, PTL

\* No sequence of insertions, renamings, merges and reloads makes two
\* collections of one name.
THEOREM NamesStayUnique == Spec => []NamesUnique
<1>1. Sound => NamesUnique
  BY DEF Sound, SoundLibrary, DistinctNames, NamesUnique
<1>. QED
  BY <1>1, AlwaysSound, PTL

\* A collection that holds a wallpaper is always marked, so modified() finds a
\* marked collection as soon as the library holds any wallpaper.
THEOREM NonEmptyStaysMarked == Spec => []NonEmptyIsMarked
<1>1. Sound => NonEmptyIsMarked
  BY SoundEntries DEF Sound, MarkedEntry, MarkedCache, NonEmptyIsMarked
<1>. QED
  BY <1>1, AlwaysSound, PTL

-----------------------------------------------------------------------------
(***************************************************************************)
(* Agreement of m_current with m_active_name.  A step that keeps the two   *)
(* members and the entry at m_current keeps the agreement; the other steps *)
(* are change_active and reloading, which establish it, renaming, which    *)
(* moves both, and erasing, which the property exempts.                    *)
(***************************************************************************)
SameAtCurrent(l, r) ==
    /\ r.current = l.current /\ r.active = l.active
    /\ l.current + 1 \in DOMAIN r.vec
    /\ r.vec[l.current + 1].name = l.vec[l.current + 1].name

LEMMA SameAtCurrentAgrees ==
    ASSUME NEW l \in SoundLibrary, NEW r \in SoundLibrary, Agreement(l), SameAtCurrent(l, r)
    PROVE  Agreement(r)
BY SoundEntries DEF Agreement, SameAtCurrent

LEMMA UpdateKeepsAgreement ==
    ASSUME NEW l \in SoundLibrary, NEW p \in DOMAIN l.vec, NEW c \in MarkedCache, Agreement(l)
    PROVE  Agreement([l EXCEPT !.vec[p].cache = c])
<1>. DEFINE r == [l EXCEPT !.vec[p].cache = c]
<1>1. r \in SoundLibrary
  BY UpdateIsSound
<1>2. /\ r.current = l.current /\ r.active = l.active /\ DOMAIN r.vec = DOMAIN l.vec
      /\ \A i \in DOMAIN l.vec : r.vec[i].name = l.vec[i].name
  BY SoundEntries DEF SoundLibrary, MarkedEntry
<1>3. l.current + 1 \in DOMAIN l.vec
  BY SoundEntries DEF Agreement
<1>. HIDE DEF r
<1>4. SameAtCurrent(l, r)
  BY <1>2, <1>3 DEF SameAtCurrent
<1>. QED
  BY <1>1, <1>4, SameAtCurrentAgrees DEF r

LEMMA AppendKeepsAgreement ==
    ASSUME NEW l \in SoundLibrary, NEW n \in Names, NEW c \in MarkedCache,
           Agreement(l), ~ LibExists(l, n)
    PROVE  Agreement([l EXCEPT !.vec = Append(@, [name |-> n, cache |-> c])])
<1>. DEFINE e == [name |-> n, cache |-> c]
            r == [l EXCEPT !.vec = Append(@, e)]
<1>1. r \in SoundLibrary
  BY AppendIsSound
<1>2. e \in MarkedEntry
  BY DEF MarkedEntry
<1>3. r.vec = Append(l.vec, e) /\ r.current = l.current /\ r.active = l.active
  BY DEF SoundLibrary
<1>. HIDE DEF e, r
<1>4. Len(r.vec) = Len(l.vec) + 1 /\ \A i \in 1..Len(l.vec) : r.vec[i] = l.vec[i]
  BY <1>2, <1>3, SoundEntries, AppendProperties
<1>5. l.current + 1 \in 1..Len(l.vec)
  BY SoundEntries DEF Agreement
<1>6. l.current + 1 \in DOMAIN r.vec
  BY <1>1, <1>4, <1>5, SoundEntries
<1>7. r.vec[l.current + 1].name = l.vec[l.current + 1].name
  BY <1>4, <1>5
<1>8. SameAtCurrent(l, r)
  BY <1>3, <1>6, <1>7 DEF SameAtCurrent
<1>. QED
  BY <1>1, <1>8, SameAtCurrentAgrees DEF r, e

LEMMA RenameKeepsAgreement ==
    ASSUME NEW l \in SoundLibrary, NEW from \in Names, NEW to \in Names, Agreement(l)
    PROVE  Agreement(LibRename(l, from, to).lib)
<1>. DEFINE p == LibFind(l, from)
            r == LibRename(l, from, to).lib
            c == l.current + 1
<1>1. CASE from # to /\ LibExists(l, from) /\ ~ LibExists(l, to)
  <2>1. p \in DOMAIN l.vec /\ l.vec[p].name = from
    BY <1>1, LibFindFinds
  <2>2. c \in DOMAIN l.vec /\ l.vec[c].name = l.active /\ l.current \in Nat
    BY SoundEntries DEF Agreement
  <2>3. c = p <=> l.active = from
    BY <2>1, <2>2, SoundEntries DEF DistinctNames
  <2>4. r = [l EXCEPT !.vec[p].name = to, !.active = IF @ = from THEN to ELSE @]
    BY <1>1 DEF LibRename, Ok, Result
  <2>. HIDE DEF p, c, r
  <2>5. /\ r.current = l.current
        /\ r.active = IF l.active = from THEN to ELSE l.active
        /\ DOMAIN r.vec = DOMAIN l.vec
        /\ r.vec[c].name = IF c = p THEN to ELSE l.vec[c].name
    BY <2>1, <2>2, <2>4, SoundEntries DEF SoundLibrary, MarkedEntry
  <2>6. r \in SoundLibrary
    BY RenameSound DEF r
  <2>7. r.current < Len(r.vec)
    BY <2>2, <2>5, <2>6, SoundEntries DEF c
  <2>8. r.vec[r.current + 1].name = r.active
    BY <2>2, <2>3, <2>5 DEF c
  <2>. QED
    BY <2>7, <2>8 DEF Agreement, r
<1>2. CASE ~ (from # to /\ LibExists(l, from) /\ ~ LibExists(l, to))
  BY <1>2 DEF LibRename, Result
<1>. QED
  BY <1>1, <1>2

LEMMA ChangeActiveAgrees ==
    ASSUME NEW l \in SoundLibrary, NEW n \in Names, LibExists(l, n)
    PROVE  Agreement(LibChangeActive(l, n).lib)
<1>. DEFINE p == LibFind(l, n)
<1>1. p \in DOMAIN l.vec /\ l.vec[p].name = n
  BY LibFindFinds
<1>2. LibChangeActive(l, n).lib = [l EXCEPT !.active = n, !.current = p - 1]
  BY DEF LibChangeActive, Ok, Result
<1>. HIDE DEF p
<1>3. p \in 1..Len(l.vec) /\ Len(l.vec) \in Nat
  BY <1>1, SoundEntries
<1>. QED
  BY <1>1, <1>2, <1>3 DEF Agreement, SoundLibrary

\* Saving writes the name at m_current, and loading puts m_current where that
\* name is.
LEMMA ReloadAgrees ==
    ASSUME NEW l \in SoundLibrary, Agreement(l), NEW a \in LibActiveWritten(l)
    PROVE  Agreement(LibLoad(LibDocument(l, a)))
<1>. DEFINE r  == LibLoad(LibDocument(l, a))
            at == {i \in DOMAIN r.vec : r.vec[i].name = a}
<1>1. a = l.vec[l.current + 1].name /\ l.current + 1 \in DOMAIN l.vec
  BY SoundEntries DEF LibActiveWritten, Agreement
<1>2. a \in Strings
  BY ActiveWrittenType
<1>3. r \in SoundLibrary
  BY <1>2, ReloadSound
<1>4. /\ r.active = a
      /\ r.current = IF at = {} THEN 0 ELSE Min(at) - 1
      /\ DOMAIN r.vec = DOMAIN l.vec
      /\ \A i \in DOMAIN l.vec : r.vec[i].name = l.vec[i].name
  <2>. DEFINE doc == LibDocument(l, a)
  <2>1. /\ doc.active = a /\ DOMAIN doc.libraries = DOMAIN l.vec
        /\ \A i \in DOMAIN l.vec : doc.libraries[i].name = l.vec[i].name
    BY DEF LibDocument
  <2>. HIDE DEF doc
  <2>2. /\ LibLoad(doc).active = doc.active
        /\ DOMAIN LibLoad(doc).vec = DOMAIN doc.libraries
        /\ \A i \in DOMAIN doc.libraries : LibLoad(doc).vec[i].name = doc.libraries[i].name
    BY DEF LibLoad
  <2>3. LET found == {i \in DOMAIN LibLoad(doc).vec : LibLoad(doc).vec[i].name = doc.active}
        IN  LibLoad(doc).current = IF found = {} THEN 0 ELSE Min(found) - 1
    BY DEF LibLoad
  <2>. QED
    BY <2>1, <2>2, <2>3 DEF doc
<1>. HIDE DEF r
<1>5. l.current + 1 \in at /\ at \in SUBSET DOMAIN r.vec
  BY <1>1, <1>4
<1>6. Min(at) \in at
  BY <1>3, <1>5, SoundEntries, SearchFinds
<1>7. r.current + 1 = Min(at) /\ r.current < Len(r.vec)
  BY <1>3, <1>4, <1>5, <1>6, SoundEntries
<1>. QED
  BY <1>4, <1>6, <1>7 DEF Agreement, r

\* Removing either changes nothing or takes one entry out, and never touches the
\* other two members; the same holds of merging, which appends one of two.
LEMMA RemoveShrinks ==
    ASSUME NEW l \in SoundLibrary, NEW n
    PROVE  LET r == LibRemove(l, n).lib
           IN  /\ r.current = l.current /\ r.active = l.active
               /\ LibExists(l, n) => Len(r.vec) = Len(l.vec) - 1
               /\ ~ LibExists(l, n) => r = l
<1>1. CASE LibExists(l, n)
  <2>. DEFINE p == LibFind(l, n)
  <2>1. p \in DOMAIN l.vec
    BY <1>1, LibFindFinds
  <2>2. Len(RemoveAt(l.vec, p)) = Len(l.vec) - 1
    BY <2>1, SoundEntries, RemoveAtProperties
  <2>3. LibRemove(l, n).lib = [l EXCEPT !.vec = RemoveAt(@, p)]
    BY <1>1 DEF LibRemove, Ok, Result
  <2>. HIDE DEF p
  <2>. QED
    BY <1>1, <2>2, <2>3 DEF SoundLibrary
<1>2. CASE ~ LibExists(l, n)
  BY <1>2 DEF LibRemove, Result
<1>. QED
  BY <1>1, <1>2

LEMMA MergeShrinks ==
    ASSUME NEW l \in SoundLibrary, NEW n \in Names, NEW m \in Names
    PROVE  LET r == LibMerge(l, n, m).lib
           IN  \/ r = l
               \/ /\ r.current = l.current /\ r.active = l.active
                  /\ Len(r.vec) = Len(l.vec) - 1
<1>1. CASE n # m /\ LibExists(l, n) /\ LibExists(l, m)
  <2>. DEFINE merged == CacheMerge(l.vec[LibFind(l, n)].cache, l.vec[LibFind(l, m)].cache)
              e      == [name |-> n, cache |-> merged]
              one    == LibRemove(l, n).lib
              rest   == LibRemove(one, m).lib
              r      == [rest EXCEPT !.vec = Append(@, e)]
  <2>1. merged \in MarkedCache
    BY <1>1, LibFindFinds, SoundEntries, CacheMergeMarked DEF MarkedEntry
  <2>2. LibMerge(l, n, m).lib = r
    BY <1>1 DEF LibMerge, Ok, Result
  <2>. HIDE DEF merged
  <2>3. e \in MarkedEntry
    BY <2>1 DEF MarkedEntry
  <2>4. /\ one \in SoundLibrary /\ LibExists(one, m)
        /\ one.current = l.current /\ one.active = l.active /\ Len(one.vec) = Len(l.vec) - 1
    BY <1>1, RemoveSound, RemoveShrinks
  <2>. HIDE DEF one, e
  <2>5. /\ rest \in SoundLibrary
        /\ rest.current = l.current /\ rest.active = l.active /\ Len(rest.vec) = Len(l.vec) - 2
    BY <2>4, RemoveSound, RemoveShrinks, SoundEntries
  <2>. HIDE DEF rest
  <2>6. Len(Append(rest.vec, e)) = Len(rest.vec) + 1
    BY <2>3, <2>5, SoundEntries, AppendProperties
  <2>7. r.vec = Append(rest.vec, e) /\ r.current = rest.current /\ r.active = rest.active
    BY <2>5 DEF SoundLibrary
  <2>. QED
    BY <2>2, <2>5, <2>6, <2>7, SoundEntries
<1>2. CASE ~ (n # m /\ LibExists(l, n) /\ LibExists(l, m))
  BY <1>2 DEF LibMerge, Result
<1>. QED
  BY <1>1, <1>2

LEMMA MoveKeepsAgreement ==
    ASSUME NEW l \in SoundLibrary, NEW src \in Names, NEW dst \in Names, NEW w \in Walls,
           Agreement(l)
    PROVE  Agreement(LibMove(l, src, dst, w).lib)
<1>1. ASSUME NEW d \in DOMAIN l.vec, NEW s \in DOMAIN l.vec,
             NEW to \in MarkedCache, NEW rest \in MarkedCache
      PROVE  Agreement(UpdateTwice(l, d, to, s, rest))
  <2>. DEFINE mid == [l EXCEPT !.vec[d].cache = to]
  <2>1. mid \in SoundLibrary /\ Agreement(mid)
    BY UpdateIsSound, UpdateKeepsAgreement
  <2>2. DOMAIN mid.vec = DOMAIN l.vec
    BY SoundEntries DEF SoundLibrary
  <2>. HIDE DEF mid
  <2>3. Agreement([mid EXCEPT !.vec[s].cache = rest])
    BY <2>1, <2>2, UpdateKeepsAgreement
  <2>. QED
    BY <2>3 DEF mid, UpdateTwice
<1>. QED
  BY <1>1, MoveUpdatesTwice

AgreementStep == Agreement(lib) /\ ~ ErasedUpToCurrent => Agreement(lib')

LEMMA ShrinkingAgrees ==
    ASSUME lib \in SoundLibrary, lib' \in SoundLibrary, Agreement(lib), ~ ErasedUpToCurrent,
           lib'.current = lib.current, lib'.active = lib.active,
           Len(lib'.vec) = Len(lib.vec) - 1
    PROVE  Agreement(lib')
<1>1. Len(lib'.vec) < Len(lib.vec)
  BY SoundEntries
<1>2. lib.current + 1 \in 1..(lib.current + 1)
  BY SoundEntries
<1>3. SameAtCurrent(lib, lib')
  BY <1>1, <1>2 DEF ErasedUpToCurrent, SameAtCurrent
<1>. QED
  BY <1>3, SameAtCurrentAgrees

LEMMA NextAgrees == lib \in SoundLibrary /\ [Next]_vars => AgreementStep
<1> SUFFICES ASSUME lib \in SoundLibrary, [Next]_vars, Agreement(lib), ~ ErasedUpToCurrent
             PROVE  Agreement(lib')
  BY DEF AgreementStep
<1>. lib' \in SoundLibrary
  BY NextSound
<1>1. CASE SaveAndReload
  BY <1>1, ReloadAgrees DEF SaveAndReload
<1>2. ASSUME NEW k \in 1..MaxItems, WriteCurrent(k)
      PROVE  Agreement(lib')
  <2>. DEFINE p == lib.current + 1
              c == CacheSetState(lib.vec[p].cache, k, "favorate")
  <2>1. p \in DOMAIN lib.vec /\ k \in DOMAIN lib.vec[p].cache.items
    BY <1>2 DEF WriteCurrent
  <2>2. c \in MarkedCache
    BY <2>1, SoundEntries, CacheSetStateMarked DEF States, MarkedEntry
  <2>3. lib' = [lib EXCEPT !.vec[p].cache = c]
    BY <1>2 DEF WriteCurrent
  <2>. HIDE DEF p, c
  <2>. QED
    BY <2>1, <2>2, <2>3, UpdateKeepsAgreement
<1>3. ASSUME NEW n \in Names, NEW listing \in Listings(MaxListing), NEW loc \in Locs,
             Insert(n, listing, loc)
      PROVE  Agreement(lib')
  <2>1. CacheOf(listing, loc) \in MarkedCache
    BY BoundsAssumption, CacheOfMarked
  <2>. QED
    BY <1>3, <2>1, AppendKeepsAgreement DEF Insert, LibInsert, Ok, Result
<1>4. ASSUME NEW n \in Names, NEW w \in Walls, NEW loc \in Locs, AddItem(n, w, loc)
      PROVE  Agreement(lib')
  <2>. DEFINE p == LibFind(lib, n)
              c == CacheInsert(lib.vec[p].cache, w, loc)
  <2>1. p \in DOMAIN lib.vec /\ lib.vec[p].cache \in MarkedCache
    BY <1>4, LibFindFinds, SoundEntries DEF AddItem, MarkedEntry
  <2>2. c \in MarkedCache
    BY <2>1, CacheInsertMarked
  <2>3. lib' = [lib EXCEPT !.vec[p].cache = c]
    BY <1>4 DEF AddItem
  <2>. HIDE DEF p, c
  <2>. QED
    BY <2>1, <2>2, <2>3, UpdateKeepsAgreement
<1>5. ASSUME NEW n \in Names, GetCache(n)
      PROVE  Agreement(lib')
  <2>. DEFINE p == LibFind(lib, n)
              c == CacheTouch(lib.vec[p].cache)
  <2>1. CASE LibExists(lib, n)
    <3>1. p \in DOMAIN lib.vec /\ lib.vec[p].cache \in MarkedCache
      BY <2>1, LibFindFinds, SoundEntries DEF MarkedEntry
    <3>2. c \in MarkedCache
      BY <3>1, CacheTouchMarked
    <3>3. lib' = [lib EXCEPT !.vec[p].cache = c]
      BY <1>5, <2>1 DEF GetCache, Does, LibGetCache, Ok, Result
    <3>. HIDE DEF p, c
    <3>. QED
      BY <3>1, <3>2, <3>3, UpdateKeepsAgreement
  <2>2. CASE ~ LibExists(lib, n)
    BY <1>5, <2>2 DEF GetCache, Does, LibGetCache, Result
  <2>. QED
    BY <2>1, <2>2
<1>6. ASSUME NEW n \in Names, ChangeActive(n)
      PROVE  Agreement(lib')
  <2>1. CASE LibExists(lib, n)
    BY <1>6, <2>1, ChangeActiveAgrees DEF ChangeActive, Does
  <2>2. CASE ~ LibExists(lib, n)
    BY <1>6, <2>2 DEF ChangeActive, Does, LibChangeActive, Result
  <2>. QED
    BY <2>1, <2>2
<1>7. ASSUME NEW n \in Names, RemoveStore(n)
      PROVE  Agreement(lib')
  <2>1. CASE LibExists(lib, n)
    BY <1>7, <2>1, RemoveShrinks, ShrinkingAgrees DEF RemoveStore, Does
  <2>2. CASE ~ LibExists(lib, n)
    BY <1>7, <2>2, RemoveShrinks DEF RemoveStore, Does
  <2>. QED
    BY <2>1, <2>2
<1>8. ASSUME NEW n \in Names, NEW w \in Walls, RemoveCacheItem(n, w)
      PROVE  Agreement(lib')
  <2>1. CASE lib' = lib
    BY <2>1
  <2>2. CASE lib' # lib
    <3>. DEFINE p == LibFind(lib, n)
                c == lib.vec[p].cache
                k == CacheFind(c, w)
    <3>1. n # w /\ LibExists(lib, n)
      BY <1>8, <2>2 DEF RemoveCacheItem, Does, LibRemoveItem, Result
    <3>2. p \in DOMAIN lib.vec /\ c \in MarkedCache
      BY <3>1, LibFindFinds, SoundEntries DEF MarkedEntry
    <3>3. lib' = IF CacheContains(c, w)
                   THEN [lib EXCEPT !.vec[p].cache = CacheErase(c, k)]
                   ELSE [lib EXCEPT !.vec[p].cache = CacheTouch(c)]
      BY <1>8, <3>1 DEF RemoveCacheItem, Does, LibRemoveItem, Ok, Result
    <3>4. CacheTouch(c) \in MarkedCache
      BY <3>2, CacheTouchMarked
    <3>5. CacheContains(c, w) => k \in DOMAIN c.items
      BY <3>2, CacheFindFinds DEF MarkedCache
    <3>6. CacheContains(c, w) => CacheErase(c, k) \in MarkedCache
      BY <3>2, <3>5, CacheEraseMarked
    <3>. HIDE DEF p, c, k
    <3>. QED
      BY <3>2, <3>3, <3>4, <3>6, UpdateKeepsAgreement
  <2>. QED
    BY <2>1, <2>2
<1>9. ASSUME NEW n \in Names, NEW m \in Names, NEW w \in Walls, MoveCacheItem(n, m, w)
      PROVE  Agreement(lib')
  BY <1>9, MoveKeepsAgreement DEF MoveCacheItem, Does
<1>10. ASSUME NEW n \in Names, NEW m \in Names, RenameStore(n, m)
       PROVE  Agreement(lib')
  BY <1>10, RenameKeepsAgreement DEF RenameStore, Does
<1>11. ASSUME NEW n \in Names, NEW m \in Names, MergeCache(n, m)
       PROVE  Agreement(lib')
  <2>1. CASE lib' = lib
    BY <2>1
  <2>2. CASE lib' # lib
    BY <1>11, <2>2, MergeShrinks, ShrinkingAgrees DEF MergeCache, Does
  <2>. QED
    BY <2>1, <2>2
<1>12. CASE UNCHANGED vars
  BY <1>12 DEF vars
<1>. QED
  BY <1>1, <1>2, <1>3, <1>4, <1>5, <1>6, <1>7, <1>8, <1>9, <1>10, <1>11, <1>12 DEF Next

\* Only erasing a collection at or before m_current parts get_current() from
\* active_cache_name().
THEOREM AgreementStaysKept == Spec => AgreementKept
<1>1. Sound /\ [Next]_vars => AgreementStep
  BY NextAgrees DEF Sound
<1>2. Spec => [][AgreementStep]_lib
  BY <1>1, AlwaysSound, PTL DEF Spec
<1>. QED
  BY <1>2 DEF AgreementKept, AgreementStep
-----------------------------------------------------------------------------
(***************************************************************************)
(* cache_lib implements the abstract Shelf, for any sets of names,         *)
(* wallpapers and directories: each operation is the request of its name.  *)
(* Held is the function that the refinement mapping of CacheLib gives for  *)
(* `held'.                                                                 *)
(***************************************************************************)
ShelfStep == ShelfView!ShelfNext \/ UNCHANGED ShelfView!shelf

LEMMA ShelfLooks ==
    ASSUME NEW n \in Names, asked' = <<"Look", n>>, Stays(lib, lib')
    PROVE  ShelfStep
<1>1. ShelfView!Look(n)
  BY DEF Stays, ShelfView!Look, ShelfView!Stays, Held
<1>. QED
  BY <1>1 DEF ShelfStep, ShelfView!ShelfNext

LEMMA ShelfMarks ==
    ASSUME asked' = <<"Mark">>, Stays(lib, lib')
    PROVE  ShelfStep
<1>1. ShelfView!Mark
  BY DEF Stays, ShelfView!Mark, ShelfView!Stays, Held
<1>. QED
  BY <1>1 DEF ShelfStep, ShelfView!ShelfNext

LEMMA ShelfReopens ==
    ASSUME asked' = <<"Reopen">>, Reopens(lib, lib')
    PROVE  ShelfStep
<1>1. ShelfView!Reopen
  BY DEF Reopens, ShelfView!Reopen, Strings, Held
<1>. QED
  BY <1>1 DEF ShelfStep, ShelfView!ShelfNext

LEMMA ShelfActivates ==
    ASSUME NEW n \in Names, asked' = <<"Activate", n>>,
           IF n \in LibNames(lib) THEN Activates(lib, lib', n) ELSE Stays(lib, lib')
    PROVE  ShelfStep
<1>1. ShelfView!Activate(n)
  BY DEF Activates, Stays, ShelfView!Activate, ShelfView!Collections, Held
<1>. QED
  BY <1>1 DEF ShelfStep, ShelfView!ShelfNext

LEMMA ShelfCreates ==
    ASSUME NEW n \in Names, NEW ws \in SUBSET AllWalls, asked' = <<"Create", n, ws>>,
           IF n \in LibNames(lib) THEN Stays(lib, lib') ELSE Creates(lib, lib', n, ws)
    PROVE  ShelfStep
<1>1. ShelfView!Create(n, ws)
  BY DEF Creates, Stays, ShelfView!Create, ShelfView!Stays, ShelfView!With,
         ShelfView!Collections, Held
<1>. QED
  BY <1>1 DEF ShelfStep, ShelfView!ShelfNext, AllWalls

LEMMA ShelfPuts ==
    ASSUME NEW n \in Names, NEW w \in Walls, asked' = <<"Put", n, w>>, Puts(lib, lib', n, w)
    PROVE  ShelfStep
<1>1. n \in LibNames(lib) /\ LibNames(lib) \cup {n} = LibNames(lib)
  BY DEF Puts
<1>2. Held(lib') = [m \in LibNames(lib) |-> IF m = n THEN Held(lib)[n] \cup {w} ELSE Held(lib)[m]]
  BY DEF Puts, Held
<1>3. ShelfView!Put(n, w)
  BY <1>1, <1>2 DEF Puts, ShelfView!Put, ShelfView!With, ShelfView!Collections, Held
<1>. QED
  BY <1>3 DEF ShelfStep, ShelfView!ShelfNext

LEMMA ShelfDiscards ==
    ASSUME NEW n \in Names, NEW w \in Walls, asked' = <<"Discard", n, w>>,
           IF n # w /\ n \in LibNames(lib) /\ w \in Held(lib)[n]
             THEN Discards(lib, lib', n, w) ELSE Stays(lib, lib')
    PROVE  ShelfStep
<1>1. CASE n # w /\ n \in LibNames(lib) /\ w \in Held(lib)[n]
  <2>1. PICK rest \in {Held(lib)[n], Held(lib)[n] \ {w}} :
           Held(lib') = [Held(lib) EXCEPT ![n] = rest]
    BY <1>1 DEF Discards
  <2>2. LibNames(lib) \cup {n} = LibNames(lib)
    BY <1>1
  <2>3. Held(lib') = [m \in LibNames(lib) |-> IF m = n THEN rest ELSE Held(lib)[m]]
    BY <2>1 DEF Held
  <2>4. ShelfView!Discard(n, w)
    BY <1>1, <2>2, <2>3 DEF Discards, ShelfView!Discard, ShelfView!Fewer, ShelfView!With,
                           ShelfView!Collections, Held
  <2>. QED
    BY <2>4 DEF ShelfStep, ShelfView!ShelfNext
<1>2. CASE ~ (n # w /\ n \in LibNames(lib) /\ w \in Held(lib)[n])
  <2>1. ShelfView!Discard(n, w)
    BY <1>2 DEF Stays, ShelfView!Discard, ShelfView!Stays, ShelfView!Collections, Held
  <2>. QED
    BY <2>1 DEF ShelfStep, ShelfView!ShelfNext
<1>. QED
  BY <1>1, <1>2

LEMMA ShelfDrops ==
    ASSUME NEW n \in Names, asked' = <<"Drop", n>>,
           IF n \in LibNames(lib) THEN Drops(lib, lib', n) ELSE Stays(lib, lib')
    PROVE  ShelfStep
<1>1. ShelfView!Drop(n)
  BY DEF Drops, Stays, ShelfView!Drop, ShelfView!Stays, ShelfView!Collections, Held
<1>. QED
  BY <1>1 DEF ShelfStep, ShelfView!ShelfNext

LEMMA ShelfRenames ==
    ASSUME NEW from \in Names, NEW to \in Names, asked' = <<"Rename", from, to>>,
           IF from \in LibNames(lib) /\ to \notin LibNames(lib)
             THEN Renames(lib, lib', from, to) ELSE Stays(lib, lib')
    PROVE  ShelfStep
<1>1. ShelfView!Rename(from, to)
  BY DEF Renames, Stays, ShelfView!Rename, ShelfView!Stays, ShelfView!Collections, Held
<1>. QED
  BY <1>1 DEF ShelfStep, ShelfView!ShelfNext

LEMMA ShelfMerges ==
    ASSUME NEW n \in Names, NEW m \in Names, asked' = <<"Merge", n, m>>,
           IF n # m /\ {n, m} \subseteq LibNames(lib)
             THEN Merges(lib, lib', n, m) ELSE Stays(lib, lib')
    PROVE  ShelfStep
<1>1. ShelfView!Merge(n, m)
  BY DEF Merges, Stays, ShelfView!Merge, ShelfView!Stays, ShelfView!Collections, Held
<1>. QED
  BY <1>1 DEF ShelfStep, ShelfView!ShelfNext

LEMMA ShelfMoves ==
    ASSUME NEW from \in Names, NEW to \in Names, NEW w \in Walls,
           asked' = <<"Move", from, to, w>>,
           IF /\ from # to /\ to # w /\ {from, to} \subseteq LibNames(lib)
              /\ w \in Held(lib)[from]
             THEN Moves(lib, lib', from, to, w) ELSE Stays(lib, lib')
    PROVE  ShelfStep
<1>1. ShelfView!Move(from, to, w)
  BY DEF Moves, Stays, ShelfView!Move, ShelfView!Stays, ShelfView!Fewer,
         ShelfView!Collections, Held
<1>. QED
  BY <1>1 DEF ShelfStep, ShelfView!ShelfNext

LEMMA InitIsShelfInit == Init => ShelfView!ShelfInit
<1> SUFFICES ASSUME Init PROVE ShelfView!ShelfInit
  OBVIOUS
<1>1. lib.vec = <<>> /\ lib.active = NoString /\ asked = <<"Reopen">>
  BY DEF Init, EmptyLibrary
<1>2. LibNames(lib) = {}
  BY <1>1 DEF LibNames
<1>. QED
  BY <1>1, <1>2 DEF ShelfView!ShelfInit

\* The wallpapers that a directory listing gives a new collection.
LEMMA ListedValues ==
    ASSUME NEW listing \in Listings(MaxListing), NEW loc \in Locs
    PROVE  Values(CacheOf(listing, loc).items) = ToSet(listing)
<1>1. /\ DOMAIN CacheOf(listing, loc).items = DOMAIN listing
      /\ \A i \in DOMAIN listing : CacheOf(listing, loc).items[i].value = listing[i]
  BY DEF CacheOf
<1>2. Values(CacheOf(listing, loc).items) = {listing[i] : i \in DOMAIN listing}
  BY <1>1, ValuesAre
<1>. QED
  BY <1>2 DEF ToSet

LEMMA NextIsShelfStep == Sound /\ [Next]_vars => ShelfStep
<1> SUFFICES ASSUME lib \in SoundLibrary, [Next]_vars PROVE ShelfStep
  BY DEF Sound
<1>1. CASE UNCHANGED vars
  BY <1>1 DEF vars, ShelfStep, ShelfView!shelf
<1>2. CASE SaveAndReload
  BY <1>2, ReloadHeld, ShelfReopens DEF SaveAndReload
<1>3. ASSUME NEW k \in 1..MaxItems, WriteCurrent(k) PROVE ShelfStep
  BY <1>3, SetStateHeld, ShelfMarks DEF WriteCurrent, States
<1>4. ASSUME NEW n \in Names, NEW listing \in Listings(MaxListing), NEW loc \in Locs,
             Insert(n, listing, loc)
      PROVE  ShelfStep
  <2>. DEFINE c == CacheOf(listing, loc)
              ws == Values(c.items)
  <2>1. c \in MarkedCache
    BY BoundsAssumption, CacheOfMarked
  <2>2. lib' = LibInsert(lib, n, c).lib /\ asked' = <<"Create", n, ws>>
    BY <1>4, ListedValues DEF Insert
  <2>3. ws \in SUBSET AllWalls
    BY <2>1, ValuesType DEF MarkedCache, Cache
  <2>. HIDE DEF c
  <2>4. IF n \in LibNames(lib) THEN Stays(lib, lib') ELSE Creates(lib, lib', n, ws)
    BY <2>1, <2>2, InsertHeld
  <2>. QED
    BY <2>2, <2>3, <2>4, ShelfCreates
<1>5. ASSUME NEW n \in Names, NEW w \in Walls, NEW loc \in Locs, AddItem(n, w, loc)
      PROVE  ShelfStep
  BY <1>5, AddHeld, ShelfPuts DEF AddItem
<1>6. ASSUME NEW n \in Names, GetCache(n) PROVE ShelfStep
  BY <1>6, GetCacheHeld, ShelfLooks DEF GetCache, Does
<1>7. ASSUME NEW n \in Names, ChangeActive(n) PROVE ShelfStep
  BY <1>7, ChangeActiveHeld, ShelfActivates DEF ChangeActive, Does
<1>8. ASSUME NEW n \in Names, RemoveStore(n) PROVE ShelfStep
  BY <1>8, RemoveHeld, ShelfDrops DEF RemoveStore, Does
<1>9. ASSUME NEW n \in Names, NEW w \in Walls, RemoveCacheItem(n, w) PROVE ShelfStep
  BY <1>9, RemoveItemHeld, ShelfDiscards DEF RemoveCacheItem, Does
<1>10. ASSUME NEW n \in Names, NEW m \in Names, NEW w \in Walls, MoveCacheItem(n, m, w)
       PROVE  ShelfStep
  BY <1>10, MoveHeld, ShelfMoves DEF MoveCacheItem, Does
<1>11. ASSUME NEW n \in Names, NEW m \in Names, RenameStore(n, m) PROVE ShelfStep
  BY <1>11, RenameHeld, ShelfRenames DEF RenameStore, Does
<1>12. ASSUME NEW n \in Names, NEW m \in Names, MergeCache(n, m) PROVE ShelfStep
  BY <1>12, MergeHeld, ShelfMerges DEF MergeCache, Does
<1>. QED
  BY <1>1, <1>2, <1>3, <1>4, <1>5, <1>6, <1>7, <1>8, <1>9, <1>10, <1>11, <1>12 DEF Next

\* However long the sequence of operations, each does to the wallpapers and to the
\* active name what the request of its name does on the shelf, and it is refused
\* only when the collections or the wallpaper it names are not there.
THEOREM LibraryIsShelf == Spec => ImplementsShelf
<1>1. Init => ShelfView!ShelfInit
  BY InitIsShelfInit
<1>2. Sound /\ [Next]_vars => [ShelfView!ShelfNext]_(ShelfView!shelf)
  BY NextIsShelfStep DEF ShelfStep
<1>3. Spec => ShelfView!ShelfInit /\ [][ShelfView!ShelfNext]_(ShelfView!shelf)
  BY <1>1, <1>2, AlwaysSound, PTL DEF Spec
<1>. QED
  BY <1>3 DEF ImplementsShelf, ShelfView!ShelfSpec
-----------------------------------------------------------------------------
(***************************************************************************)
(* The loop of std::ranges::merge and its closed form.                     *)
(***************************************************************************)
\* The defaulted <=> of cache_item is a total order.
LEMMA ItemOrder ==
    ASSUME NEW x \in Item, NEW y \in Item, NEW z \in Item
    PROVE  /\ ~ ItemLess(x, x)
           /\ ItemLess(x, y) \/ x = y \/ ItemLess(y, x)
           /\ ItemLess(x, y) /\ ItemLess(y, z) => ItemLess(x, z)
<1>1. \A e \in Item : e.value \in Nat /\ e.loc \in Nat /\ e.state \in States
  BY WallsAssumption, LocsAssumption DEF Item, NoString
<1>2. /\ \A s \in States : StateOrder[s] \in Nat
      /\ \A s, t \in States : StateOrder[s] = StateOrder[t] => s = t
  BY DEF States, StateOrder
<1>. DEFINE sx == StateOrder[x.state]
            sy == StateOrder[y.state]
            sz == StateOrder[z.state]
<1>3. /\ sx \in Nat /\ sy \in Nat /\ sz \in Nat
      /\ x.state = y.state <=> sx = sy
      /\ y.state = z.state <=> sy = sz
      /\ x.state = z.state <=> sx = sz
  BY <1>1, <1>2
<1>. HIDE DEF sx, sy, sz
<1>4. ~ ItemLess(x, x)
  BY <1>1, <1>3 DEF ItemLess, sx
<1>5. ItemLess(x, y) \/ x = y \/ ItemLess(y, x)
  <2>1. ItemLess(x, y) \/ ItemLess(y, x)
        \/ (x.value = y.value /\ x.state = y.state /\ x.loc = y.loc)
    BY <1>1, <1>3 DEF ItemLess, sx, sy
  <2>2. x.value = y.value /\ x.state = y.state /\ x.loc = y.loc => x = y
    BY DEF Item
  <2>. QED
    BY <2>1, <2>2
<1>6. ASSUME ItemLess(x, y), ItemLess(y, z) PROVE ItemLess(x, z)
  BY <1>1, <1>3, <1>6 DEF ItemLess, sx, sy, sz
<1>. QED
  BY <1>4, <1>5, <1>6

\* The positions keep the order of each list, and tell which of two items of
\* different lists is written first.
LEMMA PositionsOrdered ==
    ASSUME NEW a \in Seq(Item), NEW b \in Seq(Item)
    PROVE  /\ \A i \in DOMAIN a : PositionOfLeft(a, b, i) \in Nat
           /\ \A j \in DOMAIN b : PositionOfRight(a, b, j) \in Nat
           /\ \A i, k \in DOMAIN a : i < k => PositionOfLeft(a, b, i) < PositionOfLeft(a, b, k)
           /\ \A j, k \in DOMAIN b : j < k => PositionOfRight(a, b, j) < PositionOfRight(a, b, k)
           /\ \A i \in DOMAIN a, j \in DOMAIN b :
                 IF WrittenBefore(a, b, j, i)
                   THEN PositionOfRight(a, b, j) < PositionOfLeft(a, b, i)
                   ELSE PositionOfLeft(a, b, i) < PositionOfRight(a, b, j)
<1>. DEFINE n == Len(a)
            m == Len(b)
<1>1. n \in Nat /\ m \in Nat /\ DOMAIN a = 1..n /\ DOMAIN b = 1..m
  BY LenProperties
<1>2. PICK f, g : /\ Interleaving(n, m, f, g)
                  /\ \A i \in 1..n : PositionOfLeft(a, b, i) = i + f[i]
                  /\ \A j \in 1..m : PositionOfRight(a, b, j) = j + g[j]
                  /\ \A i \in 1..n, j \in 1..m : WrittenBefore(a, b, j, i) <=> j <= f[i]
  BY <1>1, MergeInterleaves
<1>. HIDE DEF n, m
<1>3. (\A i \in 1..n : f[i] \in Nat) /\ (\A j \in 1..m : g[j] \in Nat)
  BY <1>1, <1>2 DEF Interleaving
<1>4. ASSUME NEW i \in 1..n, NEW k \in 1..n, i < k
      PROVE  i + f[i] < k + f[k]
  <2>1. f[i] <= f[k]
    BY <1>1, <1>2, <1>4, LeftIncreases
  <2>. QED
    BY <1>3, <1>4, <2>1
<1>5. ASSUME NEW j \in 1..m, NEW k \in 1..m, j < k
      PROVE  j + g[j] < k + g[k]
  <2>1. g[j] <= g[k]
    BY <1>1, <1>2, <1>5, RightIncreases
  <2>. QED
    BY <1>3, <1>5, <2>1
<1>6. ASSUME NEW i \in 1..n, NEW j \in 1..m
      PROVE  IF WrittenBefore(a, b, j, i) THEN j + g[j] < i + f[i] ELSE i + f[i] < j + g[j]
  <2>1. (i <= g[j] <=> j > f[i]) /\ (WrittenBefore(a, b, j, i) <=> j <= f[i])
    BY <1>2 DEF Interleaving
  <2>2. f[i] \in Nat /\ g[j] \in Nat
    BY <1>3
  <2>3. CASE j <= f[i]
    BY <2>1, <2>2, <2>3
  <2>4. CASE ~ (j <= f[i])
    BY <2>1, <2>2, <2>4
  <2>. QED
    BY <2>3, <2>4
<1>7. /\ \A i \in DOMAIN a : PositionOfLeft(a, b, i) \in Nat
      /\ \A j \in DOMAIN b : PositionOfRight(a, b, j) \in Nat
  BY <1>1, <1>2, <1>3, SMTT(30)
<1>8. \A i, k \in DOMAIN a : i < k => PositionOfLeft(a, b, i) < PositionOfLeft(a, b, k)
  BY <1>1, <1>2, <1>4
<1>9. \A j, k \in DOMAIN b : j < k => PositionOfRight(a, b, j) < PositionOfRight(a, b, k)
  BY <1>1, <1>2, <1>5
<1>10. \A i \in DOMAIN a, j \in DOMAIN b :
          IF WrittenBefore(a, b, j, i)
            THEN PositionOfRight(a, b, j) < PositionOfLeft(a, b, i)
            ELSE PositionOfLeft(a, b, i) < PositionOfRight(a, b, j)
  BY <1>1, <1>2, <1>6
<1>. QED
  BY <1>7, <1>8, <1>9, <1>10

\* Where an item goes, from the items of the other list that come before it.
LEMMA LeftPosition ==
    ASSUME NEW a \in Seq(Item), NEW b \in Seq(Item),
           NEW i \in DOMAIN a, NEW j \in 1..(Len(b) + 1),
           \A k \in 1..(j - 1) : WrittenBefore(a, b, k, i),
           j <= Len(b) => ~ WrittenBefore(a, b, j, i)
    PROVE  PositionOfLeft(a, b, i) = i + j - 1
<1>. DEFINE n == Len(a)
            m == Len(b)
<1>1. n \in Nat /\ m \in Nat /\ DOMAIN a = 1..n /\ DOMAIN b = 1..m
  BY LenProperties
<1>2. PICK f, g : /\ Interleaving(n, m, f, g)
                  /\ PositionOfLeft(a, b, i) = i + f[i]
                  /\ \A k \in 1..m : WrittenBefore(a, b, k, i) <=> k <= f[i]
  BY <1>1, MergeInterleaves
<1>3. f[i] \in 0..m
  BY <1>1, <1>2 DEF Interleaving
<1>4. j > 1 => j - 1 <= f[i]
  BY <1>1, <1>2
<1>5. j <= m => ~ (j <= f[i])
  BY <1>1, <1>2
<1>. HIDE DEF n, m
<1>6. f[i] = j - 1
  BY <1>1, <1>3, <1>4, <1>5 DEF m
<1>. QED
  BY <1>1, <1>2, <1>6

LEMMA RightPosition ==
    ASSUME NEW a \in Seq(Item), NEW b \in Seq(Item),
           NEW j \in DOMAIN b, NEW i \in 1..(Len(a) + 1),
           \A k \in 1..(i - 1) : ~ WrittenBefore(a, b, j, k),
           i <= Len(a) => WrittenBefore(a, b, j, i)
    PROVE  PositionOfRight(a, b, j) = i + j - 1
<1>. DEFINE n == Len(a)
            m == Len(b)
<1>1. n \in Nat /\ m \in Nat /\ DOMAIN a = 1..n /\ DOMAIN b = 1..m
  BY LenProperties
<1>2. PICK f, g : /\ Interleaving(n, m, f, g)
                  /\ PositionOfRight(a, b, j) = j + g[j]
                  /\ \A k \in 1..n : WrittenBefore(a, b, j, k) <=> j <= f[k]
  BY <1>1, MergeInterleaves
<1>3. g[j] \in 0..n /\ \A k \in 1..n : f[k] \in Nat /\ (k <= g[j] <=> j > f[k])
  BY <1>1, <1>2, SMTT(30) DEF Interleaving
<1>4. \A k \in 1..n : k <= g[j] <=> ~ WrittenBefore(a, b, j, k)
  BY <1>1, <1>2, <1>3
<1>5. i > 1 => i - 1 <= g[j]
  BY <1>1, <1>4
<1>6. i <= n => ~ (i <= g[j])
  BY <1>1, <1>4
<1>. HIDE DEF n, m
<1>7. g[j] = i - 1
  BY <1>1, <1>3, <1>5, <1>6 DEF n
<1>. QED
  BY <1>1, <1>2, <1>7

LEMMA WrittenBeforeGrows ==
    ASSUME NEW a, NEW b, NEW i \in Nat, NEW j \in Nat, WrittenBefore(a, b, j, i)
    PROVE  /\ \A x \in Nat : x <= j => WrittenBefore(a, b, x, i)
           /\ \A x \in Nat : i <= x => WrittenBefore(a, b, j, x)
BY DEF WrittenBefore

-----------------------------------------------------------------------------
(***************************************************************************)
(* With the cursors of the loop at i and j, everything before j comes      *)
(* before item i of the left, and nothing before i comes after item j of   *)
(* the right; so what the loop writes next is what the closed form has at  *)
(* that place.                                                             *)
(***************************************************************************)
Cursors(a, b, i, j) ==
    /\ i <= Len(a) => \A k \in 1..(j - 1) : WrittenBefore(a, b, k, i)
    /\ j <= Len(b) => \A k \in 1..(i - 1) : ~ WrittenBefore(a, b, j, k)

LEMMA LeftMoves ==
    ASSUME NEW a \in Seq(Item), NEW b \in Seq(Item),
           NEW i \in DOMAIN a, NEW j \in 1..(Len(b) + 1), Cursors(a, b, i, j),
           j <= Len(b) => ~ ItemLess(b[j], a[i])
    PROVE  /\ Merged(a, b)[i + j - 1] = a[i]
           /\ Cursors(a, b, i + 1, j)
<1>1. /\ Len(a) \in Nat /\ Len(b) \in Nat /\ DOMAIN a = 1..Len(a) /\ DOMAIN b = 1..Len(b)
      /\ i \in Nat /\ i <= Len(a) /\ j \in Nat
  BY LenProperties
<1>2. \A k \in 1..(j - 1) : WrittenBefore(a, b, k, i)
  BY <1>1 DEF Cursors
<1>3. j <= Len(b) => ~ WrittenBefore(a, b, j, i)
  <2>. SUFFICES ASSUME j <= Len(b), NEW k \in 1..i, \A l \in 1..j : ItemLess(b[l], a[k])
                PROVE  FALSE
    BY DEF WrittenBefore
  <2>1. CASE k = i
    BY <1>1, <2>1
  <2>2. CASE k # i
    <3>1. k \in 1..(i - 1) /\ k \in 1..k
      BY <1>1, <2>2
    <3>2. WrittenBefore(a, b, j, k)
      BY <3>1 DEF WrittenBefore
    <3>. QED
      BY <3>1, <3>2 DEF Cursors
  <2>. QED
    BY <2>1, <2>2
<1>4. PositionOfLeft(a, b, i) = i + j - 1
  BY <1>2, <1>3, LeftPosition
<1>5. Merged(a, b)[i + j - 1] = a[i]
  BY <1>4, MergedAt
<1>6. \A k \in 1..(j - 1) : WrittenBefore(a, b, k, i + 1)
  BY <1>1, <1>2, WrittenBeforeGrows
<1>7. j <= Len(b) => \A k \in 1..(i + 1 - 1) : ~ WrittenBefore(a, b, j, k)
  <2>. SUFFICES ASSUME j <= Len(b), NEW k \in 1..(i + 1 - 1), WrittenBefore(a, b, j, k)
                PROVE  FALSE
    OBVIOUS
  <2>1. k \in Nat /\ k <= i
    BY <1>1
  <2>2. WrittenBefore(a, b, j, i)
    BY <1>1, <2>1, WrittenBeforeGrows
  <2>. QED
    BY <1>3, <2>2
<1>. QED
  BY <1>5, <1>6, <1>7 DEF Cursors

LEMMA RightMoves ==
    ASSUME NEW a \in Seq(Item), NEW b \in Seq(Item),
           NEW j \in DOMAIN b, NEW i \in 1..(Len(a) + 1), Cursors(a, b, i, j),
           i <= Len(a) => ItemLess(b[j], a[i])
    PROVE  /\ Merged(a, b)[i + j - 1] = b[j]
           /\ Cursors(a, b, i, j + 1)
<1>1. /\ Len(a) \in Nat /\ Len(b) \in Nat /\ DOMAIN a = 1..Len(a) /\ DOMAIN b = 1..Len(b)
      /\ j \in Nat /\ j <= Len(b) /\ i \in Nat
  BY LenProperties
<1>2. \A k \in 1..(i - 1) : ~ WrittenBefore(a, b, j, k)
  BY <1>1 DEF Cursors
\* Of the item at i and the one that the items before j were compared with, the
\* larger one is larger than all of them and than item j.
<1>3. ASSUME i <= Len(a) PROVE WrittenBefore(a, b, j, i)
  <2>. DEFINE largest(k) == k \in 1..i /\ \A l \in 1..j : ItemLess(b[l], a[k])
  <2>1. SUFFICES \E k : largest(k)
    BY DEF WrittenBefore
  <2>2. \A l \in 1..j : b[l] \in Item
    BY <1>1, ElementOfSeq
  <2>3. i \in DOMAIN a /\ a[i] \in Item /\ ItemLess(b[j], a[i])
    BY <1>1, <1>3, ElementOfSeq
  <2>4. CASE j = 1
    <3>1. largest(i)
      BY <1>1, <2>3, <2>4
    <3>. QED
      BY <3>1
  <2>5. CASE j # 1
    <3>1. j - 1 \in 1..(j - 1)
      BY <1>1, <2>5
    <3>2. WrittenBefore(a, b, j - 1, i)
      BY <1>3, <3>1 DEF Cursors
    <3>3. PICK k \in 1..i : \A l \in 1..(j - 1) : ItemLess(b[l], a[k])
      BY <3>2 DEF WrittenBefore
    <3>4. a[k] \in Item
      BY <1>1, <1>3, ElementOfSeq
    <3>5. \A l \in 1..j : l \in 1..(j - 1) \/ l = j
      BY <1>1
    <3>6. CASE ItemLess(a[k], a[i])
      <4>1. \A l \in 1..j : ItemLess(b[l], a[i])
        BY <2>2, <2>3, <3>3, <3>4, <3>5, <3>6, ItemOrder
      <4>2. largest(i)
        BY <1>1, <4>1
      <4>. QED
        BY <4>2
    <3>7. CASE ~ ItemLess(a[k], a[i])
      <4>1. b[j] \in Item
        BY <1>1, <2>2
      <4>2. ItemLess(b[j], a[k])
        BY <2>3, <3>4, <3>7, <4>1, ItemOrder
      <4>3. largest(k)
        BY <3>3, <3>5, <4>2
      <4>. QED
        BY <4>3
    <3>. QED
      BY <3>6, <3>7
  <2>. QED
    BY <2>4, <2>5
<1>4. PositionOfRight(a, b, j) = i + j - 1
  BY <1>2, <1>3, RightPosition
<1>5. Merged(a, b)[i + j - 1] = b[j]
  BY <1>4, MergedAt
<1>6. i <= Len(a) => \A k \in 1..(j + 1 - 1) : WrittenBefore(a, b, k, i)
  BY <1>1, <1>3, WrittenBeforeGrows
<1>7. \A k \in 1..(i - 1) : ~ WrittenBefore(a, b, j + 1, k)
  BY <1>1, <1>2, WrittenBeforeGrows
<1>. QED
  BY <1>5, <1>6, <1>7 DEF Cursors

-----------------------------------------------------------------------------
(***************************************************************************)
(* The insertion loop: what it has loaded of the items up to n.            *)
(***************************************************************************)
Taken(items, n) ==
    LET F == Firsts(items)
    IN  [k \in 1..RankIn(F, n) |-> items[CHOOSE i \in F : RankIn(F, i) = k]]

\* Rank grows by one at each element of the set, and nowhere else.
LEMMA RankGrows ==
    ASSUME NEW S \in SUBSET Nat, IsFiniteSet(S), NEW n \in Nat, NEW m \in Nat, n <= m
    PROVE  /\ RankIn(S, n) \in Nat
           /\ RankIn(S, n) <= RankIn(S, m)
           /\ RankIn(S, n) <= Cardinality(S)
           /\ n < m /\ m \in S => RankIn(S, n) < RankIn(S, m)
           /\ m = n + 1 /\ m \in S => RankIn(S, m) = RankIn(S, n) + 1
           /\ m = n + 1 /\ m \notin S => RankIn(S, m) = RankIn(S, n)
<1>. DEFINE upto(k) == {h \in S : h <= k}
<1>1. upto(n) \in SUBSET upto(m) /\ upto(m) \in SUBSET S /\ upto(n) \in SUBSET S
  <2>1. \A h \in S : h <= n => h <= m
    OBVIOUS
  <2>. QED
    BY <2>1
<1>2. IsFiniteSet(upto(n)) /\ IsFiniteSet(upto(m))
  BY <1>1, FS_Subset
<1>3. RankIn(S, n) = Cardinality(upto(n)) /\ RankIn(S, m) = Cardinality(upto(m))
  BY DEF RankIn
<1>4. n < m /\ m \in S => m \in upto(m) \ upto(n)
  BY DEF upto
<1>5. m = n + 1 /\ m \in S => upto(m) = upto(n) \cup {m}
  <2>1. \A h \in S : m = n + 1 => (h <= m <=> h <= n \/ h = m)
    OBVIOUS
  <2>. QED
    BY <2>1
<1>6. m = n + 1 /\ m \notin S => upto(m) = upto(n)
  <2>1. \A h \in S : m = n + 1 => (h <= m <=> h <= n \/ h = m)
    OBVIOUS
  <2>. QED
    BY <2>1
<1>. HIDE DEF upto
<1>7. /\ Cardinality(upto(n)) \in Nat /\ Cardinality(upto(m)) \in Nat
      /\ Cardinality(S) \in Nat
      /\ Cardinality(upto(n)) <= Cardinality(upto(m))
      /\ Cardinality(upto(n)) <= Cardinality(S)
      /\ Cardinality(upto(n)) = Cardinality(upto(m)) => upto(n) = upto(m)
  BY <1>1, <1>2, FS_Subset, FS_CardinalityType
<1>8. m \notin upto(n) => Cardinality(upto(n) \cup {m}) = Cardinality(upto(n)) + 1
  BY <1>2, FS_AddElement
<1>9. m = n + 1 /\ m \in S => RankIn(S, m) = RankIn(S, n) + 1
  BY <1>3, <1>4, <1>5, <1>8
<1>10. n < m /\ m \in S => RankIn(S, n) < RankIn(S, m)
  BY <1>3, <1>4, <1>7
<1>11. m = n + 1 /\ m \notin S => RankIn(S, m) = RankIn(S, n)
  BY <1>3, <1>6
<1>. QED
  BY <1>3, <1>7, <1>9, <1>10, <1>11

\* What is taken grows by item n + 1 exactly when no equal item is there yet.
LEMMA TakenGrows ==
    ASSUME NEW items \in Seq(Item), NEW n \in Nat, n + 1 \in DOMAIN items,
           NEW t, t = Taken(items, n)
    PROVE  Taken(items, n + 1) =
              IF \E k \in DOMAIN t : t[k] = items[n + 1] THEN t ELSE Append(t, items[n + 1])
<1>. DEFINE F == Firsts(items)
            x == items[n + 1]
            u == Taken(items, n + 1)
            at(k) == CHOOSE i \in F : RankIn(F, i) = k
            r == RankIn(F, n)
<1>1. /\ IsFiniteSet(F) /\ F \in SUBSET Nat /\ F \subseteq DOMAIN items
      /\ \A i \in DOMAIN items : \E h \in F : h <= i /\ items[h] = items[i]
      /\ DOMAIN items = 1..Len(items) /\ Len(items) \in Nat
  BY FirstsCover, LenProperties
<1>2. /\ DOMAIN t = 1..r /\ \A k \in 1..r : t[k] = items[at(k)]
      /\ DOMAIN u = 1..RankIn(F, n + 1)
      /\ \A k \in 1..RankIn(F, n + 1) : u[k] = items[at(k)]
      /\ t = [k \in 1..r |-> items[at(k)]]
      /\ u = [k \in 1..RankIn(F, n + 1) |-> items[at(k)]]
  BY DEF Taken
<1>3. \A i \in F : i < n + 1 => items[i] # x \/ n + 1 \notin F
  <2>1. ASSUME NEW i \in F, i < n + 1, n + 1 \in F PROVE items[i] # x
    <3>1. i \in 1..(n + 1 - 1)
      BY <1>1, <2>1
    <3>. QED
      BY <2>1, <3>1 DEF Firsts
  <2>. QED
    BY <2>1
<1>. HIDE DEF F, u
<1>4. r \in Nat /\ r <= Cardinality(F) /\ Cardinality(F) \in Nat
  BY <1>1, RankGrows, FS_CardinalityType
<1>5. \A k \in 1..Cardinality(F) : at(k) \in F /\ RankIn(F, at(k)) = k
  BY <1>1, RankOnto
<1>6. \A i \in F : at(RankIn(F, i)) = i
  <2> SUFFICES ASSUME NEW i \in F PROVE at(RankIn(F, i)) = i
    OBVIOUS
  <2>1. RankIn(F, i) \in 1..Cardinality(F)
    BY <1>1, RankIsPosition
  <2>2. at(RankIn(F, i)) \in F /\ RankIn(F, at(RankIn(F, i))) = RankIn(F, i)
    BY <1>5, <2>1
  <2>3. \A j \in F : RankIn(F, j) = RankIn(F, i) => j = i
    BY <1>1, RankIsPosition
  <2>. HIDE DEF at
  <2>. QED
    BY <2>2, <2>3
<1>. HIDE DEF at, r
<1>7. \A k \in 1..r : at(k) \in F /\ RankIn(F, at(k)) = k /\ at(k) \in 1..n
  <2> SUFFICES ASSUME NEW k \in 1..r
               PROVE  at(k) \in F /\ RankIn(F, at(k)) = k /\ at(k) \in 1..n
    OBVIOUS
  <2>1. k \in 1..Cardinality(F)
    BY <1>4
  <2>2. at(k) \in F /\ RankIn(F, at(k)) = k /\ at(k) \in 1..Len(items)
    BY <1>1, <1>5, <2>1
  <2>3. at(k) <= n
    <3>. SUFFICES ASSUME n < at(k) PROVE FALSE
      BY <2>2
    <3>1. r < RankIn(F, at(k))
      BY <1>1, <2>2, RankGrows DEF r
    <3>. QED
      BY <1>4, <2>2, <3>1
  <2>. QED
    BY <2>2, <2>3
<1>8. CASE n + 1 \in F
  <2>1. RankIn(F, n + 1) = r + 1
    BY <1>1, <1>8, RankGrows DEF r
  <2>2. at(r + 1) = n + 1
    BY <1>6, <1>8, <2>1
  <2>3. \A k \in DOMAIN t : t[k] # x
    <3>1. ASSUME NEW k \in 1..r PROVE t[k] # x
      <4>1. at(k) \in F /\ at(k) < n + 1
        BY <1>7
      <4>. QED
        BY <1>2, <1>3, <1>8, <4>1
    <3>. QED
      BY <1>2, <3>1
  <2>4. u = Append(t, x)
    <3>1. t = [k \in 1..r |-> items[at(k)]] /\ u = [k \in 1..(r + 1) |-> items[at(k)]]
      BY <1>2, <2>1
    <3>2. \A k \in 1..r : items[at(k)] \in Item
      BY <1>1, <1>7, ElementOfSeq
    <3>3. t \in Seq(Item) /\ Len(t) = r /\ x \in Item
      BY <1>1, <1>4, <3>1, <3>2, FunctionIsSeq, ElementOfSeq
    <3>4. DOMAIN Append(t, x) = 1..(r + 1) /\ Append(t, x)[r + 1] = x
          /\ \A k \in 1..r : Append(t, x)[k] = t[k]
      BY <3>3, <1>4, AppendProperties
    <3>5. \A k \in 1..(r + 1) : u[k] = Append(t, x)[k]
      BY <1>2, <1>4, <2>1, <2>2, <3>4
    <3>6. Append(t, x) = [k \in 1..(r + 1) |-> Append(t, x)[k]]
      BY <3>3, <3>4, AppendProperties
    <3>. QED
      BY <3>1, <3>5, <3>6
  <2>. QED
    BY <2>3, <2>4 DEF u
<1>9. CASE n + 1 \notin F
  <2>1. RankIn(F, n + 1) = r
    BY <1>1, <1>9, RankGrows DEF r
  <2>2. PICK h \in F : h <= n + 1 /\ items[h] = x
    BY <1>1
  <2>3. h \in Nat /\ h <= n
    BY <1>1, <1>9, <2>2
  <2>4. RankIn(F, h) \in 1..r
    BY <1>1, <2>2, <2>3, RankGrows, RankIsPosition DEF r
  <2>5. t[RankIn(F, h)] = x
    BY <1>2, <1>6, <2>2, <2>4
  <2>6. u = t
    BY <1>2, <2>1
  <2>. QED
    BY <1>2, <2>4, <2>5, <2>6 DEF u
<1>. QED
  BY <1>8, <1>9

LEMMA TakenEnds ==
    ASSUME NEW items \in Seq(Item)
    PROVE  Taken(items, 0) = <<>> /\ Taken(items, Len(items)) = Distinct(items)
<1>. DEFINE F == Firsts(items)
<1>1. F \in SUBSET Nat /\ IsFiniteSet(F) /\ F \subseteq 1..Len(items) /\ Len(items) \in Nat
  BY FirstsCover, LenProperties
<1>2. RankIn(F, 0) = 0
  <2>1. {j \in F : j <= 0} = {}
    BY <1>1
  <2>. QED
    BY <2>1, FS_EmptySet DEF RankIn
<1>3. RankIn(F, Len(items)) = Cardinality(F)
  <2>1. {j \in F : j <= Len(items)} = F
    BY <1>1
  <2>. QED
    BY <2>1 DEF RankIn
<1>4. Taken(items, 0) = <<>>
  BY <1>2 DEF Taken
<1>. QED
  BY <1>3, <1>4 DEF Taken, Distinct

-----------------------------------------------------------------------------
(***************************************************************************)
(* The order of what is merged.                                            *)
(***************************************************************************)
\* Of increasing positions, the k-th has rank k.
LEMMA IncreasingRanks ==
    ASSUME NEW n \in Nat, NEW p, \A i \in 1..n : p[i] \in Nat,
           \A i, k \in 1..n : i < k => p[i] < p[k], NEW k \in 1..n
    PROVE  RankIn({p[i] : i \in 1..n}, p[k]) = k
<1>. DEFINE T == {h \in {p[i] : i \in 1..n} : h <= p[k]}
            f == [i \in 1..k |-> p[i]]
<1>1. ASSUME NEW i \in 1..n PROVE p[i] <= p[k] <=> i <= k
  <2>1. CASE i <= k
    BY <1>1, <2>1
  <2>2. CASE k < i
    <3>1. p[k] < p[i]
      BY <1>1, <2>2
    <3>. QED
      BY <1>1, <2>2, <3>1
  <2>. QED
    BY <1>1, <2>1, <2>2
<1>2. \A i \in 1..k : i \in 1..n /\ p[i] \in T
  BY <1>1
<1>3. \A h \in T : \E i \in 1..k : h = p[i]
  BY <1>1
<1>4. \A i, j \in 1..k : p[i] = p[j] => i = j
  <2> SUFFICES ASSUME NEW i \in 1..k, NEW j \in 1..k, p[i] = p[j] PROVE i = j
    OBVIOUS
  <2>1. i \in 1..n /\ j \in 1..n /\ ~ (p[i] < p[j]) /\ ~ (p[j] < p[i])
    OBVIOUS
  <2>. QED
    BY <2>1
<1>. HIDE DEF T
<1>5. f \in [1..k -> T] /\ \A i \in 1..k : f[i] = p[i]
  BY <1>2
<1>. HIDE DEF f
<1>6. f \in Bijection(1..k, T)
  BY <1>3, <1>4, <1>5 DEF Bijection, Injection, Surjection, IsInjective
<1>7. IsFiniteSet(1..k) /\ Cardinality(1..k) = k
  BY FS_Interval
<1>8. Cardinality(T) = k
  BY <1>6, <1>7, FS_Bijection DEF ExistsBijection
<1>. QED
  BY <1>8 DEF RankIn, T

KeepsLists(a, b, m) ==
    \E from \in SUBSET DOMAIN m :
        /\ \A k \in DOMAIN a : \E p \in from : m[p] = a[k] /\ RankIn(from, p) = k
        /\ \A k \in DOMAIN b :
              \E p \in DOMAIN m \ from : m[p] = b[k] /\ RankIn(DOMAIN m \ from, p) = k

LEMMA MergedKeepsLists ==
    ASSUME NEW a \in Seq(Item), NEW b \in Seq(Item), NEW m, m = Merged(a, b)
    PROVE  KeepsLists(a, b, m)
<1>. DEFINE L(i) == PositionOfLeft(a, b, i)
            R(j) == PositionOfRight(a, b, j)
            from == {L(i) : i \in 1..Len(a)}
            rest == {R(j) : j \in 1..Len(b)}
<1>1. /\ Len(a) \in Nat /\ Len(b) \in Nat
      /\ DOMAIN a = 1..Len(a) /\ DOMAIN b = 1..Len(b)
  BY LenProperties
<1>2. /\ \A i \in 1..Len(a) : L(i) \in DOMAIN m /\ m[L(i)] = a[i]
      /\ \A j \in 1..Len(b) : R(j) \in DOMAIN m /\ m[R(j)] = b[j]
      /\ \A k \in DOMAIN m : (\E i \in 1..Len(a) : L(i) = k) \/ (\E j \in 1..Len(b) : R(j) = k)
  <2>1. /\ \A i \in DOMAIN a : L(i) \in DOMAIN m /\ m[L(i)] = a[i]
        /\ \A j \in DOMAIN b : R(j) \in DOMAIN m /\ m[R(j)] = b[j]
        /\ \A k \in DOMAIN m : (\E i \in DOMAIN a : L(i) = k) \/ (\E j \in DOMAIN b : R(j) = k)
    BY MergedAt
  <2>. HIDE DEF L, R
  <2>. QED
    BY <1>1, <2>1
<1>3. /\ \A i \in 1..Len(a) : L(i) \in Nat
      /\ \A j \in 1..Len(b) : R(j) \in Nat
      /\ \A i, k \in 1..Len(a) : i < k => L(i) < L(k)
      /\ \A j, k \in 1..Len(b) : j < k => R(j) < R(k)
      /\ \A i \in 1..Len(a), j \in 1..Len(b) : L(i) < R(j) \/ R(j) < L(i)
  BY <1>1, PositionsOrdered
<1>. HIDE DEF L, R
<1>4. from \in SUBSET DOMAIN m
  BY <1>2
<1>5. DOMAIN m \ from = rest
  <2>1. \A i \in 1..Len(a), j \in 1..Len(b) : L(i) # R(j)
    BY <1>3
  <2>. QED
    BY <1>2, <2>1
<1>6. \A k \in 1..Len(a) : RankIn(from, L(k)) = k
  <2>. DEFINE p == [i \in 1..Len(a) |-> L(i)]
  <2>1. \A i \in 1..Len(a) : p[i] = L(i)
    OBVIOUS
  <2>2. from = {p[i] : i \in 1..Len(a)}
    BY <2>1
  <2>. HIDE DEF p, from
  <2>3. /\ \A i \in 1..Len(a) : p[i] \in Nat
        /\ \A i, k \in 1..Len(a) : i < k => p[i] < p[k]
    BY <1>3, <2>1
  <2>4. \A k \in 1..Len(a) : RankIn(from, p[k]) = k
    BY <1>1, <2>2, <2>3, IncreasingRanks
  <2>. QED
    BY <2>1, <2>4
<1>7. \A k \in 1..Len(b) : RankIn(rest, R(k)) = k
  <2>. DEFINE p == [i \in 1..Len(b) |-> R(i)]
  <2>1. \A i \in 1..Len(b) : p[i] = R(i)
    OBVIOUS
  <2>2. rest = {p[i] : i \in 1..Len(b)}
    BY <2>1
  <2>. HIDE DEF p, rest
  <2>3. /\ \A i \in 1..Len(b) : p[i] \in Nat
        /\ \A i, k \in 1..Len(b) : i < k => p[i] < p[k]
    BY <1>3, <2>1
  <2>4. \A k \in 1..Len(b) : RankIn(rest, p[k]) = k
    BY <1>1, <2>2, <2>3, IncreasingRanks
  <2>. QED
    BY <2>1, <2>4
<1>8. \A k \in DOMAIN a : L(k) \in from /\ m[L(k)] = a[k] /\ RankIn(from, L(k)) = k
  BY <1>1, <1>2, <1>6
<1>9. \A k \in DOMAIN b : R(k) \in rest /\ m[R(k)] = b[k] /\ RankIn(rest, R(k)) = k
  BY <1>1, <1>2, <1>7
<1>. HIDE DEF from, rest, L, R
<1>10. ASSUME NEW k \in DOMAIN a
       PROVE  \E p \in from : m[p] = a[k] /\ RankIn(from, p) = k
  <2>1. L(k) \in from /\ m[L(k)] = a[k] /\ RankIn(from, L(k)) = k
    BY <1>8
  <2>. QED
    BY <2>1
<1>11. ASSUME NEW k \in DOMAIN b
       PROVE  \E p \in rest : m[p] = b[k] /\ RankIn(rest, p) = k
  <2>1. R(k) \in rest /\ m[R(k)] = b[k] /\ RankIn(rest, R(k)) = k
    BY <1>9
  <2>. QED
    BY <2>1
<1>. QED
  <2>. SUFFICES
         /\ \A k \in DOMAIN a : \E p \in from : m[p] = a[k] /\ RankIn(from, p) = k
         /\ \A k \in DOMAIN b : \E p \in DOMAIN m \ from :
               m[p] = b[k] /\ RankIn(DOMAIN m \ from, p) = k
    BY <1>4 DEF KeepsLists
  <2>. QED
    BY <1>5, <1>10, <1>11

LEMMA MergedIsSorted ==
    ASSUME NEW a \in Seq(Item), NEW b \in Seq(Item), Sorted(a), Sorted(b)
    PROVE  Sorted(Merged(a, b))
<1>. DEFINE m == Merged(a, b)
            L(i) == PositionOfLeft(a, b, i)
            R(j) == PositionOfRight(a, b, j)
            before(j, i) == WrittenBefore(a, b, j, i)
<1>1. /\ Len(a) \in Nat /\ Len(b) \in Nat
      /\ DOMAIN a = 1..Len(a) /\ DOMAIN b = 1..Len(b)
      /\ \A i \in DOMAIN a : a[i] \in Item
      /\ \A j \in DOMAIN b : b[j] \in Item
  BY LenProperties, ElementOfSeq
<1>2. /\ \A i \in DOMAIN a : L(i) \in DOMAIN m /\ m[L(i)] = a[i]
      /\ \A j \in DOMAIN b : R(j) \in DOMAIN m /\ m[R(j)] = b[j]
      /\ \A k \in DOMAIN m : (\E i \in DOMAIN a : L(i) = k) \/ (\E j \in DOMAIN b : R(j) = k)
  BY MergedAt
<1>3. /\ \A i \in DOMAIN a : L(i) \in Nat
      /\ \A j \in DOMAIN b : R(j) \in Nat
      /\ \A i, k \in DOMAIN a : i < k => L(i) < L(k)
      /\ \A j, k \in DOMAIN b : j < k => R(j) < R(k)
      /\ \A i \in DOMAIN a, j \in DOMAIN b :
            IF before(j, i) THEN R(j) < L(i) ELSE L(i) < R(j)
  BY PositionsOrdered
<1>4. /\ \A i, k \in DOMAIN a : i < k => ~ ItemLess(a[k], a[i])
      /\ \A j, k \in DOMAIN b : j < k => ~ ItemLess(b[k], b[j])
  BY DEF Sorted
<1>. HIDE DEF m, L, R, before
<1>5. ASSUME NEW i \in DOMAIN a, NEW j \in DOMAIN b, ItemLess(b[j], a[i])
      PROVE  before(j, i)
  <2>1. ASSUME NEW l \in 1..j PROVE ItemLess(b[l], a[i])
    <3>1. l \in DOMAIN b /\ (l < j \/ l = j)
      BY <1>1
    <3>2. ~ ItemLess(b[j], b[l])
      BY <1>1, <1>4, <3>1, ItemOrder
    <3>. QED
      BY <1>1, <1>5, <3>1, <3>2, ItemOrder
  <2>2. i \in 1..i
    BY <1>1
  <2>. QED
    BY <2>1, <2>2 DEF before, WrittenBefore
<1>6. ASSUME NEW i \in DOMAIN a, NEW j \in DOMAIN b, before(j, i)
      PROVE  ~ ItemLess(a[i], b[j])
  <2>1. PICK k \in 1..i : \A l \in 1..j : ItemLess(b[l], a[k])
    BY <1>6 DEF before, WrittenBefore
  <2>2. k \in DOMAIN a /\ (k < i \/ k = i) /\ j \in 1..j
    BY <1>1
  <2>3. ItemLess(b[j], a[k]) /\ ~ ItemLess(a[i], a[k])
    BY <1>1, <1>4, <2>1, <2>2, ItemOrder
  <2>. QED
    BY <1>1, <2>2, <2>3, ItemOrder
<1>7. ASSUME NEW p \in DOMAIN m, NEW q \in DOMAIN m, p < q
      PROVE  ~ ItemLess(m[q], m[p])
  <2>1. ASSUME NEW i \in DOMAIN a, L(i) = p, NEW k \in DOMAIN a, L(k) = q
        PROVE  ~ ItemLess(m[q], m[p])
    <3>1. ~ (k < i) /\ k # i
      BY <1>3, <1>7, <2>1
    <3>2. i < k
      BY <1>1, <3>1
    <3>. QED
      BY <1>2, <1>4, <2>1, <3>2
  <2>2. ASSUME NEW j \in DOMAIN b, R(j) = p, NEW k \in DOMAIN b, R(k) = q
        PROVE  ~ ItemLess(m[q], m[p])
    <3>1. ~ (k < j) /\ k # j
      BY <1>3, <1>7, <2>2
    <3>2. j < k
      BY <1>1, <3>1
    <3>. QED
      BY <1>2, <1>4, <2>2, <3>2
  <2>3. ASSUME NEW i \in DOMAIN a, L(i) = p, NEW j \in DOMAIN b, R(j) = q
        PROVE  ~ ItemLess(m[q], m[p])
    <3>1. ~ before(j, i)
      BY <1>3, <1>7, <2>3
    <3>. QED
      BY <1>2, <1>5, <2>3, <3>1
  <2>4. ASSUME NEW j \in DOMAIN b, R(j) = p, NEW i \in DOMAIN a, L(i) = q
        PROVE  ~ ItemLess(m[q], m[p])
    <3>1. before(j, i)
      BY <1>3, <1>7, <2>4
    <3>. QED
      BY <1>2, <1>6, <2>4, <3>1
  <2>. QED
    BY <1>2, <2>1, <2>2, <2>3, <2>4
<1>. QED
  BY <1>7 DEF Sorted, m

-----------------------------------------------------------------------------
(***************************************************************************)
(* The inductive invariant of the two loops.                               *)
(***************************************************************************)
MergeInv ==
    /\ MergeTypeOK
    /\ MergedIsTheLoop
    /\ Cursors(left, right, atLeft, atRight)
    /\ next > 0 => atLeft = Len(left) + 1 /\ atRight = Len(right) + 1
    /\ loaded = IF next = 0 \/ out = <<>> THEN NewCache
                ELSE [items |-> Taken(out, next - 1), modified |-> TRUE]

LEMMA ListsAreSequences ==
    ASSUME NEW s \in Lists
    PROVE  /\ s \in Seq(Item) /\ Len(s) \in Nat /\ DOMAIN s = 1..Len(s)
           /\ \A k \in DOMAIN s : s[k] \in Items
<1>1. Items \subseteq Item
  BY DEF Items, Item, States
<1>2. PICK n \in 0..MaxLength : s \in [1..n -> Items]
  BY DEF Lists
<1>3. s \in [1..n -> Item] /\ n \in Nat
  BY <1>1, <1>2, MaxLengthAssumption
<1>. QED
  BY <1>2, <1>3, FunctionIsSeq

LEMMA MergeTypes ==
    ASSUME MergeTypeOK
    PROVE  /\ left \in Seq(Item) /\ Len(left) \in Nat /\ DOMAIN left = 1..Len(left)
           /\ right \in Seq(Item) /\ Len(right) \in Nat /\ DOMAIN right = 1..Len(right)
           /\ \A k \in DOMAIN left : left[k] \in Items
           /\ \A k \in DOMAIN right : right[k] \in Items
           /\ out \in Seq(Item) /\ Len(out) = Len(left) + Len(right)
           /\ DOMAIN out = 1..(Len(left) + Len(right))
           /\ \A k \in DOMAIN out : out[k] \in Item
<1>1. /\ left \in Seq(Item) /\ Len(left) \in Nat /\ DOMAIN left = 1..Len(left)
      /\ right \in Seq(Item) /\ Len(right) \in Nat /\ DOMAIN right = 1..Len(right)
      /\ \A k \in DOMAIN left : left[k] \in Items
      /\ \A k \in DOMAIN right : right[k] \in Items
  BY ListsAreSequences DEF MergeTypeOK
<1>2. Items \cup {BlankItem} \subseteq Item
  BY BlankItemType DEF Items, Item, States
<1>3. out \in [1..(Len(left) + Len(right)) -> Item] /\ Len(left) + Len(right) \in Nat
  BY <1>1, <1>2 DEF MergeTypeOK
<1>4. out \in Seq(Item) /\ Len(out) = Len(left) + Len(right)
      /\ DOMAIN out = 1..(Len(left) + Len(right))
  BY <1>3, FunctionIsSeq
<1>. QED
  BY <1>1, <1>3, <1>4

LEMMA MergeInitInv == MergeInit => MergeInv
<1>. SUFFICES ASSUME MergeInit PROVE MergeInv
  OBVIOUS
<1>1. /\ Len(left) \in Nat /\ Len(right) \in Nat
  BY ListsAreSequences DEF MergeInit
<1>2. Len(out) = Len(left) + Len(right) /\ DOMAIN out = 1..(Len(left) + Len(right))
  <2>1. out \in [1..(Len(left) + Len(right)) -> {BlankItem}]
    BY DEF MergeInit
  <2>. QED
    BY <1>1, <2>1, FunctionIsSeq
<1>3. NewCache \in Cache
  BY NewCacheMarked DEF MarkedCache
<1>4. MergeTypeOK
  BY <1>1, <1>2, <1>3 DEF MergeInit, MergeTypeOK
<1>5. MergedIsTheLoop
  BY <1>2 DEF MergeInit, MergedIsTheLoop
<1>6. Cursors(left, right, atLeft, atRight)
  BY DEF MergeInit, Cursors
<1>. QED
  BY <1>4, <1>5, <1>6 DEF MergeInit, MergeInv

\* One write, of an item that the closed form has at that place.
LEMMA OneWrite ==
    ASSUME MergeInv, next = 0, UNCHANGED <<left, right, loaded, next>>,
           NEW item \in Items, Merged(left, right)[atLeft + atRight - 1] = item,
           out' = [out EXCEPT ![atLeft + atRight - 1] = item],
           atLeft' \in 1..(Len(left) + 1), atRight' \in 1..(Len(right) + 1),
           atLeft + atRight - 1 \in DOMAIN out, atLeft' + atRight' - 1 = atLeft + atRight
    PROVE  MergeTypeOK' /\ MergedIsTheLoop'
<1>. DEFINE p == atLeft + atRight - 1
<1>1. /\ Len(left) \in Nat /\ Len(right) \in Nat /\ DOMAIN out = 1..(Len(left) + Len(right))
      /\ Len(out) = Len(left) + Len(right)
  BY MergeTypes DEF MergeInv
<1>2. /\ atLeft \in 1..(Len(left) + 1) /\ atRight \in 1..(Len(right) + 1)
      /\ out \in [1..(Len(left) + Len(right)) -> Items \cup {BlankItem}]
  BY <1>1 DEF MergeInv, MergeTypeOK
<1>3. p \in 1..(Len(left) + Len(right))
  BY <1>1
<1>4. atLeft' + atRight' - 1 = p + 1 /\ p \in Nat
  <2>1. \A x, y \in Int : x + y - 1 + 1 = x + y
    OBVIOUS
  <2>2. atLeft \in Int /\ atRight \in Int
    BY <1>1, <1>2
  <2>3. p + 1 = atLeft + atRight /\ p \in Nat
    BY <1>1, <1>3, <2>1, <2>2
  <2>. HIDE DEF p
  <2>. QED
    BY <2>3
<1>5. /\ out' \in [1..(Len(left) + Len(right)) -> Items \cup {BlankItem}]
      /\ out'[p] = item
      /\ \A k \in 1..(Len(left) + Len(right)) : k # p => out'[k] = out[k]
  BY <1>2, <1>3
<1>6. DOMAIN out' = 1..(Len(left) + Len(right)) /\ Len(out') = Len(left) + Len(right)
  <2>1. Len(left) + Len(right) \in Nat
    BY <1>1
  <2>. QED
    BY <1>5, <2>1, FunctionIsSeq
<1>. HIDE DEF p
<1>7. MergeTypeOK'
  BY <1>1, <1>5, <1>6 DEF MergeInv, MergeTypeOK
<1>8. ASSUME NEW k \in 1..(Len(left) + Len(right))
      PROVE  out'[k] = IF k < p + 1 THEN Merged(left, right)[k] ELSE BlankItem
  <2>1. CASE k = p
    BY <1>4, <1>5, <2>1 DEF p
  <2>2. CASE k # p
    <3>1. out[k] = IF k < p THEN Merged(left, right)[k] ELSE BlankItem
      BY <1>1 DEF MergeInv, MergedIsTheLoop, p
    <3>2. k < p + 1 <=> k < p
      BY <1>4, <2>2
    <3>. QED
      BY <1>5, <2>2, <3>1, <3>2
  <2>. QED
    BY <2>1, <2>2
<1>9. MergedIsTheLoop'
  BY <1>4, <1>6, <1>8 DEF MergedIsTheLoop
<1>. QED
  BY <1>7, <1>9

LEMMA WriteLeftKeeps ==
    ASSUME MergeInv, next = 0, atLeft <= Len(left),
           atRight <= Len(right) => ~ RightIsLess, WriteLeft
    PROVE  MergeInv'
<1>1. /\ left \in Seq(Item) /\ Len(left) \in Nat /\ DOMAIN left = 1..Len(left)
      /\ right \in Seq(Item) /\ Len(right) \in Nat
      /\ \A k \in DOMAIN left : left[k] \in Items
      /\ DOMAIN out = 1..(Len(left) + Len(right))
  BY MergeTypes DEF MergeInv
<1>2. atLeft \in 1..(Len(left) + 1) /\ atRight \in 1..(Len(right) + 1)
  BY DEF MergeInv, MergeTypeOK
<1>3. atLeft \in DOMAIN left /\ atLeft + 1 \in 1..(Len(left) + 1)
      /\ atLeft + 1 + atRight - 1 = atLeft + atRight /\ atLeft + atRight - 1 \in DOMAIN out
  BY <1>1, <1>2
<1>4. Cursors(left, right, atLeft, atRight)
  BY DEF MergeInv
<1>5. /\ Merged(left, right)[atLeft + atRight - 1] = left[atLeft]
      /\ Cursors(left, right, atLeft + 1, atRight)
  BY <1>1, <1>2, <1>3, <1>4, LeftMoves DEF RightIsLess
<1>6. MergeTypeOK' /\ MergedIsTheLoop'
  BY <1>1, <1>2, <1>3, <1>5, OneWrite DEF WriteLeft
<1>. QED
  BY <1>5, <1>6 DEF MergeInv, WriteLeft

LEMMA WriteRightKeeps ==
    ASSUME MergeInv, next = 0, atRight <= Len(right),
           atLeft <= Len(left) => RightIsLess, WriteRight
    PROVE  MergeInv'
<1>1. /\ right \in Seq(Item) /\ Len(right) \in Nat /\ DOMAIN right = 1..Len(right)
      /\ left \in Seq(Item) /\ Len(left) \in Nat
      /\ \A k \in DOMAIN right : right[k] \in Items
      /\ DOMAIN out = 1..(Len(left) + Len(right))
  BY MergeTypes DEF MergeInv
<1>2. atLeft \in 1..(Len(left) + 1) /\ atRight \in 1..(Len(right) + 1)
  BY DEF MergeInv, MergeTypeOK
<1>3. atRight \in DOMAIN right /\ atRight + 1 \in 1..(Len(right) + 1)
      /\ atLeft + (atRight + 1) - 1 = atLeft + atRight /\ atLeft + atRight - 1 \in DOMAIN out
  BY <1>1, <1>2
<1>4. Cursors(left, right, atLeft, atRight)
  BY DEF MergeInv
<1>5. /\ Merged(left, right)[atLeft + atRight - 1] = right[atRight]
      /\ Cursors(left, right, atLeft, atRight + 1)
  BY <1>1, <1>2, <1>3, <1>4, RightMoves DEF RightIsLess
<1>6. MergeTypeOK' /\ MergedIsTheLoop'
  BY <1>1, <1>2, <1>3, <1>5, OneWrite DEF WriteRight
<1>. QED
  BY <1>5, <1>6 DEF MergeInv, WriteRight

LEMMA StartReloadKeeps ==
    ASSUME MergeInv, StartReload
    PROVE  MergeInv'
<1>1. /\ Len(left) \in Nat /\ Len(right) \in Nat
      /\ out \in Seq(Item) /\ Len(out) = Len(left) + Len(right)
  BY MergeTypes DEF MergeInv
<1>2. next = 0 /\ ~ (atLeft <= Len(left)) /\ ~ (atRight <= Len(right))
  BY DEF StartReload, Merging, Pending
<1>3. atLeft = Len(left) + 1 /\ atRight = Len(right) + 1
  BY <1>1, <1>2 DEF MergeInv, MergeTypeOK
<1>4. Taken(out, 0) = <<>> /\ loaded = NewCache
  BY <1>1, <1>2, TakenEnds DEF MergeInv
<1>5. loaded' = IF out = <<>> THEN NewCache ELSE [items |-> Taken(out, 1 - 1), modified |-> TRUE]
  <2>1. loaded' = IF out = <<>> THEN NewCache ELSE CacheTouch(NewCache)
    BY <1>4 DEF StartReload
  <2>2. CacheTouch(NewCache) = [items |-> <<>>, modified |-> TRUE]
    <3>1. NewCache \in Cache /\ CacheTouch(NewCache) \in Cache
      BY NewCacheMarked, CacheTouchMarked DEF MarkedCache
    <3>2. CacheTouch(NewCache).items = NewCache.items /\ CacheTouch(NewCache).modified = TRUE
      BY <3>1 DEF CacheTouch, Cache
    <3>3. NewCache.items = <<>>
      BY DEF NewCache
    <3>. QED
      BY <3>1, <3>2, <3>3 DEF Cache
  <2>3. Taken(out, 1 - 1) = <<>>
    BY <1>4
  <2>. QED
    BY <2>1, <2>2, <2>3
<1>6. loaded' \in Cache
  <2>1. NewCache \in Cache /\ CacheTouch(NewCache) \in Cache
    BY NewCacheMarked, CacheTouchMarked DEF MarkedCache
  <2>. QED
    BY <1>4, <2>1 DEF StartReload
<1>7. MergeTypeOK'
  BY <1>1, <1>6 DEF MergeInv, MergeTypeOK, StartReload
<1>8. MergedIsTheLoop' /\ Cursors(left, right, atLeft, atRight)'
  BY DEF MergeInv, MergedIsTheLoop, StartReload
<1>. QED
  <2>1. next' = 1 /\ UNCHANGED <<left, right, atLeft, atRight, out>>
    BY DEF StartReload
  <2>2. loaded' = IF next' = 0 \/ out' = <<>> THEN NewCache
                  ELSE [items |-> Taken(out', next' - 1), modified |-> TRUE]
    BY <1>5, <2>1
  <2>. QED
    BY <1>3, <1>7, <1>8, <2>1, <2>2 DEF MergeInv

LEMMA ReloadItemKeeps ==
    ASSUME MergeInv, ReloadItem
    PROVE  MergeInv'
<1>. DEFINE t == Taken(out, next - 1)
<1>1. /\ Len(left) \in Nat /\ Len(right) \in Nat
      /\ out \in Seq(Item) /\ Len(out) = Len(left) + Len(right)
      /\ DOMAIN out = 1..(Len(left) + Len(right))
      /\ \A k \in DOMAIN out : out[k] \in Item
  BY MergeTypes DEF MergeInv
<1>2. next \in DOMAIN out /\ next - 1 \in Nat /\ next - 1 + 1 = next /\ next > 0
      /\ next + 1 - 1 = next /\ next + 1 \in 0..(Len(out) + 1) /\ next + 1 > 0
  BY <1>1 DEF ReloadItem
<1>3. Taken(out, next) = IF \E k \in DOMAIN t : t[k] = out[next]
                           THEN t ELSE Append(t, out[next])
  <2>. DEFINE n == next - 1
  <2>1. n \in Nat /\ n + 1 = next /\ t = Taken(out, n)
    BY <1>2
  <2>. HIDE DEF n, t
  <2>2. n + 1 \in DOMAIN out
    BY <1>2, <2>1
  <2>3. Taken(out, n + 1) = IF \E k \in DOMAIN t : t[k] = out[n + 1]
                              THEN t ELSE Append(t, out[n + 1])
    BY <1>1, <2>1, <2>2, TakenGrows
  <2>. QED
    BY <2>1, <2>3
<1>4. loaded = [items |-> t, modified |-> TRUE] /\ out # <<>>
  <2>1. out # <<>>
    BY <1>1, <1>2
  <2>2. ~ (next = 0 \/ out = <<>>)
    BY <1>2, <2>1
  <2>. QED
    BY <2>1, <2>2, Zenon DEF MergeInv
<1>. HIDE DEF t
<1>5. loaded' = [items |-> Taken(out, next), modified |-> TRUE]
  <2>1. loaded' = IF \E k \in DOMAIN t : t[k] = out[next]
                    THEN loaded ELSE [items |-> Append(t, out[next]), modified |-> TRUE]
    BY <1>4 DEF ReloadItem, CacheInsertElem
  <2>. QED
    BY <1>3, <1>4, <2>1
<1>6. loaded' \in Cache
  <2>1. loaded \in Cache /\ out[next] \in Item
    BY <1>1, <1>2 DEF MergeInv, MergeTypeOK
  <2>. QED
    BY <2>1, AppendProperties DEF ReloadItem, CacheInsertElem, Cache
<1>7. MergeTypeOK'
  BY <1>2, <1>6 DEF MergeInv, MergeTypeOK, ReloadItem
<1>8. MergedIsTheLoop' /\ Cursors(left, right, atLeft, atRight)'
  BY DEF MergeInv, MergedIsTheLoop, ReloadItem
<1>9. atLeft' = Len(left') + 1 /\ atRight' = Len(right') + 1
  BY <1>2 DEF MergeInv, ReloadItem
<1>10. next' = next + 1 /\ out' = out
  BY DEF ReloadItem
<1>. QED
  <2>1. loaded' = [items |-> Taken(out', next' - 1), modified |-> TRUE]
    <3>1. next' - 1 = next
      BY <1>2, <1>10
    <3>. QED
      BY <1>5, <1>10, <3>1
  <2>2. ~ (next' = 0 \/ out' = <<>>)
    BY <1>2, <1>4, <1>10
  <2>. QED
    BY <1>7, <1>8, <1>9, <2>1, <2>2 DEF MergeInv

LEMMA MergeNextInv == MergeInv /\ [MergeNext]_mergeVars => MergeInv'
<1>. SUFFICES ASSUME MergeInv, [MergeNext]_mergeVars PROVE MergeInv'
  OBVIOUS
<1>1. CASE TakeLeft
  BY <1>1, WriteLeftKeeps DEF TakeLeft, Merging, Pending
<1>2. CASE TakeRight
  BY <1>2, WriteRightKeeps DEF TakeRight, Merging, Pending
<1>3. CASE CopyLeft
  BY <1>3, WriteLeftKeeps DEF CopyLeft, Merging, Pending
<1>4. CASE CopyRight
  BY <1>4, WriteRightKeeps DEF CopyRight, Merging, Pending
<1>5. CASE StartReload
  BY <1>5, StartReloadKeeps
<1>6. CASE ReloadItem
  BY <1>6, ReloadItemKeeps
<1>7. CASE UNCHANGED mergeVars
  BY <1>7 DEF mergeVars, MergeInv, MergeTypeOK, MergedIsTheLoop
<1>. QED
  BY <1>1, <1>2, <1>3, <1>4, <1>5, <1>6, <1>7 DEF MergeNext

LEMMA MergeAlways == MergeSpec => []MergeInv
BY MergeInitInv, MergeNextInv, PTL DEF MergeSpec

\* When the merge is over, the vector is the closed form.
LEMMA MergeIsOver ==
    ASSUME MergeInv, next > 0
    PROVE  out = Merged(left, right)
<1>1. /\ left \in Seq(Item) /\ right \in Seq(Item)
      /\ Len(left) \in Nat /\ Len(right) \in Nat
      /\ DOMAIN out = 1..(Len(left) + Len(right))
  BY MergeTypes DEF MergeInv
<1>2. atLeft + atRight - 1 = Len(left) + Len(right) + 1
  BY <1>1 DEF MergeInv
<1>3. \A k \in DOMAIN out : out[k] = Merged(left, right)[k]
  BY <1>1, <1>2 DEF MergeInv, MergedIsTheLoop
<1>4. out = [k \in 1..(Len(left) + Len(right)) |-> out[k]]
  BY DEF MergeInv, MergeTypeOK
<1>5. Merged(left, right) = [k \in 1..(Len(left) + Len(right)) |-> Merged(left, right)[k]]
  BY DEF Merged
<1>. QED
  BY <1>1, <1>3, <1>4, <1>5

\* The loops stay inside the lists and the vector they work on.
THEOREM MergeTypeCorrect == MergeSpec => []MergeTypeOK
<1>1. MergeInv => MergeTypeOK
  BY DEF MergeInv
<1>. QED
  BY <1>1, MergeAlways, PTL

\* std::ranges::merge writes, item after item, the closed form that merge_cache
\* is modelled by, for lists that need not be sorted.
THEOREM ClosedFormIsTheLoop == MergeSpec => []MergedIsTheLoop
<1>1. MergeInv => MergedIsTheLoop
  BY DEF MergeInv
<1>. QED
  BY <1>1, MergeAlways, PTL

\* merge_cache sorts what was sorted, and keeps the order of each collection.
THEOREM MergeOrder == MergeSpec => []MergeKeepsOrder
<1>1. MergeInv => MergeKeepsOrder
  <2>. SUFFICES ASSUME MergeInv, next > 0
                PROVE  /\ Sorted(left) /\ Sorted(right) => Sorted(out)
                       /\ \E from \in SUBSET DOMAIN out :
                             /\ \A k \in DOMAIN left :
                                   \E p \in from : out[p] = left[k] /\ RankIn(from, p) = k
                             /\ \A k \in DOMAIN right :
                                   \E p \in DOMAIN out \ from :
                                      out[p] = right[k] /\ RankIn(DOMAIN out \ from, p) = k
    BY DEF MergeKeepsOrder
  <2>1. out = Merged(left, right)
    BY MergeIsOver
  <2>2. left \in Seq(Item) /\ right \in Seq(Item)
    BY MergeTypes DEF MergeInv
  <2>3. Sorted(left) /\ Sorted(right) => Sorted(out)
    BY <2>1, <2>2, MergedIsSorted
  <2>4. KeepsLists(left, right, out)
    BY <2>1, <2>2, MergedKeepsLists
  <2>. QED
    BY <2>3, <2>4 DEF KeepsLists
<1>. QED
  BY <1>1, MergeAlways, PTL

\* Reading a saved collection back with insert_elem, one item at a time, gives
\* the closed form by which loading is modelled.
THEOREM LoadingIsTheLoop == MergeSpec => []LoadedIsTheLoop
<1>1. MergeInv => LoadedIsTheLoop
  <2>. SUFFICES ASSUME MergeInv, next = Len(out) + 1 PROVE loaded = CacheFromJson(out)
    BY DEF LoadedIsTheLoop
  <2>1. out \in Seq(Item) /\ Len(out) \in Nat
    BY MergeTypes, LenProperties DEF MergeInv
  <2>2. next # 0 /\ next - 1 = Len(out)
    BY <2>1
  <2>. QED
    BY <2>1, <2>2, TakenEnds DEF MergeInv, CacheFromJson
<1>. QED
  BY <1>1, MergeAlways, PTL
=============================================================================
