--------------------------- MODULE RotationProofs ---------------------------
(***************************************************************************)
(* Properties of Rotation for any collections, wallpapers and directories: *)
(* a draw finds its directory, what is shown was entered from where it is  *)
(* said to lie, what is used or a favourite was shown, and every entry of  *)
(* a wallpaper comes up at most once, however collections are merged.      *)
(***************************************************************************)
EXTENDS Rotation, CacheLemmas

\* Items whose directory is known and is one that the wallpaper was entered
\* from, and which are unused or have been shown.
GoodItems(known, en, sh) ==
    {it \in Item : /\ it.value \in Walls /\ it.state # "null"
                   /\ EnteredUnder(en, it.value, it.loc) /\ it.loc \in known
                   /\ it.state # "unused" => sh[it.value] > 0}

\* Entries of the history that have been shown, with the directory.
GoodEntries(en, sh) ==
    {e \in Drawn : e.wall # NoString => /\ sh[e.wall] > 0
                                        /\ EnteredUnder(en, e.wall, Crc[e.path])}

Unused(w) == [value : {w}, state : {"unused"}, loc : Locs]

Typed ==
    /\ lib \in SoundLibrary /\ table \in PathTables
    /\ drawing \in BOOLEAN /\ alive \in BOOLEAN /\ entered \subseteq Walls \X Dirs
    /\ added \in [Walls -> Nat] /\ shown \in [Walls -> Nat]

PathsOK   == \A id \in DOMAIN table.store : Crc[table.store[id]] = id
ItemsOK   == \A p \in Spots(lib) : ItemAt(lib, p) \in GoodItems(DOMAIN table.store, entered, shown)
HistoryOK == history \in Seq(GoodEntries(entered, shown)) /\ desktop \in GoodEntries(entered, shown) \cup {Nothing}
DrawingOK == drawing => LibExists(lib, lib.active)

Inv == Typed /\ PathsOK /\ ItemsOK /\ HistoryOK /\ DrawingOK /\ ShownOncePerEntry

-----------------------------------------------------------------------------
\* The library and the table that the process starts with.
LEMMA EmptySpots == Spots(EmptyLibrary) = {}
<1>1. DOMAIN EmptyLibrary.vec = {}
  BY DEF EmptyLibrary
<1>. QED
  BY <1>1 DEF Spots

LEMMA EmptyHolding == ASSUME NEW G PROVE Cardinality(Holding(EmptyLibrary, G)) = 0
<1>1. Holding(EmptyLibrary, G) = {}
  BY EmptySpots DEF Holding
<1>. QED
  BY <1>1, FS_EmptySet

LEMMA EmptyTable ==
    /\ TableOf(EmptyStore) \in PathTables
    /\ DOMAIN TableOf(EmptyStore).store = {}
<1>1. EmptyStore \in [{} -> Dirs] /\ {} \in SUBSET Ids
  BY DEF EmptyStore
<1>2. EmptyStore \in Stores
  BY <1>1 DEF Stores
<1>. QED
  BY <1>1, <1>2 DEF TableOf, PathTables

LEMMA InitInv == Init => Inv
<1>. SUFFICES ASSUME Init PROVE Inv
  OBVIOUS
<1>1. Typed
  BY EmptyIsSound, EmptyTable DEF Init, Typed, None
<1>2. PathsOK /\ DrawingOK
  BY EmptyTable DEF Init, PathsOK, DrawingOK
<1>3. ItemsOK
  BY EmptySpots DEF Init, ItemsOK
<1>4. HistoryOK
  BY EmptySeq DEF Init, HistoryOK
<1>5. ShownOncePerEntry
  BY EmptyHolding DEF Init, ShownOncePerEntry, Entries, None
<1>. QED
  BY <1>1, <1>2, <1>3, <1>4, <1>5 DEF Inv

LEMMA DiesInv == Dies => Inv'
<1>. SUFFICES ASSUME Dies PROVE Inv'
  OBVIOUS
<1>1. Typed'
  BY EmptyIsSound, EmptyTable DEF Dies, Typed, None
<1>2. PathsOK' /\ DrawingOK'
  BY EmptyTable DEF Dies, PathsOK, DrawingOK
<1>3. ItemsOK'
  BY EmptySpots DEF Dies, ItemsOK
<1>4. HistoryOK'
  BY EmptySeq DEF Dies, HistoryOK
<1>5. ShownOncePerEntry'
  BY EmptyHolding DEF Dies, ShownOncePerEntry, Entries, None
<1>. QED
  BY <1>1, <1>2, <1>3, <1>4, <1>5 DEF Inv

-----------------------------------------------------------------------------
(***************************************************************************)
(* What is good stays good while the table and the counts grow.            *)
(***************************************************************************)
LEMMA GoodItemsGrow ==
    ASSUME NEW known, NEW more, known \subseteq more, NEW en, NEW grown, en \subseteq grown,
           NEW sh \in [Walls -> Nat], NEW later \in [Walls -> Nat],
           \A w \in Walls : sh[w] <= later[w]
    PROVE  GoodItems(known, en, sh) \subseteq GoodItems(more, grown, later)
<1>. SUFFICES ASSUME NEW it \in GoodItems(known, en, sh) PROVE it \in GoodItems(more, grown, later)
  OBVIOUS
<1>1. it.value \in Walls /\ sh[it.value] \in Nat /\ later[it.value] \in Nat
      /\ sh[it.value] <= later[it.value]
  BY DEF GoodItems
<1>2. EnteredUnder(grown, it.value, it.loc)
  BY DEF GoodItems, EnteredUnder
<1>. QED
  BY <1>1, <1>2 DEF GoodItems

LEMMA GoodEntriesGrow ==
    ASSUME NEW en, NEW grown, en \subseteq grown,
           NEW sh \in [Walls -> Nat], NEW later \in [Walls -> Nat],
           \A w \in Walls : sh[w] <= later[w]
    PROVE  GoodEntries(en, sh) \subseteq GoodEntries(grown, later)
<1>. SUFFICES ASSUME NEW e \in GoodEntries(en, sh), e.wall # NoString
              PROVE  later[e.wall] > 0 /\ EnteredUnder(grown, e.wall, Crc[e.path])
  BY DEF GoodEntries
<1>1. e.wall \in Walls /\ sh[e.wall] > 0
  BY DEF GoodEntries, Drawn
<1>2. EnteredUnder(grown, e.wall, Crc[e.path])
  BY DEF GoodEntries, EnteredUnder
<1>. QED
  BY <1>1, <1>2

LEMMA TableInsertGrows ==
    ASSUME NEW t \in PathTables, NEW d \in Dirs,
           \A id \in DOMAIN t.store : Crc[t.store[id]] = id
    PROVE  /\ TableInsert(t, d) \in PathTables
           /\ DOMAIN t.store \cup {Crc[d]} = DOMAIN TableInsert(t, d).store
           /\ \A id \in DOMAIN TableInsert(t, d).store : Crc[TableInsert(t, d).store[id]] = id
<1>. DEFINE store == [id \in DOMAIN t.store \cup {Crc[d]} |->
                        IF id = Crc[d] THEN d ELSE t.store[id]]
<1>1. PICK ids \in SUBSET Ids : t.store \in [ids -> Dirs]
  BY DEF PathTables, Stores
<1>2. ids \cup {Crc[d]} \in SUBSET Ids
  BY DEF Ids
<1>3. store \in [ids \cup {Crc[d]} -> Dirs]
  BY <1>1
<1>4. /\ DOMAIN store = DOMAIN t.store \cup {Crc[d]}
      /\ \A id \in DOMAIN store : Crc[store[id]] = id
  OBVIOUS
<1>. HIDE DEF store
<1>5. store \in Stores
  BY <1>2, <1>3 DEF Stores
<1>6. CASE TableExists(t, Crc[d])
  BY <1>6 DEF TableInsert, TableExists
<1>7. CASE ~ TableExists(t, Crc[d])
  <2>1. TableInsert(t, d) = [store |-> store, modified |-> TRUE]
    BY <1>7 DEF TableInsert, store
  <2>. QED
    BY <1>4, <1>5, <2>1 DEF PathTables
<1>. QED
  BY <1>6, <1>7

\* A history that is kept stays one of shown entries.
LEMMA HistoryKept ==
    ASSUME HistoryOK, UNCHANGED <<history, desktop>>, entered \subseteq entered',
           shown \in [Walls -> Nat], shown' \in [Walls -> Nat],
           \A w \in Walls : shown[w] <= shown'[w]
    PROVE  HistoryOK'
<1>1. GoodEntries(entered, shown) \subseteq GoodEntries(entered', shown')
  BY GoodEntriesGrow
<1>2. Seq(GoodEntries(entered, shown)) \subseteq Seq(GoodEntries(entered', shown'))
  BY <1>1, SeqMonotonic
<1>. QED
  BY <1>1, <1>2 DEF HistoryOK

-----------------------------------------------------------------------------
(***************************************************************************)
(* The operations on the collections.                                      *)
(***************************************************************************)
LEMMA UnusedCounts ==
    ASSUME NEW l \in SoundLibrary, NEW G
    PROVE  IsFiniteSet(Holding(l, G)) /\ Cardinality(Holding(l, G)) \in Nat
<1>1. IsFiniteSet(Holding(l, G))
  BY SpotItems, FS_Subset DEF Holding
<1>. QED
  BY <1>1, FS_CardinalityType

\* Items that are only moved stay good, and none is added.
LEMMA MovingKeeps ==
    ASSUME ItemsOK, ShownOncePerEntry, lib \in SoundLibrary, lib' \in SoundLibrary,
           shown \in [Walls -> Nat], added \in [Walls -> Nat],
           UNCHANGED <<table, entered, added, shown>>, Comes(lib', lib, {})
    PROVE  ItemsOK' /\ ShownOncePerEntry'
<1>1. ItemsOK'
  <2>. DEFINE G == GoodItems(DOMAIN table.store, entered, shown)
  <2>1. \A p \in Spots(lib) : ItemAt(lib, p) \in G
    BY DEF ItemsOK
  <2>. HIDE DEF G
  <2>2. \A p \in Spots(lib') : ItemAt(lib', p) \in G
    BY <2>1, ComesKeeps
  <2>3. G = GoodItems(DOMAIN table'.store, entered', shown')
    BY DEF G
  <2>. QED
    BY <2>2, <2>3 DEF ItemsOK
<1>2. ASSUME NEW w \in Walls
      PROVE  (shown[w] + Entries(w, {"unused"}) <= added[w])'
  <2>1. shown[w] \in Nat /\ added[w] \in Nat
        /\ shown[w] + Cardinality(Holding(lib, Unused(w))) <= added[w]
    BY DEF ShownOncePerEntry, Entries, Unused
  <2>2. Cardinality(Holding(lib', Unused(w)))
           <= Cardinality(Holding(lib, Unused(w))) + Cardinality(Holding(lib', Unused(w)) \cap {})
    BY FS_EmptySet, ComesCounts
  <2>3. Cardinality(Holding(lib', Unused(w)) \cap {}) = 0
    BY FS_EmptySet
  <2>4. /\ Cardinality(Holding(lib', Unused(w))) \in Nat
        /\ Cardinality(Holding(lib, Unused(w))) \in Nat
    BY UnusedCounts
  <2>. QED
    BY <2>1, <2>2, <2>3, <2>4 DEF Entries, Unused
<1>. QED
  BY <1>1, <1>2 DEF ShownOncePerEntry

\* An operation that only moves items.
LEMMA ChangesInv ==
    ASSUME Inv, NEW l, Changes(l), l \in SoundLibrary, Comes(l, lib, {})
    PROVE  Inv'
<1>1. /\ lib' = l /\ ~ drawing /\ ~ drawing'
      /\ UNCHANGED <<table, history, drawing, alive, desktop, entered, added, shown>>
  BY DEF Changes, Ready
<1>2. Typed'
  BY <1>1 DEF Inv, Typed
<1>3. PathsOK' /\ DrawingOK' /\ HistoryOK'
  BY <1>1 DEF Inv, PathsOK, DrawingOK, HistoryOK
<1>4. ItemsOK' /\ ShownOncePerEntry'
  BY <1>1, MovingKeeps DEF Inv, Typed
<1>. QED
  BY <1>2, <1>3, <1>4 DEF Inv

\* An operation that enters wallpapers, at most one item of each.
LEMMA EntersInv ==
    ASSUME Inv, NEW l, NEW d \in Dirs, NEW ws, Enters(l, d, ws),
           ws \subseteq Walls, l \in SoundLibrary, NEW N, IsFiniteSet(N), Comes(l, lib, N),
           \A p \in Spots(l) \cap N :
              /\ ItemAt(l, p) \in Item /\ ItemAt(l, p).value \in ws \cap Walls
              /\ ItemAt(l, p).state = "unused" /\ ItemAt(l, p).loc = Crc[d],
           \A p, q \in Spots(l) \cap N : ItemAt(l, p).value = ItemAt(l, q).value => p = q
    PROVE  Inv'
<1>1. /\ lib' = l /\ ~ drawing /\ ~ drawing' /\ table' = TableInsert(table, d)
      /\ entered' = entered \cup (ws \X {d})
      /\ added' = [w \in Walls |-> IF w \in ws THEN added[w] + 1 ELSE added[w]]
      /\ UNCHANGED <<history, drawing, alive, desktop, shown>>
  BY DEF Enters, Ready
<1>2. /\ table' \in PathTables
      /\ DOMAIN table.store \cup {Crc[d]} = DOMAIN table'.store
      /\ \A id \in DOMAIN table'.store : Crc[table'.store[id]] = id
  BY <1>1, TableInsertGrows DEF Inv, Typed, PathsOK
<1>3. Typed'
  <2>1. added' \in [Walls -> Nat] /\ entered' \subseteq Walls \X Dirs
    BY <1>1 DEF Inv, Typed
  <2>. QED
    BY <1>1, <1>2, <2>1 DEF Inv, Typed
<1>4. PathsOK' /\ DrawingOK' /\ HistoryOK'
  <2>1. shown \in [Walls -> Nat] /\ shown' \in [Walls -> Nat]
        /\ \A w \in Walls : shown[w] <= shown'[w]
    BY <1>1 DEF Inv, Typed
  <2>2. HistoryOK'
    BY <1>1, <2>1, HistoryKept DEF Inv
  <2>. QED
    BY <1>1, <1>2, <2>2 DEF Inv, PathsOK, DrawingOK
<1>5. ItemsOK'
  <2>. DEFINE G == GoodItems(DOMAIN table'.store, entered', shown)
  <2>1. GoodItems(DOMAIN table.store, entered, shown) \subseteq G
    <3>1. shown \in [Walls -> Nat] /\ DOMAIN table.store \subseteq DOMAIN table'.store
      BY <1>2 DEF Inv, Typed
    <3>2. \A w \in Walls : shown[w] <= shown[w]
      BY <3>1
    <3>3. entered \subseteq entered'
      BY <1>1
    <3>. QED
      BY <3>1, <3>2, <3>3, GoodItemsGrow
  <2>2. \A p \in Spots(lib) : ItemAt(lib, p) \in G
    BY <2>1 DEF Inv, ItemsOK
  <2>3. \A p \in Spots(l) \cap N : ItemAt(l, p) \in G
    <3>. SUFFICES ASSUME NEW p \in Spots(l) \cap N PROVE ItemAt(l, p) \in G
      OBVIOUS
    <3>. DEFINE it == ItemAt(l, p)
    <3>1. /\ it \in Item /\ it.value \in ws \cap Walls
          /\ it.state = "unused" /\ it.loc = Crc[d]
      OBVIOUS
    <3>. HIDE DEF it
    <3>2. EnteredUnder(entered', it.value, it.loc)
      BY <1>1, <3>1 DEF EnteredUnder
    <3>. QED
      BY <1>2, <3>1, <3>2 DEF GoodItems, it
  <2>. HIDE DEF G
  <2>4. \A p \in Spots(l) : ItemAt(l, p) \in G
    BY <2>2, <2>3, ComesKeeps
  <2>. QED
    BY <1>1, <2>4 DEF ItemsOK, G
<1>6. ASSUME NEW w \in Walls
      PROVE  (shown[w] + Entries(w, {"unused"}) <= added[w])'
  <2>. DEFINE new == Holding(l, Unused(w)) \cap N
  <2>1. lib \in SoundLibrary /\ shown[w] \in Nat /\ added[w] \in Nat
        /\ shown[w] + Cardinality(Holding(lib, Unused(w))) <= added[w]
    BY DEF Inv, Typed, ShownOncePerEntry, Entries, Unused
  <2>2. Cardinality(Holding(l, Unused(w)))
           <= Cardinality(Holding(lib, Unused(w))) + Cardinality(new)
    BY <2>1, ComesCounts
  <2>3. Cardinality(new) \in Nat /\ Cardinality(new) <= IF w \in ws THEN 1 ELSE 0
    <3>1. \A p \in new : p \in Spots(l) \cap N /\ ItemAt(l, p).value = w
      BY DEF Holding, Unused
    <3>2. CASE new = {}
      BY <3>2, FS_EmptySet
    <3>3. CASE new # {}
      <4>1. PICK p \in new : TRUE
        BY <3>3
      <4>2. new = {p} /\ w \in ws
        BY <3>1, <4>1
      <4>3. Cardinality(new) = 1
        BY <4>2, FS_Singleton
      <4>. QED
        BY <4>2, <4>3
    <3>. QED
      BY <3>2, <3>3
  <2>. HIDE DEF new
  <2>4. /\ Cardinality(Holding(l, Unused(w))) \in Nat
        /\ Cardinality(Holding(lib, Unused(w))) \in Nat
    BY <2>1, UnusedCounts
  <2>5. added'[w] = IF w \in ws THEN added[w] + 1 ELSE added[w]
    BY <1>1
  <2>. QED
    BY <1>1, <2>1, <2>2, <2>3, <2>4, <2>5 DEF Entries, Unused
<1>. QED
  BY <1>3, <1>4, <1>5, <1>6 DEF Inv, ShownOncePerEntry

LEMMA CreateInv ==
    ASSUME Inv, NEW n \in Names, NEW d \in Dirs, NEW listing \in Listings(MaxListing),
           Create(n, d, listing)
    PROVE  Inv'
<1>. DEFINE c == CacheOf(listing, Crc[d])
            r == LibInsert(lib, n, c).lib
<1>1. MaxListing \in Nat /\ Crc[d] \in Locs
  BY RotationAssumption DEF Ids
<1>2. PICK k \in 0..MaxListing :
        listing \in [1..k -> Walls] /\ \A i, j \in DOMAIN listing : i # j => listing[i] # listing[j]
  BY DEF Listings
<1>3. lib \in SoundLibrary /\ c \in MarkedCache
  BY <1>1, CacheOfMarked DEF Inv, Typed
<1>4. r \in SoundLibrary
  BY <1>3, InsertSound
<1>5. \A j \in DOMAIN c.items :
         /\ c.items[j] \in Item /\ c.items[j].value = listing[j] /\ j \in DOMAIN listing
         /\ c.items[j].state = "unused" /\ c.items[j].loc = Crc[d]
  <2>. SUFFICES ASSUME NEW j \in DOMAIN c.items
                PROVE  /\ c.items[j] \in Item /\ c.items[j].value = listing[j]
                       /\ j \in DOMAIN listing
                       /\ c.items[j].state = "unused" /\ c.items[j].loc = Crc[d]
    OBVIOUS
  <2>1. /\ j \in DOMAIN listing
        /\ c.items[j] = [value |-> listing[j], state |-> "unused", loc |-> Crc[d]]
    BY DEF CacheOf
  <2>2. listing[j] \in Walls
    BY <1>2, <2>1
  <2>. HIDE DEF c
  <2>. QED
    BY <1>1, <2>1, <2>2 DEF Item, States
<1>6. /\ ToSet(listing) \subseteq Walls
      /\ \A i \in DOMAIN listing : listing[i] \in ToSet(listing) \cap Walls
  BY <1>2 DEF ToSet
<1>7. CASE LibExists(lib, n)
  <2>1. Enters(lib, d, {})
    BY <1>7 DEF Create, LibInsert, Result
  <2>2. Comes(lib, lib, {}) /\ IsFiniteSet({})
    BY SameVecComes, FS_EmptySet
  <2>. QED
    BY <1>3, <2>1, <2>2, EntersInv
<1>8. CASE ~ LibExists(lib, n)
  <2>1. Enters(r, d, ToSet(listing))
    BY <1>8 DEF Create
  <2>2. r = [lib EXCEPT !.vec = Append(@, [name |-> n, cache |-> c])]
    BY <1>8 DEF LibInsert, Ok, Result
  <2>. HIDE DEF c, r
  <2>3. Extended(r, lib, c)
    BY <1>3, <2>2, AppendedSpots
  <2>. DEFINE N == EndSpots(lib, c)
  <2>4. Comes(r, lib, N)
    BY <1>3, <2>2, AppendedComes
  <2>5. N \subseteq Spots(r) /\ IsFiniteSet(N)
    <3>1. N \subseteq Spots(r)
      BY <2>3 DEF Extended
    <3>2. IsFiniteSet(Spots(r))
      BY <1>4, SpotItems
    <3>. HIDE DEF N
    <3>. QED
      BY <3>1, <3>2, FS_Subset
  <2>6. ASSUME NEW p \in N
        PROVE  /\ p = <<Len(lib.vec) + 1, p[2]>> /\ p[2] \in DOMAIN c.items
               /\ ItemAt(r, p) = c.items[p[2]]
    <3>1. p = <<Len(lib.vec) + 1, p[2]>> /\ p[2] \in DOMAIN c.items
      BY DEF EndSpots
    <3>2. \A j \in DOMAIN c.items : ItemAt(r, <<Len(lib.vec) + 1, j>>) = c.items[j]
      BY <2>3 DEF Extended
    <3>. QED
      BY <3>1, <3>2
  <2>. HIDE DEF N
  <2>7. \A p \in N : p[2] \in DOMAIN c.items /\ ItemAt(r, p) = c.items[p[2]]
    BY <2>6
  <2>8. \A p \in Spots(r) \cap N :
           /\ ItemAt(r, p) \in Item /\ ItemAt(r, p).value \in ToSet(listing) \cap Walls
           /\ ItemAt(r, p).state = "unused" /\ ItemAt(r, p).loc = Crc[d]
    BY <1>5, <1>6, <2>7
  <2>9. ASSUME NEW p \in Spots(r) \cap N, NEW q \in Spots(r) \cap N,
               ItemAt(r, p).value = ItemAt(r, q).value
        PROVE  p = q
    <3>1. /\ p[2] \in DOMAIN listing /\ q[2] \in DOMAIN listing
          /\ listing[p[2]] = listing[q[2]]
      BY <1>5, <2>9, <2>7
    <3>2. p[2] = q[2]
      BY <1>2, <3>1
    <3>. QED
      BY <2>6, <3>2
  <2>. QED
    BY <1>4, <1>6, <2>1, <2>4, <2>5, <2>8, <2>9, EntersInv
<1>. QED
  BY <1>7, <1>8

LEMMA AddInv ==
    ASSUME Inv, NEW n \in Names, NEW w \in Walls, NEW d \in Dirs, Add(n, w, d)
    PROVE  Inv'
<1>. DEFINE p == LibFind(lib, n)
            loc == Crc[d]
            r == Added(lib, p, w, loc)
            end == EndSpot(lib, p)
<1>1. lib \in SoundLibrary /\ loc \in Locs
  BY RotationAssumption DEF Inv, Typed, Ids
<1>2. p \in DOMAIN lib.vec /\ r \in SoundLibrary
  <2>1. LibExists(lib, n)
    BY DEF Add
  <2>2. p \in DOMAIN lib.vec
    BY <1>1, <2>1, LibFindFinds
  <2>3. [lib EXCEPT !.vec[LibFind(lib, n)].cache = CacheInsert(@, w, loc)] \in SoundLibrary
    BY <1>1, <2>1, AddSound
  <2>. QED
    BY <2>2, <2>3 DEF Added
<1>3. Enters(r, d, NewIn(n, w))
  BY DEF Add, Insert, Added
<1>4. NewIn(n, w) = IF CacheContains(lib.vec[p].cache, w) THEN {} ELSE {w}
  BY DEF NewIn
<1>. HIDE DEF p, loc, r
<1>5. \/ CacheContains(lib.vec[p].cache, w) /\ Comes(r, lib, {})
      \/ /\ ~ CacheContains(lib.vec[p].cache, w)
         /\ Comes(r, lib, {end})
         /\ ItemAt(r, end) = [value |-> w, state |-> "unused", loc |-> loc]
  BY <1>1, <1>2, AddComes DEF r
<1>. HIDE DEF end
<1>6. IsFiniteSet({}) /\ IsFiniteSet({end})
  BY FS_EmptySet, FS_Singleton
<1>7. CASE CacheContains(lib.vec[p].cache, w)
  <2>1. Enters(r, d, {})
    BY <1>3, <1>4, <1>7
  <2>2. Comes(r, lib, {})
    BY <1>5, <1>7, Zenon
  <2>. QED
    BY <1>1, <1>2, <1>6, <2>1, <2>2, EntersInv, SMTT(30)
<1>8. CASE ~ CacheContains(lib.vec[p].cache, w)
  <2>1. ItemAt(r, end) = [value |-> w, state |-> "unused", loc |-> loc] /\ Comes(r, lib, {end})
    BY <1>5, <1>8
  <2>2. ItemAt(r, end) \in Item
    BY <1>1, <2>1 DEF Item, States
  <2>3. \A q \in Spots(r) \cap {end} :
           /\ ItemAt(r, q) \in Item /\ ItemAt(r, q).value \in {w} \cap Walls
           /\ ItemAt(r, q).state = "unused" /\ ItemAt(r, q).loc = Crc[d]
    BY <2>1, <2>2 DEF loc
  <2>4. Enters(r, d, {w})
    BY <1>3, <1>4, <1>8
  <2>. QED
    BY <1>1, <1>2, <1>6, <2>1, <2>3, <2>4, EntersInv
<1>. QED
  BY <1>7, <1>8

\* A collection that is created without a path.
LEMMA CreateEmptyInv == ASSUME Inv, NEW n \in Names, CreateEmpty(n) PROVE Inv'
<1>. DEFINE r == LibInsert(lib, n, NewCache).lib
<1>1. lib \in SoundLibrary /\ NewCache \in MarkedCache /\ NewCache.items = <<>>
  BY NewCacheMarked DEF Inv, Typed, NewCache
<1>2. r \in SoundLibrary
  BY <1>1, InsertSound
<1>3. Comes(r, lib, {})
  <2>1. CASE LibExists(lib, n)
    BY <2>1, SameVecComes DEF LibInsert, Result
  <2>2. CASE ~ LibExists(lib, n)
    <3>1. r = [lib EXCEPT !.vec = Append(@, [name |-> n, cache |-> NewCache])]
      BY <2>2 DEF LibInsert, Ok, Result
    <3>. HIDE DEF r
    <3>2. Comes(r, lib, EndSpots(lib, NewCache))
      BY <1>1, <3>1, AppendedComes
    <3>3. EndSpots(lib, NewCache) = {}
      BY <1>1 DEF EndSpots
    <3>. QED
      BY <3>2, <3>3
  <2>. QED
    BY <2>1, <2>2
<1>. QED
  BY <1>2, <1>3, ChangesInv DEF CreateEmpty

LEMMA CollectionsInv == Inv /\ Collections => Inv'
<1>. SUFFICES ASSUME Inv, Collections PROVE Inv'
  OBVIOUS
<1>1. lib \in SoundLibrary
  BY DEF Inv, Typed
<1>2. ASSUME NEW n \in Names, Activate(n) PROVE Inv'
  BY <1>1, <1>2, ChangesInv, ChangeActiveSound, ChangeActiveComes DEF Activate
<1>3. ASSUME NEW n \in Names, RemoveCollection(n) PROVE Inv'
  <2>1. Comes(LibRemove(lib, n).lib, lib, {})
    BY <1>1, RemoveComes, NamedComes
  <2>. QED
    BY <1>1, <1>3, <2>1, ChangesInv, RemoveSound DEF RemoveCollection
<1>4. ASSUME NEW n \in Names, NEW w \in Walls, RemoveWallpaper(n, w) PROVE Inv'
  BY <1>1, <1>4, ChangesInv, RemoveItemSound, RemoveItemComes DEF RemoveWallpaper
<1>5. ASSUME NEW n \in Names, NEW w \in Walls, NEW m \in Names, Move(w, n, m) PROVE Inv'
  BY <1>1, <1>5, ChangesInv, MoveSound, MoveComes DEF Move
<1>6. ASSUME NEW n \in Names, NEW m \in Names, Rename(n, m) PROVE Inv'
  BY <1>1, <1>6, ChangesInv, RenameSound, RenameComes DEF Rename
<1>7. ASSUME NEW n \in Names, NEW m \in Names, Merge(n, m) PROVE Inv'
  BY <1>1, <1>7, ChangesInv, MergeSound, MergeComes DEF Merge
<1>. QED
  BY <1>2, <1>3, <1>4, <1>5, <1>6, <1>7, CreateInv, CreateEmptyInv, AddInv DEF Collections

-----------------------------------------------------------------------------
(***************************************************************************)
(* The state of one item changes: what next_wall and mark_favorate do.     *)
(***************************************************************************)
StateSet(r, l, s, st) ==
    /\ r \in SoundLibrary /\ r.active = l.active
    /\ \A n : LibExists(r, n) <=> LibExists(l, n)
    /\ Spots(r) = Spots(l) /\ s \in Spots(l)
    /\ \A q \in Spots(l) : ItemAt(r, q) = IF q = s THEN [ItemAt(l, q) EXCEPT !.state = st]
                                                   ELSE ItemAt(l, q)

\* An update of one collection leaves the names and the active name.
LEMMA UpdateKeepsNames ==
    ASSUME NEW l \in SoundLibrary, NEW p \in DOMAIN l.vec, NEW c
    PROVE  /\ [l EXCEPT !.vec[p].cache = c].active = l.active
           /\ \A n : LibExists([l EXCEPT !.vec[p].cache = c], n) <=> LibExists(l, n)
<1>. DEFINE r == [l EXCEPT !.vec[p].cache = c]
<1>1. DOMAIN r.vec = DOMAIN l.vec /\ \A i \in DOMAIN l.vec : r.vec[i].name = l.vec[i].name
  BY UpdatedVec
<1>2. r.active = l.active
  BY DEF SoundLibrary
<1>. HIDE DEF r
<1>3. \A n : LibExists(r, n) <=> LibExists(l, n)
  BY <1>1 DEF LibExists
<1>. QED
  BY <1>2, <1>3 DEF r

LEMMA SetStateSets ==
    ASSUME NEW l \in SoundLibrary, NEW p \in DOMAIN l.vec,
           NEW k \in DOMAIN l.vec[p].cache.items, NEW st \in States
    PROVE  StateSet([l EXCEPT !.vec[p].cache = CacheSetState(@, k, st)], l, <<p, k>>, st)
<1>. DEFINE old == l.vec[p].cache
            c == CacheSetState(old, k, st)
            r == [l EXCEPT !.vec[p].cache = c]
<1>1. old \in MarkedCache
  BY SoundEntries DEF MarkedEntry
<1>2. c \in MarkedCache
  BY <1>1, CacheSetStateMarked
<1>3. /\ DOMAIN c.items = DOMAIN old.items
      /\ \A j \in DOMAIN old.items :
            c.items[j] = IF j = k THEN [old.items[j] EXCEPT !.state = st] ELSE old.items[j]
  BY DEF CacheSetState
<1>. HIDE DEF c
<1>4. r \in SoundLibrary
  BY <1>2, UpdateIsSound
<1>5. r.active = l.active /\ \A n : LibExists(r, n) <=> LibExists(l, n)
  BY UpdateKeepsNames
<1>6. /\ DOMAIN r.vec = DOMAIN l.vec
      /\ \A i \in DOMAIN l.vec : r.vec[i].cache = IF i = p THEN c ELSE l.vec[i].cache
  BY UpdatedVec
<1>. HIDE DEF r
<1>7. \A i \in DOMAIN l.vec : DOMAIN r.vec[i].cache.items = DOMAIN l.vec[i].cache.items
  BY <1>3, <1>6
<1>8. Spots(r) = Spots(l)
  BY <1>6, <1>7 DEF Spots
<1>9. <<p, k>> \in Spots(l)
  BY SpotsAre
<1>10. ASSUME NEW q \in Spots(l)
       PROVE  ItemAt(r, q) = IF q = <<p, k>> THEN [ItemAt(l, q) EXCEPT !.state = st]
                                             ELSE ItemAt(l, q)
  <2>1. /\ q = <<q[1], q[2]>> /\ q[1] \in DOMAIN l.vec
        /\ q[2] \in DOMAIN l.vec[q[1]].cache.items
    BY SpotsAre
  <2>2. q = <<p, k>> <=> q[1] = p /\ q[2] = k
    BY <2>1
  <2>. QED
    BY <1>3, <1>6, <2>1, <2>2 DEF ItemAt
<1>. QED
  BY <1>4, <1>5, <1>8, <1>9, <1>10 DEF StateSet, r, c

\* The items stay good when the wallpaper at the spot has been shown.
LEMMA SettingKeeps ==
    ASSUME NEW l, NEW r, NEW s, NEW st \in {"used", "favorate"}, StateSet(r, l, s, st),
           NEW known, NEW en, NEW sh,
           \A q \in Spots(l) : ItemAt(l, q) \in GoodItems(known, en, sh),
           sh[ItemAt(l, s).value] > 0
    PROVE  \A q \in Spots(r) : ItemAt(r, q) \in GoodItems(known, en, sh)
<1>. SUFFICES ASSUME NEW q \in Spots(l) PROVE ItemAt(r, q) \in GoodItems(known, en, sh)
  BY DEF StateSet
<1>1. CASE q # s
  BY <1>1 DEF StateSet
<1>2. CASE q = s
  <2>. DEFINE it == ItemAt(l, s)
  <2>1. ItemAt(r, s) = [it EXCEPT !.state = st]
    BY DEF StateSet
  <2>2. /\ it \in Item /\ it.value \in Walls
        /\ EnteredUnder(en, it.value, it.loc) /\ it.loc \in known
    BY <1>2 DEF GoodItems
  <2>. HIDE DEF it
  <2>3. /\ [it EXCEPT !.state = st] \in Item
        /\ [it EXCEPT !.state = st].value = it.value /\ [it EXCEPT !.state = st].loc = it.loc
        /\ [it EXCEPT !.state = st].state = st
    BY <2>2 DEF Item, States
  <2>. QED
    BY <1>2, <2>1, <2>2, <2>3 DEF GoodItems, it
<1>. QED
  BY <1>1, <1>2

\* The item is no longer an unused one.
LEMMA SettingUses ==
    ASSUME NEW l \in SoundLibrary, NEW r, NEW s, NEW st \in {"used", "favorate"},
           StateSet(r, l, s, st), NEW w
    PROVE  /\ Cardinality(Holding(r, Unused(w))) \in Nat
           /\ Cardinality(Holding(l, Unused(w))) \in Nat
           /\ Cardinality(Holding(r, Unused(w))) <= Cardinality(Holding(l, Unused(w)))
           /\ ItemAt(l, s).state = "unused" /\ ItemAt(l, s).value = w
                => Cardinality(Holding(r, Unused(w))) = Cardinality(Holding(l, Unused(w))) - 1
<1>. DEFINE before == Holding(l, Unused(w))
            after  == Holding(r, Unused(w))
            it     == ItemAt(l, s)
<1>1. Spots(r) = Spots(l) /\ \A q \in Spots(l) : q # s => ItemAt(r, q) = ItemAt(l, q)
  BY DEF StateSet
<1>2. s \in Spots(l) /\ it \in Item /\ ItemAt(r, s).state = st
  <2>1. s \in Spots(l) /\ ItemAt(r, s) = [it EXCEPT !.state = st]
    BY DEF StateSet
  <2>2. it \in Item
    BY <2>1, SpotItems
  <2>. HIDE DEF it
  <2>. QED
    BY <2>1, <2>2 DEF Item
<1>3. s \notin after
  <2>1. \A x \in Unused(w) : x.state = "unused"
    BY DEF Unused
  <2>. QED
    BY <1>2, <2>1 DEF Holding
<1>4. after = before \ {s}
  BY <1>1, <1>3 DEF Holding
<1>5. it.state = "unused" /\ it.value = w => s \in before
  <2>1. it.state = "unused" /\ it.value = w => it \in Unused(w)
    BY <1>2 DEF Item, Unused
  <2>. QED
    BY <1>2, <2>1 DEF Holding
<1>6. IsFiniteSet(before) /\ Cardinality(before) \in Nat
  BY UnusedCounts
<1>. HIDE DEF before, after, it
<1>7. IsFiniteSet(after)
  BY <1>4, <1>6, FS_Subset
<1>8. Cardinality(after) \in Nat
  BY <1>7, FS_CardinalityType
<1>9. CASE s \in before
  <2>1. Cardinality(before \ {s}) = Cardinality(before) - 1
    BY <1>6, <1>9, FS_RemoveElement
  <2>. QED
    BY <1>4, <1>6, <1>8, <2>1 DEF before, after, it
<1>10. CASE s \notin before
  <2>1. after = before
    BY <1>4, <1>10
  <2>. QED
    BY <1>5, <1>6, <1>10, <2>1 DEF before, after, it
<1>. QED
  BY <1>9, <1>10

-----------------------------------------------------------------------------
(***************************************************************************)
(* The steps of next_wall.                                                 *)
(***************************************************************************)
LEMMA NextWallInv == Inv /\ NextWall => Inv'
<1>. SUFFICES ASSUME Inv, NextWall PROVE Inv'
  OBVIOUS
<1>. DEFINE n == lib.active
            p == LibFind(lib, n)
            l == LibGetCache(lib, n).lib
<1>1. /\ lib' = l /\ LibExists(lib, n) /\ drawing' = TRUE
      /\ UNCHANGED <<table, history, alive, desktop, entered, added, shown>>
  BY DEF NextWall
<1>2. lib \in SoundLibrary /\ p \in DOMAIN lib.vec /\ n \in Names
  <2>1. lib \in SoundLibrary /\ p \in DOMAIN lib.vec /\ lib.vec[p].name = n
    BY <1>1, LibFindFinds DEF Inv, Typed
  <2>. QED
    BY <2>1, SoundEntries DEF MarkedEntry
<1>3. l \in SoundLibrary /\ Comes(l, lib, {})
  BY <1>2, GetCacheSound, GetCacheComes DEF Strings
<1>4. l = [lib EXCEPT !.vec[p].cache = CacheTouch(@)]
  BY <1>1 DEF LibGetCache, Ok, Result
<1>. HIDE DEF l, p
<1>5. LibExists(l, l.active)
  <2>1. l = [lib EXCEPT !.vec[p].cache = CacheTouch(lib.vec[p].cache)]
    BY <1>4
  <2>2. l.active = lib.active /\ \A m : LibExists(l, m) <=> LibExists(lib, m)
    BY <1>2, <2>1, UpdateKeepsNames
  <2>. QED
    BY <1>1, <2>2
<1>6. Typed'
  BY <1>1, <1>3 DEF Inv, Typed
<1>7. PathsOK' /\ DrawingOK' /\ HistoryOK'
  BY <1>1, <1>5 DEF Inv, PathsOK, DrawingOK, HistoryOK
<1>8. ItemsOK' /\ ShownOncePerEntry'
  BY <1>1, <1>2, <1>3, MovingKeeps DEF Inv, Typed
<1>. QED
  BY <1>6, <1>7, <1>8 DEF Inv

\* The item that is drawn, at its spot.
LEMMA DrawnItem ==
    ASSUME Inv, NEW idx, CanDraw(idx)
    PROVE  LET p == LibFind(lib, lib.active)
           IN  /\ p \in DOMAIN lib.vec /\ idx + 1 \in DOMAIN lib.vec[p].cache.items
               /\ <<p, idx + 1>> \in Spots(lib)
               /\ ItemAt(lib, <<p, idx + 1>>) = ActiveItems[idx + 1]
               /\ ActiveItems[idx + 1] \in GoodItems(DOMAIN table.store, entered, shown)
<1>. DEFINE p == LibFind(lib, lib.active)
<1>1. lib \in SoundLibrary /\ p \in DOMAIN lib.vec
  BY LibFindFinds DEF Inv, Typed, DrawingOK, CanDraw
<1>2. ActiveItems = lib.vec[p].cache.items
  BY DEF ActiveItems
<1>. HIDE DEF p
<1>3. ActiveItems \in Seq(Item)
  BY <1>1, <1>2, SoundEntries DEF MarkedEntry, MarkedCache, Cache
<1>4. idx + 1 \in DOMAIN ActiveItems
  BY <1>3 DEF CanDraw
<1>5. <<p, idx + 1>> \in Spots(lib) /\ ItemAt(lib, <<p, idx + 1>>) = ActiveItems[idx + 1]
  BY <1>1, <1>2, <1>4, SpotsAre
<1>6. ActiveItems[idx + 1] \in GoodItems(DOMAIN table.store, entered, shown)
  BY <1>5 DEF Inv, ItemsOK
<1>. QED
  BY <1>1, <1>2, <1>4, <1>5, <1>6 DEF p

\* An entry that is shown goes to the end of the history.
LEMMA Returned ==
    ASSUME NEW h, NEW e, NEW en, NEW sh \in [Walls -> Nat], NEW later \in [Walls -> Nat],
           \A w \in Walls : sh[w] <= later[w],
           h \in Seq(GoodEntries(en, sh)), e \in GoodEntries(en, later)
    PROVE  Append(h, e) \in Seq(GoodEntries(en, later))
<1>1. h \in Seq(GoodEntries(en, later))
  BY GoodEntriesGrow, SeqMonotonic
<1>. QED
  BY <1>1, AppendProperties

LEMMA DrawInv == ASSUME Inv, NEW idx, Draw(idx) PROVE Inv'
<1>. DEFINE p    == LibFind(lib, lib.active)
            k    == idx + 1
            item == ActiveItems[k]
            e    == [wall |-> item.value, path |-> table.store[item.loc]]
<1>1. /\ CanDraw(idx) /\ item.state = "unused" /\ item.loc \in DOMAIN table.store
      /\ history' = Append(history, e) /\ desktop' = e /\ drawing' = FALSE
      /\ shown' = [shown EXCEPT ![item.value] = @ + 1]
      /\ lib' = [lib EXCEPT !.vec[p].cache = CacheSetState(@, k, "used")]
      /\ UNCHANGED <<table, alive, entered, added>>
  BY DEF Draw, Finds, CanDraw, Return
<1>2. /\ p \in DOMAIN lib.vec /\ k \in DOMAIN lib.vec[p].cache.items
      /\ ItemAt(lib, <<p, k>>) = item /\ item \in GoodItems(DOMAIN table.store, entered, shown)
  BY <1>1, DrawnItem
<1>. HIDE DEF p, k, item
<1>3. lib \in SoundLibrary /\ table \in PathTables
      /\ shown \in [Walls -> Nat] /\ added \in [Walls -> Nat]
  BY DEF Inv, Typed
<1>4. StateSet(lib', lib, <<p, k>>, "used")
  BY <1>1, <1>2, <1>3, SetStateSets DEF States
<1>5. item.value \in Walls /\ EnteredUnder(entered, item.value, item.loc)
  BY <1>2 DEF GoodItems
<1>6. /\ shown' \in [Walls -> Nat] /\ shown'[item.value] = shown[item.value] + 1
      /\ \A w \in Walls : w # item.value => shown'[w] = shown[w]
      /\ \A w \in Walls : shown[w] <= shown'[w]
  BY <1>1, <1>3, <1>5
<1>7. Typed'
  <2>1. lib' \in SoundLibrary
    BY <1>4 DEF StateSet
  <2>. QED
    BY <1>1, <1>6, <2>1 DEF Inv, Typed
<1>8. PathsOK' /\ DrawingOK'
  BY <1>1 DEF Inv, PathsOK, DrawingOK
<1>9. ItemsOK'
  <2>1. GoodItems(DOMAIN table.store, entered, shown)
           \subseteq GoodItems(DOMAIN table.store, entered, shown')
    BY <1>3, <1>6, GoodItemsGrow
  <2>2. \A q \in Spots(lib) : ItemAt(lib, q) \in GoodItems(DOMAIN table.store, entered, shown')
    BY <2>1 DEF Inv, ItemsOK
  <2>3. shown'[ItemAt(lib, <<p, k>>).value] > 0
    BY <1>2, <1>3, <1>5, <1>6
  <2>4. \A q \in Spots(lib') : ItemAt(lib', q) \in GoodItems(DOMAIN table.store, entered, shown')
    BY <1>4, <2>2, <2>3, SettingKeeps
  <2>. QED
    BY <1>1, <2>4 DEF ItemsOK
<1>10. HistoryOK'
  <2>1. table.store[item.loc] \in Dirs /\ Crc[table.store[item.loc]] = item.loc
    BY <1>1, <1>3 DEF Inv, PathsOK, PathTables, Stores
  <2>2. e \in GoodEntries(entered, shown')
    BY <1>3, <1>5, <1>6, <2>1 DEF GoodEntries, Drawn
  <2>. HIDE DEF e
  <2>3. Append(history, e) \in Seq(GoodEntries(entered, shown'))
    BY <1>3, <1>6, <2>2, Returned DEF Inv, HistoryOK
  <2>. QED
    BY <1>1, <2>2, <2>3 DEF HistoryOK
<1>11. ASSUME NEW w \in Walls
       PROVE  (shown[w] + Entries(w, {"unused"}) <= added[w])'
  <2>1. shown[w] + Cardinality(Holding(lib, Unused(w))) <= added[w]
    BY DEF Inv, ShownOncePerEntry, Entries, Unused
  <2>2. /\ Cardinality(Holding(lib', Unused(w))) \in Nat
        /\ Cardinality(Holding(lib, Unused(w))) \in Nat
        /\ Cardinality(Holding(lib', Unused(w))) <= Cardinality(Holding(lib, Unused(w)))
        /\ w = item.value => Cardinality(Holding(lib', Unused(w)))
                               = Cardinality(Holding(lib, Unused(w))) - 1
    BY <1>1, <1>2, <1>3, <1>4, SettingUses
  <2>3. shown'[w] = IF w = item.value THEN shown[w] + 1 ELSE shown[w]
    BY <1>6
  <2>4. shown[w] \in Nat /\ added[w] \in Nat /\ added'[w] = added[w]
    BY <1>1, <1>3
  <2>5. shown'[w] + Cardinality(Holding(lib', Unused(w))) <= added'[w]
    BY <2>1, <2>2, <2>3, <2>4
  <2>. QED
    BY <2>5 DEF Entries, Unused
<1>. QED
  BY <1>7, <1>8, <1>9, <1>10, <1>11 DEF Inv, ShownOncePerEntry

LEMMA DrawBehindInv == Inv /\ DrawBehind => Inv'
<1>. SUFFICES ASSUME Inv, DrawBehind, ~ Dies PROVE Inv'
  BY DiesInv
<1>1. PICK id \in DOMAIN table.store :
        LET e == [wall |-> NoString, path |-> table.store[id]]
        IN  /\ history' = Append(history, e) /\ desktop' = e /\ drawing' = FALSE
            /\ UNCHANGED <<lib, table, alive, entered, added, shown>>
  BY DEF DrawBehind, Return
<1>. DEFINE e == [wall |-> NoString, path |-> table.store[id]]
<1>2. shown \in [Walls -> Nat] /\ \A w \in Walls : shown[w] <= shown[w]
  BY DEF Inv, Typed
<1>3. e \in GoodEntries(entered, shown)
  <2>1. table.store[id] \in Dirs
    BY DEF Inv, Typed, PathTables, Stores
  <2>. QED
    BY <2>1 DEF GoodEntries, Drawn
<1>. HIDE DEF e
<1>4. Append(history, e) \in Seq(GoodEntries(entered, shown))
  BY <1>2, <1>3, Returned DEF Inv, HistoryOK
<1>5. HistoryOK'
  BY <1>1, <1>3, <1>4 DEF HistoryOK, e
<1>6. Typed' /\ PathsOK' /\ DrawingOK' /\ ItemsOK' /\ ShownOncePerEntry'
  BY <1>1 DEF Inv, Typed, PathsOK, DrawingOK, ItemsOK, ShownOncePerEntry, Entries
<1>. QED
  BY <1>5, <1>6 DEF Inv

-----------------------------------------------------------------------------
(***************************************************************************)
(* previous_wall and mark_favorate.                                        *)
(***************************************************************************)
LEMMA PreviousWallInv == Inv /\ PreviousWall => Inv'
<1>. SUFFICES ASSUME Inv, PreviousWall PROVE Inv'
  OBVIOUS
<1>1. /\ history # <<>> /\ ~ drawing'
      /\ desktop' = history[Len(history)]
      /\ history' = SubSeq(history, 1, Len(history) - 1)
      /\ UNCHANGED <<lib, table, drawing, alive, entered, added, shown>>
  BY DEF PreviousWall, Ready
<1>2. history \in Seq(GoodEntries(entered, shown)) /\ Len(history) \in Nat \ {0}
  BY <1>1, EmptySeq, LenProperties DEF Inv, HistoryOK
<1>3. desktop' \in GoodEntries(entered, shown) /\ history' \in Seq(GoodEntries(entered, shown))
  <2>1. history[Len(history)] \in GoodEntries(entered, shown)
    BY <1>2, ElementOfSeq
  <2>2. \A i \in 1..(Len(history) - 1) : history[i] \in GoodEntries(entered, shown)
    BY <1>2, ElementOfSeq
  <2>3. SubSeq(history, 1, Len(history) - 1) \in Seq(GoodEntries(entered, shown))
    BY <1>2, <2>2, SubSeqProperties
  <2>. QED
    BY <1>1, <2>1, <2>3
<1>4. HistoryOK'
  BY <1>1, <1>3 DEF HistoryOK
<1>5. Typed' /\ PathsOK' /\ DrawingOK' /\ ItemsOK' /\ ShownOncePerEntry'
  BY <1>1 DEF Inv, Typed, PathsOK, DrawingOK, ItemsOK, ShownOncePerEntry, Entries
<1>. QED
  BY <1>4, <1>5 DEF Inv

LEMMA MarkFavorateInv == Inv /\ MarkFavorate => Inv'
<1>. SUFFICES ASSUME Inv, MarkFavorate PROVE Inv'
  OBVIOUS
<1>. DEFINE p == lib.current + 1
            k == CacheFind(Current, Recent)
<1>1. /\ history # <<>> /\ lib.current < Len(lib.vec) /\ CacheContains(Current, Recent)
      /\ lib' = [lib EXCEPT !.vec[p].cache = CacheSetState(@, k, "favorate")]
      /\ ~ drawing /\ ~ drawing'
      /\ UNCHANGED <<table, history, drawing, alive, desktop, entered, added, shown>>
  BY DEF MarkFavorate, Markable, Listed, MarkAt, Ready
<1>2. /\ lib \in SoundLibrary /\ shown \in [Walls -> Nat] /\ added \in [Walls -> Nat]
      /\ table' = table /\ entered' = entered /\ shown' = shown /\ added' = added
  BY <1>1 DEF Inv, Typed
<1>3. p \in DOMAIN lib.vec
  BY <1>1, <1>2, SoundEntries DEF SoundLibrary
<1>4. /\ k \in DOMAIN lib.vec[p].cache.items
      /\ lib.vec[p].cache.items[k].value = Recent
  <2>1. lib.vec[p].cache \in Cache
    BY <1>2, <1>3, SoundEntries DEF MarkedEntry, MarkedCache
  <2>2. Current = lib.vec[p].cache
    BY DEF Current
  <2>. HIDE DEF p
  <2>. QED
    BY <1>1, <2>1, <2>2, CacheFindFinds
<1>. HIDE DEF p, k
<1>5. /\ StateSet(lib', lib, <<p, k>>, "favorate") /\ ItemAt(lib, <<p, k>>).value = Recent
      /\ <<p, k>> \in Spots(lib)
  <2>1. StateSet(lib', lib, <<p, k>>, "favorate")
    BY <1>1, <1>2, <1>3, <1>4, SetStateSets DEF States
  <2>. QED
    BY <1>4, <2>1 DEF ItemAt, StateSet
<1>6. shown[Recent] > 0
  <2>1. Recent \in Walls
    BY <1>5 DEF Inv, ItemsOK, GoodItems
  <2>2. history[Len(history)] \in GoodEntries(entered, shown)
    BY <1>1, EmptySeq, LenProperties, ElementOfSeq DEF Inv, HistoryOK
  <2>3. Recent # NoString
    BY <2>1, RotationAssumption
  <2>. QED
    BY <2>2, <2>3 DEF Recent, GoodEntries
<1>7. Typed'
  BY <1>1, <1>5 DEF Inv, Typed, StateSet
<1>8. PathsOK' /\ DrawingOK' /\ HistoryOK'
  BY <1>1 DEF Inv, PathsOK, DrawingOK, HistoryOK
<1>9. ItemsOK'
  <2>1. \A q \in Spots(lib) : ItemAt(lib, q) \in GoodItems(DOMAIN table.store, entered, shown)
    BY DEF Inv, ItemsOK
  <2>2. \A q \in Spots(lib') : ItemAt(lib', q) \in GoodItems(DOMAIN table.store, entered, shown)
    BY <1>5, <1>6, <2>1, SettingKeeps
  <2>. QED
    BY <1>2, <2>2 DEF ItemsOK
<1>10. ASSUME NEW w \in Walls
       PROVE  (shown[w] + Entries(w, {"unused"}) <= added[w])'
  <2>1. shown[w] + Cardinality(Holding(lib, Unused(w))) <= added[w]
    BY DEF Inv, ShownOncePerEntry, Entries, Unused
  <2>2. /\ Cardinality(Holding(lib', Unused(w))) \in Nat
        /\ Cardinality(Holding(lib, Unused(w))) \in Nat
        /\ Cardinality(Holding(lib', Unused(w))) <= Cardinality(Holding(lib, Unused(w)))
    BY <1>2, <1>5, SettingUses
  <2>3. shown'[w] + Cardinality(Holding(lib', Unused(w))) <= added'[w]
    BY <1>2, <2>1, <2>2
  <2>. QED
    BY <2>3 DEF Entries, Unused
<1>. QED
  BY <1>7, <1>8, <1>9, <1>10 DEF Inv, ShownOncePerEntry

LEMMA MarkBehindInv == Inv /\ MarkBehind => Inv'
<1>. SUFFICES ASSUME Inv, MarkBehind, ~ Dies PROVE Inv'
  BY DiesInv
<1>. DEFINE p == lib.current + 1
            touched == [lib EXCEPT !.vec[p].cache = CacheTouch(@)]
<1>1. /\ lib' = IF lib.current < Len(lib.vec) THEN touched ELSE lib
      /\ UNCHANGED <<table, history, drawing, alive, desktop, entered, added, shown>>
      /\ ~ drawing
  <2>1. ~ drawing
    BY Zenon DEF MarkBehind, Markable, Ready
  <2>2. /\ lib' = IF lib.current < Len(lib.vec) THEN touched ELSE lib
        /\ UNCHANGED <<table, history, drawing, alive, desktop, entered, added, shown>>
    BY Zenon DEF MarkBehind
  <2>. QED
    BY <2>1, <2>2
<1>2. lib \in SoundLibrary
  BY DEF Inv, Typed
<1>3. lib' \in SoundLibrary /\ Comes(lib', lib, {})
  <2>1. CASE lib.current < Len(lib.vec)
    <3>1. p \in DOMAIN lib.vec
      BY <1>2, <2>1, SoundEntries DEF SoundLibrary
    <3>2. lib.vec[p].cache \in MarkedCache
      BY <1>2, <3>1, SoundEntries DEF MarkedEntry
    <3>. HIDE DEF p
    <3>3. CacheTouch(lib.vec[p].cache) \in MarkedCache
      BY <3>2, CacheTouchMarked
    <3>4. [lib EXCEPT !.vec[p].cache = CacheTouch(lib.vec[p].cache)] \in SoundLibrary
      BY <1>2, <3>1, <3>3, UpdateIsSound
    <3>5. Comes(touched, lib, {})
      BY <1>2, <3>1, TouchComes
    <3>. QED
      BY <1>1, <2>1, <3>4, <3>5
  <2>2. CASE ~ (lib.current < Len(lib.vec))
    <3>1. Comes(lib, lib, {})
      BY SameVecComes
    <3>. QED
      BY <1>1, <1>2, <2>2, <3>1
  <2>. QED
    BY <2>1, <2>2
<1>. HIDE DEF touched, p
<1>4. Typed'
  BY <1>1, <1>3 DEF Inv, Typed
<1>5. PathsOK' /\ DrawingOK' /\ HistoryOK'
  BY <1>1 DEF Inv, PathsOK, DrawingOK, HistoryOK
<1>6. ItemsOK' /\ ShownOncePerEntry'
  BY <1>1, <1>3, MovingKeeps DEF Inv, Typed
<1>. QED
  BY <1>4, <1>5, <1>6 DEF Inv

LEMMA NextInv == Inv /\ [Next]_vars => Inv'
<1>. SUFFICES ASSUME Inv, [Next]_vars PROVE Inv'
  OBVIOUS
<1>1. CASE UNCHANGED vars
  BY <1>1 DEF vars, Inv, Typed, PathsOK, DrawingOK, ItemsOK, HistoryOK, ShownOncePerEntry, Entries
<1>2. CASE Collections
  BY <1>2, CollectionsInv
<1>3. CASE NextWall
  BY <1>3, NextWallInv
<1>4. CASE Found
  BY <1>4, DrawInv DEF Found
<1>5. CASE DrawBehind
  BY <1>5, DrawBehindInv
<1>6. CASE PreviousWall
  BY <1>6, PreviousWallInv
<1>7. CASE MarkFavorate
  BY <1>7, MarkFavorateInv
<1>8. CASE MarkBehind
  BY <1>8, MarkBehindInv
<1>. QED
  BY <1>1, <1>2, <1>3, <1>4, <1>5, <1>6, <1>7, <1>8 DEF Next

-----------------------------------------------------------------------------
\* Whatever is created, merged, moved, marked and drawn, the items of the
\* collections lie in entered directories, those that are not unused were
\* shown, and no wallpaper was shown more often than it was entered.
THEOREM Invariant == Spec => []Inv
<1>. QED
  BY InitInv, NextInv, PTL DEF Spec

\* Every variable of the manager keeps its type.
THEOREM TypeSafe == Spec => []TypeOK
<1>1. Inv => TypeOK
  <2>. SUFFICES ASSUME Inv PROVE TypeOK
    OBVIOUS
  <2>1. lib \in Library
    BY SoundIsTyped DEF Inv, Typed
  <2>2. Seq(GoodEntries(entered, shown)) \subseteq Seq(Drawn) /\ GoodEntries(entered, shown) \subseteq Drawn
    BY SeqMonotonic DEF GoodEntries
  <2>. QED
    BY <2>1, <2>2 DEF Inv, Typed, HistoryOK, TypeOK
<1>. QED
  BY <1>1, Invariant, PTL

\* next_wall always finds the directory of the wallpaper that it draws in
\* m_path_buf: its value() never throws.
THEOREM FindsTheDirectory == Spec => []DrawNeverThrows
<1>1. Inv => DrawNeverThrows
  BY DrawnItem DEF DrawNeverThrows, GoodItems
<1>. QED
  BY <1>1, Invariant, PTL

\* What is marked as used or as a favourite, in whatever collection it has
\* come to lie, has been returned by next_wall.
THEOREM MarkedWereShown == Spec => []UsedWereShown
<1>1. Inv => UsedWereShown
  <2>. SUFFICES ASSUME Inv, NEW w \in Walls, Entries(w, {"used", "favorate"}) > 0
                PROVE  shown[w] > 0
    BY DEF UsedWereShown
  <2>. DEFINE at == Holding(lib, [value : {w}, state : {"used", "favorate"}, loc : Locs])
  <2>1. at # {}
    <3>1. Cardinality({}) = 0
      BY FS_EmptySet
    <3>2. Entries(w, {"used", "favorate"}) = Cardinality(at)
      BY DEF Entries
    <3>. HIDE DEF at
    <3>. QED
      BY <3>1, <3>2
  <2>2. PICK p \in at : TRUE
    BY <2>1
  <2>3. ItemAt(lib, p) \in GoodItems(DOMAIN table.store, entered, shown)
    BY DEF Holding, Inv, ItemsOK
  <2>4. ItemAt(lib, p).value = w /\ ItemAt(lib, p).state # "unused"
    BY DEF Holding
  <2>. QED
    BY <2>3, <2>4 DEF GoodItems
<1>. QED
  BY <1>1, Invariant, PTL

\* next_wall returns a wallpaper at most as often as it was entered, whatever
\* add_dir, merge, move and the marks do in between.
THEOREM EntriesComeUpOnce == Spec => []ShownOncePerEntry
<1>. QED
  BY Invariant, PTL DEF Inv

\* A wallpaper is shown with the directory that it was entered from, or with
\* one of the same CRC32, whatever is merged, moved and removed in between.
THEOREM ShownWithItsHash == Spec => []ShownIsThere
<1>1. Inv => ShownIsThere
  BY DEF Inv, HistoryOK, GoodEntries, Nothing, ShownIsThere
<1>. QED
  BY <1>1, Invariant, PTL

\* As long as no two directories have the same CRC32, it is a directory that
\* the wallpaper was entered from.
NoCollision == \A d, e \in Dirs : Crc[d] = Crc[e] => d = e

ShownFromThere == desktop.wall # NoString => <<desktop.wall, desktop.path>> \in entered

THEOREM ShownWhereItIs == NoCollision => (Spec => []ShownFromThere)
<1>. SUFFICES ASSUME NoCollision PROVE Spec => []ShownFromThere
  OBVIOUS
<1>1. Inv => ShownFromThere
  <2>. SUFFICES ASSUME Inv, desktop.wall # NoString
                PROVE  <<desktop.wall, desktop.path>> \in entered
    BY DEF ShownFromThere
  <2>1. desktop \in GoodEntries(entered, shown)
    BY DEF Inv, HistoryOK, Nothing
  <2>2. desktop.path \in Dirs /\ EnteredUnder(entered, desktop.wall, Crc[desktop.path])
    BY <2>1 DEF GoodEntries, Drawn
  <2>. QED
    BY <2>2 DEF NoCollision, EnteredUnder
<1>. QED
  BY <1>1, Invariant, PTL
=============================================================================
