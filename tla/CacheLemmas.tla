----------------------------- MODULE CacheLemmas -----------------------------
(***************************************************************************)
(* What the operations on a cache and on a library preserve, for any sets  *)
(* of names, wallpapers and directories.                                   *)
(***************************************************************************)
EXTENDS Effects, FiniteSetTheorems, SequenceTheorems, TLAPS

\* The caches and the libraries that the operations keep to: a cache that
\* holds something is marked, and names are unique.
MarkedCache == {c \in Cache : Marked(c)}
MarkedEntry == [name : Names, cache : MarkedCache]

SoundLibrary ==
    {l \in [vec : Seq(MarkedEntry), current : Nat, active : Strings] : DistinctNames(l.vec)}

SoundDocuments == {doc \in Documents : DistinctNames(doc.libraries)}

-----------------------------------------------------------------------------
\* In a finite set of naturals ranks are distinct, and as there are as many of them
\* as elements, the k-th smallest element exists.
LEMMA RankIsPosition ==
    ASSUME NEW S \in SUBSET Nat, IsFiniteSet(S), NEW i \in S
    PROVE  /\ RankIn(S, i) \in 1..Cardinality(S)
           /\ \A j \in S : RankIn(S, j) = RankIn(S, i) => j = i
<1>. DEFINE upto(j) == {h \in S : h <= j}
<1>1. \A j \in S : /\ IsFiniteSet(upto(j)) /\ upto(j) \subseteq S /\ j \in upto(j)
                  /\ Cardinality(upto(j)) \in Nat
                  /\ Cardinality(upto(j)) <= Cardinality(S)
  BY FS_Subset, FS_CardinalityType
<1>2. Cardinality(S) \in Nat
  BY FS_CardinalityType
<1>3. RankIn(S, i) \in 1..Cardinality(S)
  <2>1. Cardinality(upto(i)) # 0
    BY <1>1, FS_EmptySet
  <2>2. RankIn(S, i) = Cardinality(upto(i))
    BY DEF RankIn
  <2>. HIDE DEF upto
  <2>. QED
    BY <1>1, <1>2, <2>1, <2>2
<1>4. ASSUME NEW x \in S, NEW y \in S, RankIn(S, x) = RankIn(S, y), x < y
      PROVE  FALSE
  <2>1. upto(x) \in SUBSET upto(y)
    <3>1. \A h \in S : h <= x => h <= y
      BY <1>4
    <3>. QED
      BY <3>1
  <2>2. y \in upto(y) \ upto(x)
    BY <1>4
  <2>3. Cardinality(upto(x)) = Cardinality(upto(y))
    BY <1>4 DEF RankIn
  <2>4. upto(x) = upto(y)
    BY <1>1, <2>1, <2>3, FS_Subset
  <2>. QED
    BY <2>2, <2>4
<1>5. ASSUME NEW j \in S, RankIn(S, j) = RankIn(S, i)
      PROVE  j = i
  <2>1. i \in Nat /\ j \in Nat
    OBVIOUS
  <2>2. ~ (i < j) /\ ~ (j < i)
    BY <1>4, <1>5
  <2>. QED
    BY <2>1, <2>2
<1>. QED
  BY <1>3, <1>5

LEMMA RankOnto ==
    ASSUME NEW S \in SUBSET Nat, IsFiniteSet(S), NEW k \in 1..Cardinality(S)
    PROVE  \E i \in S : RankIn(S, i) = k
<1>. DEFINE rank == [i \in S |-> RankIn(S, i)]
<1>1. Cardinality(S) \in Nat
  BY FS_CardinalityType
<1>2. rank \in [S -> 1..Cardinality(S)] /\ DOMAIN rank = S
  BY RankIsPosition
<1>3. ASSUME NEW i \in S, NEW j \in S, rank[i] = rank[j]
      PROVE  i = j
  BY <1>3, RankIsPosition
<1>4. rank \in Injection(S, 1..Cardinality(S))
  BY <1>2, <1>3, Zenon DEF Injection, IsInjective
<1>5. IsFiniteSet(1..Cardinality(S)) /\ Cardinality(1..Cardinality(S)) = Cardinality(S)
  BY <1>1, FS_Interval
<1>6. rank \in Surjection(S, 1..Cardinality(S))
  BY <1>4, <1>5, FS_Injection
<1>. HIDE DEF rank
<1>7. PICK i \in S : rank[i] = k
  BY <1>6 DEF Surjection
<1>. QED
  BY <1>7 DEF rank

\* Min, with which every search in the model is written, finds the least element.
LEMMA MinProperties ==
    ASSUME NEW S \in SUBSET Nat, IsFiniteSet(S), S # {}
    PROVE  Min(S) \in S /\ \A y \in S : Min(S) <= y
<1>1. 1 \in 1..Cardinality(S)
  BY FS_EmptySet, FS_CardinalityType
<1>2. PICK x \in S : RankIn(S, x) = 1
  BY <1>1, RankOnto
<1>3. {j \in S : j <= x} = {x}
  <2>. DEFINE T == {j \in S : j <= x}
  <2>1. IsFiniteSet(T)
    BY FS_Subset
  <2>2. {x} \in SUBSET T
    OBVIOUS
  <2>3. Cardinality({x}) = 1 /\ Cardinality(T) = 1
    BY <1>2, FS_Singleton DEF RankIn
  <2>. HIDE DEF T
  <2>4. T = {x}
    BY <2>1, <2>2, <2>3, FS_Subset
  <2>. QED
    BY <2>4 DEF T
<1>4. \A y \in S : x <= y
  BY <1>3
<1>. QED
  BY <1>4 DEF Min

\* vector::erase: one element less, the others in their order.
LEMMA RemoveAtProperties ==
    ASSUME NEW S, NEW s \in Seq(S), NEW i \in DOMAIN s
    PROVE  /\ RemoveAt(s, i) \in Seq(S)
           /\ Len(RemoveAt(s, i)) = Len(s) - 1
           /\ \A k \in 1..(Len(s) - 1) : RemoveAt(s, i)[k] = IF k < i THEN s[k] ELSE s[k + 1]
<1>. DEFINE before == SubSeq(s, 1, i - 1)
            after  == SubSeq(s, i + 1, Len(s))
<1>1. Len(s) \in Nat /\ i \in 1..Len(s) /\ \A k \in 1..Len(s) : s[k] \in S
  BY LenProperties, ElementOfSeq
<1>2. /\ before \in Seq(S) /\ Len(before) = i - 1
      /\ \A k \in 1..(i - 1) : before[k] = s[k]
  <2>1. \A k \in 1..(i - 1) : s[k] \in S
    BY <1>1
  <2>. QED
    BY <1>1, <2>1, SubSeqProperties
<1>3. /\ after \in Seq(S) /\ Len(after) = Len(s) - i
      /\ \A k \in 1..(Len(s) - i) : after[k] = s[i + k]
  <2>1. \A k \in (i + 1)..Len(s) : s[k] \in S
    BY <1>1
  <2>. HIDE DEF after
  <2>2. /\ SubSeq(s, i + 1, Len(s)) \in Seq(S)
        /\ Len(SubSeq(s, i + 1, Len(s))) = IF i + 1 <= Len(s) THEN Len(s) - (i + 1) + 1 ELSE 0
        /\ \A k \in 1..(Len(s) - (i + 1) + 1) : SubSeq(s, i + 1, Len(s))[k] = s[(i + 1) + k - 1]
    <3>1. i + 1 \in Int /\ Len(s) \in Int
      BY <1>1
    <3>. QED
      BY <2>1, <3>1, SubSeqProperties
  <2>3. Len(s) - (i + 1) + 1 = Len(s) - i /\ \A k \in Int : (i + 1) + k - 1 = i + k
    BY <1>1
  <2>4. (IF i + 1 <= Len(s) THEN Len(s) - (i + 1) + 1 ELSE 0) = Len(s) - i
    BY <1>1
  <2>5. ASSUME NEW k \in 1..(Len(s) - i) PROVE after[k] = s[i + k]
    <3>1. k \in 1..(Len(s) - (i + 1) + 1) /\ (i + 1) + k - 1 = i + k
      BY <1>1, <2>3
    <3>2. SubSeq(s, i + 1, Len(s))[k] = s[(i + 1) + k - 1]
      BY <2>2, <3>1
    <3>. QED
      BY <3>1, <3>2 DEF after
  <2>. QED
    BY <2>2, <2>4, <2>5 DEF after
<1>. HIDE DEF before, after
<1>4. RemoveAt(s, i) = before \o after
  BY DEF RemoveAt, before, after
<1>5. /\ before \o after \in Seq(S)
      /\ Len(before \o after) = Len(before) + Len(after)
      /\ \A k \in 1..(Len(before) + Len(after)) :
            (before \o after)[k] = IF k <= Len(before) THEN before[k] ELSE after[k - Len(before)]
  BY <1>2, <1>3, ConcatProperties
<1>6. Len(before) + Len(after) = Len(s) - 1
  BY <1>1, <1>2, <1>3
<1>7. ASSUME NEW k \in 1..(Len(s) - 1)
      PROVE  (before \o after)[k] = IF k < i THEN s[k] ELSE s[k + 1]
  <2>1. (before \o after)[k] = IF k <= i - 1 THEN before[k] ELSE after[k - (i - 1)]
    BY <1>1, <1>2, <1>5, <1>6
  <2>2. CASE k < i
    BY <1>1, <1>2, <2>1, <2>2
  <2>3. CASE ~ (k < i)
    <3>1. k - (i - 1) \in 1..(Len(s) - i) /\ i + (k - (i - 1)) = k + 1
      BY <1>1, <2>3
    <3>2. after[k - (i - 1)] = s[k + 1]
      BY <1>3, <3>1
    <3>3. ~ (k <= i - 1)
      BY <1>1, <2>3
    <3>. QED
      BY <2>1, <2>3, <3>2, <3>3
  <2>. QED
    BY <2>2, <2>3
<1>. QED
  BY <1>4, <1>5, <1>6, <1>7

\* A function on 1..n is a sequence (with IsASeq's conclusion for a function).
LEMMA FunctionIsSeq ==
    ASSUME NEW S, NEW n \in Nat, NEW f \in [1..n -> S]
    PROVE  f \in Seq(S) /\ Len(f) = n /\ DOMAIN f = 1..n
<1>1. f \in Seq(S)
  BY SeqDef
<1>. QED
  BY <1>1, LenProperties
-----------------------------------------------------------------------------
\* The positions searched are a finite set of naturals, so a search that has
\* something to find returns the first position of it.
LEMMA SearchFinds ==
    ASSUME NEW S, NEW s \in Seq(S), NEW F \in SUBSET DOMAIN s
    PROVE  /\ IsFiniteSet(F) /\ F \in SUBSET Nat
           /\ F # {} => Min(F) \in F /\ \A i \in F : Min(F) <= i
<1>1. Len(s) \in Nat /\ DOMAIN s = 1..Len(s)
  BY LenProperties
<1>2. IsFiniteSet(1..Len(s)) /\ F \in SUBSET (1..Len(s))
  BY <1>1, FS_Interval
<1>3. IsFiniteSet(F) /\ F \in SUBSET Nat
  BY <1>2, FS_Subset
<1>. QED
  BY <1>3, MinProperties

LEMMA CacheFindFinds ==
    ASSUME NEW c \in Cache, NEW w, CacheContains(c, w)
    PROVE  CacheFind(c, w) \in DOMAIN c.items /\ c.items[CacheFind(c, w)].value = w
<1>. DEFINE F == {i \in DOMAIN c.items : c.items[i].value = w}
<1>1. c.items \in Seq(Item) /\ F \in SUBSET DOMAIN c.items /\ F # {}
  BY DEF Cache, CacheContains
<1>. HIDE DEF F
<1>2. Min(F) \in F
  BY <1>1, SearchFinds
<1>. QED
  BY <1>2 DEF F, CacheFind

LEMMA BlankItemType == BlankItem \in Item
  BY LocsAssumption DEF BlankItem, Item, States

LEMMA NewCacheMarked == NewCache \in MarkedCache
  BY EmptySeq DEF NewCache, MarkedCache, Cache, Marked

\* Each operation keeps the items well typed, and whatever puts an item into a
\* cache marks it.
LEMMA CacheInsertMarked ==
    ASSUME NEW c \in MarkedCache, NEW w \in Walls, NEW loc \in Locs
    PROVE  CacheInsert(c, w, loc) \in MarkedCache
<1>. DEFINE item == [value |-> w, state |-> "unused", loc |-> loc]
<1>1. item \in Item
  BY DEF Item, States
<1>2. c.items \in Seq(Item)
  BY DEF MarkedCache, Cache
<1>. HIDE DEF item
<1>3. Append(c.items, item) \in Seq(Item)
  BY <1>1, <1>2, AppendProperties
<1>. QED
  BY <1>3 DEF CacheInsert, MarkedCache, Cache, Marked, item

LEMMA CacheInsertElemMarked ==
    ASSUME NEW c \in MarkedCache, NEW item \in Item
    PROVE  CacheInsertElem(c, item) \in MarkedCache
<1>1. Append(c.items, item) \in Seq(Item)
  BY AppendProperties DEF MarkedCache, Cache
<1>. QED
  BY <1>1 DEF CacheInsertElem, MarkedCache, Cache, Marked

LEMMA CacheEraseMarked ==
    ASSUME NEW c \in MarkedCache, NEW i \in DOMAIN c.items
    PROVE  CacheErase(c, i) \in MarkedCache
<1>1. RemoveAt(c.items, i) \in Seq(Item)
  BY RemoveAtProperties DEF MarkedCache, Cache
<1>. QED
  BY <1>1 DEF CacheErase, MarkedCache, Cache, Marked

LEMMA CacheTouchMarked ==
    ASSUME NEW c \in MarkedCache
    PROVE  CacheTouch(c) \in MarkedCache
BY DEF CacheTouch, MarkedCache, Cache, Marked

LEMMA CacheSetStateMarked ==
    ASSUME NEW c \in MarkedCache, NEW i \in DOMAIN c.items, NEW st \in States
    PROVE  CacheSetState(c, i, st) \in MarkedCache
<1>. DEFINE item  == [c.items[i] EXCEPT !.state = st]
            items == [c.items EXCEPT ![i] = item]
<1>1. c.items \in Seq(Item) /\ i \in 1..Len(c.items)
  BY LenProperties DEF MarkedCache, Cache
<1>2. c.items[i] \in Item
  BY <1>1, ElementOfSeq
<1>3. item \in Item
  BY <1>2 DEF Item
<1>. HIDE DEF item
<1>4. items \in Seq(Item)
  BY <1>1, <1>3, ExceptSeq
<1>. HIDE DEF items
<1>5. CacheSetState(c, i, st) = [items |-> items, modified |-> TRUE]
  BY DEF CacheSetState, items, item
<1>. QED
  BY <1>4, <1>5 DEF MarkedCache, Cache, Marked

LEMMA CacheOfMarked ==
    ASSUME NEW max \in Nat, NEW listing \in Listings(max), NEW loc \in Locs
    PROVE  CacheOf(listing, loc) \in MarkedCache
<1>1. PICK n \in 0..max : listing \in [1..n -> Walls]
  BY DEF Listings
<1>. DEFINE items == [i \in DOMAIN listing |->
                        [value |-> listing[i], state |-> "unused", loc |-> loc]]
<1>2. items \in [1..n -> Item]
  BY <1>1 DEF Item, States
<1>3. n \in Nat
  BY <1>1
<1>. HIDE DEF items
<1>4. items \in Seq(Item) /\ DOMAIN items = 1..n
  BY <1>2, <1>3, FunctionIsSeq
<1>5. ASSUME listing = <<>> PROVE items = <<>>
  <2>1. DOMAIN listing = {}
    BY <1>5, EmptySeq, LenProperties
  <2>2. DOMAIN items = {}
    BY <2>1 DEF items
  <2>3. Len(items) = 0
    BY <1>3, <1>4, <2>2, LenProperties
  <2>. QED
    BY <1>4, <2>3, EmptySeq
<1>. QED
  BY <1>4, <1>5 DEF CacheOf, items, MarkedCache, Cache, Marked

LEMMA CacheMergeMarked ==
    ASSUME NEW c1 \in MarkedCache, NEW c2 \in MarkedCache
    PROVE  CacheMerge(c1, c2) \in MarkedCache
<1>. DEFINE a == c1.items
            b == c2.items
            n == Len(a) + Len(b)
<1>1. a \in Seq(Item) /\ b \in Seq(Item) /\ n \in Nat
  BY LenProperties DEF MarkedCache, Cache
<1>. HIDE DEF a, b
<1>2. ASSUME NEW k \in 1..n
      PROVE  Merged(a, b)[k] \in Item
  <2>. DEFINE left  == {i \in DOMAIN a : PositionOfLeft(a, b, i) = k}
              right == {j \in DOMAIN b : PositionOfRight(a, b, j) = k}
  <2>1. Merged(a, b)[k] = IF left # {} THEN a[Min(left)]
                          ELSE IF right # {} THEN b[Min(right)] ELSE BlankItem
    BY <1>2 DEF Merged
  <2>2. left \in SUBSET DOMAIN a /\ right \in SUBSET DOMAIN b
    OBVIOUS
  <2>. HIDE DEF left, right
  <2>3. left # {} => Min(left) \in DOMAIN a
    BY <1>1, <2>2, SearchFinds
  <2>4. right # {} => Min(right) \in DOMAIN b
    BY <1>1, <2>2, SearchFinds
  <2>5. (\A i \in DOMAIN a : a[i] \in Item) /\ (\A j \in DOMAIN b : b[j] \in Item)
    BY <1>1, LenProperties, ElementOfSeq
  <2>. QED
    BY <2>1, <2>3, <2>4, <2>5, BlankItemType
<1>3. Merged(a, b) = [k \in 1..n |-> Merged(a, b)[k]]
  BY DEF Merged
<1>4. Merged(a, b) \in [1..n -> Item]
  BY <1>2, <1>3
<1>5. Merged(a, b) \in Seq(Item)
  BY <1>1, <1>4, FunctionIsSeq
<1>. QED
  BY <1>5 DEF CacheMerge, MarkedCache, Cache, Marked, a, b

LEMMA CacheFromJsonMarked ==
    ASSUME NEW items \in Seq(Item)
    PROVE  CacheFromJson(items) \in MarkedCache
<1>. DEFINE F == Firsts(items)
            n == Cardinality(F)
<1>1. IsFiniteSet(F) /\ F \in SUBSET Nat /\ F \subseteq DOMAIN items
  BY SearchFinds DEF Firsts
<1>2. n \in Nat
  BY <1>1, FS_CardinalityType
<1>. HIDE DEF F
<1>3. ASSUME NEW k \in 1..n
      PROVE  items[CHOOSE i \in F : RankIn(F, i) = k] \in Item
  <2>1. \E i \in F : RankIn(F, i) = k
    BY <1>1, RankOnto
  <2>2. (CHOOSE i \in F : RankIn(F, i) = k) \in DOMAIN items
    BY <1>1, <2>1
  <2>. QED
    BY <2>2, LenProperties, ElementOfSeq
<1>4. Distinct(items) \in [1..n -> Item]
  BY <1>3 DEF Distinct, F
<1>5. Distinct(items) \in Seq(Item)
  BY <1>2, <1>4, FunctionIsSeq
<1>. QED
  <2>1. CASE items = <<>>
    BY <2>1, NewCacheMarked DEF CacheFromJson
  <2>2. CASE items # <<>>
    <3>1. CacheFromJson(items) = [items |-> Distinct(items), modified |-> TRUE]
      BY <2>2 DEF CacheFromJson
    <3>. QED
      BY <1>5, <3>1 DEF MarkedCache, Cache, Marked
  <2>. QED
    BY <2>1, <2>2
-----------------------------------------------------------------------------
\* A library seen as its sequence of entries.
LEMMA SoundEntries ==
    ASSUME NEW l \in SoundLibrary
    PROVE  /\ l.vec \in Seq(MarkedEntry) /\ l.current \in Nat /\ l.active \in Strings
           /\ Len(l.vec) \in Nat /\ DOMAIN l.vec = 1..Len(l.vec)
           /\ \A i \in DOMAIN l.vec : l.vec[i] \in MarkedEntry
           /\ DistinctNames(l.vec)
<1>1. /\ l.vec \in Seq(MarkedEntry) /\ l.current \in Nat
      /\ l.active \in Strings /\ DistinctNames(l.vec)
  BY DEF SoundLibrary
<1>. QED
  BY <1>1, LenProperties, ElementOfSeq

LEMMA EmptyIsSound == EmptyLibrary \in SoundLibrary
<1>1. <<>> \in Seq(MarkedEntry)
  BY EmptySeq
<1>2. DOMAIN <<>> = {}
  OBVIOUS
<1>. QED
  BY <1>1, <1>2, Zenon DEF EmptyLibrary, SoundLibrary, Strings, DistinctNames, NoString

LEMMA LibFindFinds ==
    ASSUME NEW l \in SoundLibrary, NEW n, LibExists(l, n)
    PROVE  LibFind(l, n) \in DOMAIN l.vec /\ l.vec[LibFind(l, n)].name = n
<1>. DEFINE F == {i \in DOMAIN l.vec : l.vec[i].name = n}
<1>1. l.vec \in Seq(MarkedEntry) /\ F \in SUBSET DOMAIN l.vec /\ F # {}
  BY SoundEntries DEF LibExists
<1>. HIDE DEF F
<1>2. Min(F) \in F
  BY <1>1, SearchFinds
<1>. QED
  BY <1>2 DEF F, LibFind

\* The three ways in which the operations change the vector.
LEMMA UpdateIsSound ==
    ASSUME NEW l \in SoundLibrary, NEW p \in DOMAIN l.vec, NEW c \in MarkedCache
    PROVE  [l EXCEPT !.vec[p].cache = c] \in SoundLibrary
<1>. DEFINE e   == [l.vec[p] EXCEPT !.cache = c]
            vec == [l.vec EXCEPT ![p] = e]
<1>1. e \in MarkedEntry /\ e.name = l.vec[p].name
  BY SoundEntries DEF MarkedEntry
<1>. HIDE DEF e
<1>2. /\ vec \in Seq(MarkedEntry) /\ Len(vec) = Len(l.vec)
      /\ \A i \in 1..Len(l.vec) : vec[i] = IF i = p THEN e ELSE l.vec[i]
  BY <1>1, SoundEntries, ExceptSeq
<1>3. DistinctNames(vec)
  <2>1. DOMAIN vec = DOMAIN l.vec
    OBVIOUS
  <2>2. \A i \in DOMAIN l.vec : vec[i].name = l.vec[i].name
    BY <1>1, <1>2, SoundEntries
  <2>. QED
    BY <2>1, <2>2, SoundEntries DEF DistinctNames
<1>. HIDE DEF vec
<1>4. [l EXCEPT !.vec[p].cache = c] = [l EXCEPT !.vec = vec]
  BY DEF vec, e
<1>. QED
  BY <1>2, <1>3, <1>4 DEF SoundLibrary

LEMMA AppendIsSound ==
    ASSUME NEW l \in SoundLibrary, NEW n \in Names, NEW c \in MarkedCache,
           ~ LibExists(l, n)
    PROVE  [l EXCEPT !.vec = Append(@, [name |-> n, cache |-> c])] \in SoundLibrary
<1>. DEFINE e   == [name |-> n, cache |-> c]
            vec == Append(l.vec, e)
<1>1. e \in MarkedEntry /\ e.name = n
  BY DEF MarkedEntry
<1>. HIDE DEF e
<1>2. /\ vec \in Seq(MarkedEntry) /\ Len(vec) = Len(l.vec) + 1
      /\ \A i \in 1..Len(l.vec) : vec[i] = l.vec[i]
      /\ vec[Len(l.vec) + 1] = e
  BY <1>1, SoundEntries, AppendProperties
<1>. HIDE DEF vec
<1>3. DistinctNames(vec)
  <2>1. DOMAIN vec = 1..(Len(l.vec) + 1) /\ Len(l.vec) \in Nat
    BY <1>2, LenProperties, SoundEntries
  <2>2. \A i \in 1..Len(l.vec) : vec[i].name # n
    BY <1>2, SoundEntries DEF LibExists
  <2>3. \A i \in DOMAIN vec : i \in 1..Len(l.vec) \/ i = Len(l.vec) + 1
    BY <2>1
  <2>4. \A i, j \in 1..Len(l.vec) : vec[i].name = vec[j].name => i = j
    BY <1>2, SoundEntries DEF DistinctNames
  <2>5. vec[Len(l.vec) + 1].name = n
    BY <1>1, <1>2
  <2>. QED
    BY <2>2, <2>3, <2>4, <2>5 DEF DistinctNames
<1>. QED
  BY <1>2, <1>3 DEF SoundLibrary, vec, e

LEMMA EraseIsSound ==
    ASSUME NEW l \in SoundLibrary, NEW p \in DOMAIN l.vec
    PROVE  /\ [l EXCEPT !.vec = RemoveAt(@, p)] \in SoundLibrary
           /\ \A n : /\ n # l.vec[p].name
                    => (LibExists(l, n) <=> LibExists([l EXCEPT !.vec = RemoveAt(@, p)], n))
           /\ ~ LibExists([l EXCEPT !.vec = RemoveAt(@, p)], l.vec[p].name)
<1>. DEFINE vec == RemoveAt(l.vec, p)
            r   == [l EXCEPT !.vec = vec]
            old(k) == IF k < p THEN k ELSE k + 1
<1>1. Len(l.vec) \in Nat /\ p \in 1..Len(l.vec) /\ DOMAIN l.vec = 1..Len(l.vec)
  BY SoundEntries
<1>2. /\ vec \in Seq(MarkedEntry) /\ Len(vec) = Len(l.vec) - 1
      /\ \A k \in 1..(Len(l.vec) - 1) : vec[k] = IF k < p THEN l.vec[k] ELSE l.vec[k + 1]
  BY SoundEntries, RemoveAtProperties
<1>3. DOMAIN vec = 1..(Len(l.vec) - 1)
  BY <1>2, LenProperties
<1>. HIDE DEF vec
<1>4. \A k \in DOMAIN vec : old(k) \in DOMAIN l.vec /\ old(k) # p /\ vec[k] = l.vec[old(k)]
  BY <1>1, <1>2, <1>3
<1>5. \A j, k \in DOMAIN vec : old(j) = old(k) => j = k
  BY <1>1, <1>3
<1>6. \A i \in DOMAIN l.vec : i # p => \E k \in DOMAIN vec : old(k) = i
  <2>1. TAKE i \in DOMAIN l.vec
  <2>2. CASE i < p
    BY <1>1, <1>3, <2>2
  <2>3. CASE i > p
    <3>1. i - 1 \in DOMAIN vec /\ old(i - 1) = i
      BY <1>1, <1>3, <2>3
    <3>. QED
      BY <3>1
  <2>. QED
    BY <1>1, <2>2, <2>3
<1>. HIDE DEF old
<1>7. DistinctNames(vec)
  BY <1>4, <1>5, SoundEntries DEF DistinctNames
<1>8. r \in SoundLibrary /\ r.vec = vec
  BY <1>2, <1>7 DEF SoundLibrary
<1>9. ASSUME NEW n, n # l.vec[p].name
      PROVE  LibExists(l, n) <=> LibExists(r, n)
  BY <1>4, <1>6, <1>8, <1>9 DEF LibExists
<1>10. ~ LibExists(r, l.vec[p].name)
  BY <1>4, <1>8, SoundEntries DEF LibExists, DistinctNames
<1>. QED
  BY <1>8, <1>9, <1>10 DEF vec

-----------------------------------------------------------------------------
\* Each operation of the class leaves a sound library, whether it succeeds or
\* reports an error.
LEMMA InsertSound ==
    ASSUME NEW l \in SoundLibrary, NEW n \in Names, NEW c \in MarkedCache
    PROVE  LibInsert(l, n, c).lib \in SoundLibrary
BY AppendIsSound DEF LibInsert, Ok, Result

LEMMA GetCacheSound ==
    ASSUME NEW l \in SoundLibrary, NEW n \in Names
    PROVE  LibGetCache(l, n).lib \in SoundLibrary
<1>. DEFINE p == LibFind(l, n)
<1>1. CASE LibExists(l, n)
  <2>1. p \in DOMAIN l.vec /\ l.vec[p].cache \in MarkedCache
    BY <1>1, LibFindFinds, SoundEntries DEF MarkedEntry
  <2>2. CacheTouch(l.vec[p].cache) \in MarkedCache
    BY <2>1, CacheTouchMarked
  <2>. HIDE DEF p
  <2>3. [l EXCEPT !.vec[p].cache = CacheTouch(@)] \in SoundLibrary
    BY <2>1, <2>2, UpdateIsSound
  <2>. QED
    BY <1>1, <2>3 DEF LibGetCache, Ok, Result, p
<1>2. CASE ~ LibExists(l, n)
  BY <1>2 DEF LibGetCache, Result
<1>. QED
  BY <1>1, <1>2

LEMMA ChangeActiveSound ==
    ASSUME NEW l \in SoundLibrary, NEW n \in Names
    PROVE  LibChangeActive(l, n).lib \in SoundLibrary
<1>1. CASE LibExists(l, n)
  <2>1. LibFind(l, n) - 1 \in Nat
    BY <1>1, LibFindFinds, SoundEntries
  <2>2. [l EXCEPT !.active = n, !.current = LibFind(l, n) - 1] \in SoundLibrary
    BY <2>1 DEF SoundLibrary, Strings
  <2>. QED
    BY <1>1, <2>2 DEF LibChangeActive, Ok, Result
<1>2. CASE ~ LibExists(l, n)
  BY <1>2 DEF LibChangeActive, Result
<1>. QED
  BY <1>1, <1>2

LEMMA RenameSound ==
    ASSUME NEW l \in SoundLibrary, NEW from \in Names, NEW to \in Names
    PROVE  LibRename(l, from, to).lib \in SoundLibrary
<1>. DEFINE p   == LibFind(l, from)
            e   == [l.vec[p] EXCEPT !.name = to]
            vec == [l.vec EXCEPT ![p] = e]
            act == IF l.active = from THEN to ELSE l.active
<1>1. CASE from # to /\ LibExists(l, from) /\ ~ LibExists(l, to)
  <2>1. p \in DOMAIN l.vec
    BY <1>1, LibFindFinds
  <2>. HIDE DEF p
  <2>2. e \in MarkedEntry /\ e.name = to
    BY <2>1, SoundEntries DEF MarkedEntry
  <2>. HIDE DEF e
  <2>3. /\ vec \in Seq(MarkedEntry) /\ DOMAIN vec = DOMAIN l.vec
        /\ \A i \in DOMAIN l.vec : vec[i] = IF i = p THEN e ELSE l.vec[i]
    BY <2>1, <2>2, SoundEntries, ExceptSeq
  <2>. HIDE DEF vec
  <2>4. \A i \in DOMAIN l.vec : l.vec[i].name # to
    BY <1>1 DEF LibExists
  <2>5. DistinctNames(vec)
    BY <2>2, <2>3, <2>4, SoundEntries DEF DistinctNames
  <2>6. act \in Strings
    BY SoundEntries DEF Strings
  <2>7. [l EXCEPT !.vec = vec, !.active = act] \in SoundLibrary
    BY <2>3, <2>5, <2>6 DEF SoundLibrary
  <2>8. LibRename(l, from, to).lib = [l EXCEPT !.vec = vec, !.active = act]
    BY <1>1 DEF LibRename, Ok, Result, vec, e, p
  <2>. QED
    BY <2>7, <2>8
<1>2. CASE ~ (from # to /\ LibExists(l, from) /\ ~ LibExists(l, to))
  BY <1>2 DEF LibRename, Result
<1>. QED
  BY <1>1, <1>2

\* What is removed is gone, and the other names stay.
LEMMA RemoveSound ==
    ASSUME NEW l \in SoundLibrary, NEW n
    PROVE  /\ LibRemove(l, n).lib \in SoundLibrary
           /\ ~ LibExists(LibRemove(l, n).lib, n)
           /\ \A m : m # n => (LibExists(l, m) <=> LibExists(LibRemove(l, n).lib, m))
<1>. DEFINE p == LibFind(l, n)
            r == [l EXCEPT !.vec = RemoveAt(@, p)]
<1>1. CASE LibExists(l, n)
  <2>1. p \in DOMAIN l.vec /\ l.vec[p].name = n
    BY <1>1, LibFindFinds
  <2>2. LibRemove(l, n).lib = r
    BY <1>1 DEF LibRemove, Ok, Result
  <2>. HIDE DEF p
  <2>3. r \in SoundLibrary /\ ~ LibExists(r, n)
        /\ \A m : m # n => (LibExists(l, m) <=> LibExists(r, m))
    BY <2>1, EraseIsSound
  <2>. QED
    BY <2>2, <2>3
<1>2. CASE ~ LibExists(l, n)
  BY <1>2 DEF LibRemove, Result
<1>. QED
  BY <1>1, <1>2

LEMMA RemoveItemSound ==
    ASSUME NEW l \in SoundLibrary, NEW n \in Names, NEW w \in Walls
    PROVE  LibRemoveItem(l, n, w).lib \in SoundLibrary
<1>. DEFINE p == LibFind(l, n)
            c == l.vec[p].cache
<1>1. CASE n # w /\ LibExists(l, n)
  <2>1. p \in DOMAIN l.vec /\ c \in MarkedCache
    BY <1>1, LibFindFinds, SoundEntries DEF MarkedEntry
  <2>. HIDE DEF p
  <2>2. CacheTouch(c) \in MarkedCache
    BY <2>1, CacheTouchMarked
  <2>3. [l EXCEPT !.vec[p].cache = CacheTouch(@)] \in SoundLibrary
    BY <2>1, <2>2, UpdateIsSound
  <2>4. ASSUME CacheContains(c, w)
        PROVE  [l EXCEPT !.vec[p].cache = CacheErase(@, CacheFind(@, w))] \in SoundLibrary
    <3>1. CacheFind(c, w) \in DOMAIN c.items
      BY <2>1, <2>4, CacheFindFinds DEF MarkedCache
    <3>2. CacheErase(c, CacheFind(c, w)) \in MarkedCache
      BY <2>1, <3>1, CacheEraseMarked
    <3>. QED
      BY <2>1, <3>2, UpdateIsSound
  <2>. QED
    BY <1>1, <2>3, <2>4 DEF LibRemoveItem, Ok, Result, p
<1>2. CASE ~ (n # w /\ LibExists(l, n))
  BY <1>2 DEF LibRemoveItem, Result
<1>. QED
  BY <1>1, <1>2

LEMMA MergeSound ==
    ASSUME NEW l \in SoundLibrary, NEW n \in Names, NEW m \in Names
    PROVE  LibMerge(l, n, m).lib \in SoundLibrary
<1>1. CASE n # m /\ LibExists(l, n) /\ LibExists(l, m)
  <2>. DEFINE merged == CacheMerge(l.vec[LibFind(l, n)].cache, l.vec[LibFind(l, m)].cache)
              one    == LibRemove(l, n).lib
              rest   == LibRemove(one, m).lib
  <2>1. merged \in MarkedCache
    BY <1>1, LibFindFinds, SoundEntries, CacheMergeMarked DEF MarkedEntry
  <2>2. one \in SoundLibrary /\ ~ LibExists(one, n)
    BY RemoveSound
  <2>. HIDE DEF merged, one
  <2>3. rest \in SoundLibrary /\ ~ LibExists(rest, n)
    BY <1>1, <2>2, RemoveSound
  <2>. HIDE DEF rest
  <2>4. [rest EXCEPT !.vec = Append(@, [name |-> n, cache |-> merged])] \in SoundLibrary
    BY <2>1, <2>3, AppendIsSound
  <2>. QED
    BY <1>1, <2>4 DEF LibMerge, Ok, Result, merged, rest, one
<1>2. CASE ~ (n # m /\ LibExists(l, n) /\ LibExists(l, m))
  BY <1>2 DEF LibMerge, Result
<1>. QED
  BY <1>1, <1>2

UpdateTwice(l, d, to, s, rest) ==
    [[l EXCEPT !.vec[d].cache = to] EXCEPT !.vec[s].cache = rest]

\* Moving writes two caches and nothing else.
LEMMA MoveUpdatesTwice ==
    ASSUME NEW l \in SoundLibrary, NEW src \in Names, NEW dst \in Names, NEW w \in Walls
    PROVE  \/ LibMove(l, src, dst, w).lib = l
           \/ \E d, s \in DOMAIN l.vec : \E to, rest \in MarkedCache :
                 LibMove(l, src, dst, w).lib = UpdateTwice(l, d, to, s, rest)
<1>. DEFINE s    == LibFind(l, src)
            d    == LibFind(l, dst)
            from == l.vec[s].cache
            k    == CacheFind(from, w)
            to   == CacheInsertElem(l.vec[d].cache, from.items[k])
            rest == CacheErase(from, k)
            moved == LibMove(l, src, dst, w).lib
<1>1. CASE /\ src # dst /\ dst # w /\ LibExists(l, src) /\ LibExists(l, dst)
           /\ CacheContains(from, w)
  <2>1. /\ s \in DOMAIN l.vec /\ l.vec[s].name = src
        /\ d \in DOMAIN l.vec /\ l.vec[d].name = dst
    BY <1>1, LibFindFinds
  <2>2. s # d /\ from \in MarkedCache /\ l.vec[d].cache \in MarkedCache
    BY <1>1, <2>1, SoundEntries DEF MarkedEntry
  <2>3. moved = UpdateTwice(l, d, to, s, rest)
    <3>. HIDE DEF s, d
    <3>. QED
      BY <1>1, <2>1, <2>2 DEF LibMove, Ok, Result, UpdateTwice, s, d
  <2>. HIDE DEF s, d
  <2>4. k \in DOMAIN from.items
    BY <1>1, <2>2, CacheFindFinds DEF MarkedCache
  <2>5. from.items[k] \in Item
    BY <2>2, <2>4, LenProperties, ElementOfSeq DEF MarkedCache, Cache
  <2>6. to \in MarkedCache
    BY <2>2, <2>5, CacheInsertElemMarked
  <2>7. rest \in MarkedCache
    BY <2>2, <2>4, CacheEraseMarked
  <2>. HIDE DEF from, to, rest, moved
  <2>8. \E x, y \in DOMAIN l.vec : \E t, r \in MarkedCache : moved = UpdateTwice(l, x, t, y, r)
    BY <2>1, <2>3, <2>6, <2>7
  <2>. QED
    BY <2>8 DEF moved
<1>2. CASE ~ (/\ src # dst /\ dst # w /\ LibExists(l, src) /\ LibExists(l, dst)
              /\ CacheContains(from, w))
  BY <1>2 DEF LibMove, Result
<1>. QED
  BY <1>1, <1>2

LEMMA MoveSound ==
    ASSUME NEW l \in SoundLibrary, NEW src \in Names, NEW dst \in Names, NEW w \in Walls
    PROVE  LibMove(l, src, dst, w).lib \in SoundLibrary
<1>1. ASSUME NEW d \in DOMAIN l.vec, NEW s \in DOMAIN l.vec,
             NEW to \in MarkedCache, NEW rest \in MarkedCache
      PROVE  UpdateTwice(l, d, to, s, rest) \in SoundLibrary
  <2>. DEFINE mid == [l EXCEPT !.vec[d].cache = to]
  <2>1. mid \in SoundLibrary
    BY UpdateIsSound
  <2>2. DOMAIN mid.vec = DOMAIN l.vec
    BY SoundEntries DEF SoundLibrary
  <2>. HIDE DEF mid
  <2>3. [mid EXCEPT !.vec[s].cache = rest] \in SoundLibrary
    BY <2>1, <2>2, UpdateIsSound
  <2>. QED
    BY <2>3 DEF mid, UpdateTwice
<1>. QED
  BY <1>1, MoveUpdatesTwice

\* Loading gives back the names that were saved, in their order, and marks
\* every collection that holds something.
LEMMA LoadSound ==
    ASSUME NEW doc \in SoundDocuments
    PROVE  LibLoad(doc) \in SoundLibrary
<1>. DEFINE vec == [i \in DOMAIN doc.libraries |->
                      [name  |-> doc.libraries[i].name,
                       cache |-> CacheFromJson(doc.libraries[i].items)]]
            at  == {i \in DOMAIN vec : vec[i].name = doc.active}
            cur == IF at = {} THEN 0 ELSE Min(at) - 1
<1>1. /\ doc.libraries \in Seq([name : Names, items : Seq(Item)])
      /\ doc.active \in Strings /\ DistinctNames(doc.libraries)
  BY DEF SoundDocuments, Documents
<1>2. /\ Len(doc.libraries) \in Nat /\ DOMAIN doc.libraries = 1..Len(doc.libraries)
      /\ \A i \in DOMAIN doc.libraries : /\ doc.libraries[i].name \in Names
                                        /\ doc.libraries[i].items \in Seq(Item)
  <2>1. Len(doc.libraries) \in Nat /\ DOMAIN doc.libraries = 1..Len(doc.libraries)
    BY <1>1, LenProperties
  <2>2. \A i \in DOMAIN doc.libraries :
           doc.libraries[i] \in [name : Names, items : Seq(Item)]
    BY <1>1, <2>1, ElementOfSeq
  <2>. QED
    BY <2>1, <2>2
<1>3. ASSUME NEW i \in DOMAIN doc.libraries
      PROVE  vec[i] \in MarkedEntry /\ vec[i].name = doc.libraries[i].name
  <2>1. CacheFromJson(doc.libraries[i].items) \in MarkedCache
    BY <1>2, CacheFromJsonMarked
  <2>. QED
    BY <1>2, <2>1 DEF MarkedEntry
<1>4. vec \in Seq(MarkedEntry) /\ DOMAIN vec = DOMAIN doc.libraries
  <2>1. vec \in [1..Len(doc.libraries) -> MarkedEntry]
    BY <1>2, <1>3
  <2>. QED
    BY <1>2, <2>1, FunctionIsSeq
<1>. HIDE DEF vec
<1>5. DistinctNames(vec)
  BY <1>1, <1>3, <1>4 DEF DistinctNames
<1>6. cur \in Nat
  <2>1. at \in SUBSET DOMAIN vec
    OBVIOUS
  <2>. HIDE DEF at
  <2>2. at # {} => Min(at) \in DOMAIN vec
    BY <1>4, <2>1, SearchFinds
  <2>3. DOMAIN vec \subseteq Nat \ {0}
    BY <1>2, <1>4
  <2>. QED
    BY <2>2, <2>3
<1>7. LibLoad(doc) = [vec |-> vec, current |-> cur, active |-> doc.active]
  BY DEF LibLoad, vec
<1>. QED
  BY <1>1, <1>4, <1>5, <1>6, <1>7 DEF SoundLibrary

LEMMA DocumentSound ==
    ASSUME NEW l \in SoundLibrary, NEW a \in Strings
    PROVE  LibDocument(l, a) \in SoundDocuments
<1>. DEFINE libs == [i \in DOMAIN l.vec |->
                       [name |-> l.vec[i].name, items |-> l.vec[i].cache.items]]
            E    == [name : Names, items : Seq(Item)]
<1>1. \A i \in DOMAIN l.vec : libs[i] \in E /\ libs[i].name = l.vec[i].name
  BY SoundEntries DEF MarkedEntry, MarkedCache, Cache
<1>2. libs \in [1..Len(l.vec) -> E]
  BY <1>1, SoundEntries
<1>3. libs \in Seq(E) /\ DOMAIN libs = DOMAIN l.vec
  BY <1>2, SoundEntries, FunctionIsSeq
<1>4. DistinctNames(libs)
  BY <1>1, <1>3, SoundEntries DEF DistinctNames
<1>. QED
  BY <1>3, <1>4 DEF LibDocument, SoundDocuments, Documents

LEMMA ReloadSound ==
    ASSUME NEW l \in SoundLibrary, NEW a \in Strings
    PROVE  LibLoad(LibDocument(l, a)) \in SoundLibrary
BY LoadSound, DocumentSound

LEMMA ActiveWrittenType ==
    ASSUME NEW l \in SoundLibrary
    PROVE  LibActiveWritten(l) \subseteq Strings
<1>1. ASSUME l.current < Len(l.vec)
      PROVE  l.vec[l.current + 1].name \in Names
  <2>1. l.current + 1 \in DOMAIN l.vec
    BY <1>1, SoundEntries
  <2>. QED
    BY <2>1, SoundEntries DEF MarkedEntry
<1>. QED
  BY <1>1 DEF LibActiveWritten, Strings

\* A sound library is a library.
LEMMA SoundIsTyped == SoundLibrary \subseteq Library
<1>1. MarkedEntry \subseteq Entry
  BY DEF MarkedEntry, MarkedCache, Entry
<1>2. ASSUME NEW s \in Seq(MarkedEntry)
      PROVE  s \in Seq(Entry)
  BY <1>1, SeqMonotonic
<1>. QED
  BY <1>2 DEF SoundLibrary, Library

\* Inserting a wallpaper into a collection that exists.
LEMMA AddSound ==
    ASSUME NEW l \in SoundLibrary, NEW n \in Names, LibExists(l, n),
           NEW w \in Walls, NEW loc \in Locs
    PROVE  [l EXCEPT !.vec[LibFind(l, n)].cache = CacheInsert(@, w, loc)] \in SoundLibrary
<1>. DEFINE p == LibFind(l, n)
            c == CacheInsert(l.vec[p].cache, w, loc)
<1>1. p \in DOMAIN l.vec /\ l.vec[p].cache \in MarkedCache
  BY LibFindFinds, SoundEntries DEF MarkedEntry
<1>2. c \in MarkedCache
  BY <1>1, CacheInsertMarked
<1>. HIDE DEF p, c
<1>3. [l EXCEPT !.vec[p].cache = c] \in SoundLibrary
  BY <1>1, <1>2, UpdateIsSound
<1>. QED
  BY <1>3 DEF p, c

\* With a wallpaper in some collection, modified() has only one answer.
LEMMA WallpapersAreMarked ==
    ASSUME NEW l \in SoundLibrary, HoldsWallpapers(l)
    PROVE  LibModified(l) = {TRUE}
<1>1. PICK i \in DOMAIN l.vec : l.vec[i].cache.items # <<>>
  BY DEF HoldsWallpapers
<1>2. l.vec[i].cache.modified = TRUE
  BY <1>1, SoundEntries DEF MarkedEntry, MarkedCache, Cache, Marked
<1>3. l.vec # <<>>
  BY <1>1
<1>. QED
  BY <1>1, <1>2, <1>3 DEF LibModified

-----------------------------------------------------------------------------
(***************************************************************************)
(* Merged(a, b) holds exactly the items of a and of b, sorted or not: the  *)
(* positions that the two inputs are written to are distinct and fill the  *)
(* output, so that no item is lost and no blank item is left.              *)
(***************************************************************************)
\* A set of positions that holds every smaller one is an interval.
LEMMA InitialSegment ==
    ASSUME NEW m \in Nat, NEW S \in SUBSET (1..m),
           \A x \in S : \A y \in 1..m : y <= x => y \in S
    PROVE  Cardinality(S) \in 0..m /\ S = 1..Cardinality(S)
<1>. DEFINE rest == (1..m) \ S
<1>1. \A n \in Nat : Cardinality(1..n) = n
  BY FS_Interval
<1>2. CASE rest = {}
  <2>1. S = 1..m
    BY <1>2
  <2>. QED
    BY <1>1, <2>1
<1>3. CASE rest # {}
  <2>1. IsFiniteSet(1..m) /\ 1..m \in SUBSET Nat /\ rest \subseteq 1..m
    BY FS_Interval
  <2>2. IsFiniteSet(rest) /\ rest \in SUBSET Nat
    BY <2>1, FS_Subset
  <2>. DEFINE q == Min(rest)
  <2>3. q \in rest /\ \A y \in rest : q <= y
    BY <1>3, <2>2, MinProperties
  <2>. HIDE DEF q
  <2>4. S = 1..(q - 1)
    <3>1. q \in 1..m /\ q \notin S /\ \A y \in 1..m : y < q => y \in S
      BY <2>3
    <3>2. \A x \in S : x \in 1..m /\ ~ (q <= x)
      BY <3>1
    <3>3. q \in Int /\ \A x \in S : x \in 1..(q - 1)
      BY <3>1, <3>2
    <3>4. \A x \in 1..(q - 1) : x \in S
      BY <3>1
    <3>. QED
      BY <3>3, <3>4
  <2>5. q - 1 \in Nat /\ q - 1 <= m
    BY <2>3
  <2>. QED
    BY <1>1, <2>4, <2>5
<1>. QED
  BY <1>2, <1>3

(***************************************************************************)
(* f[i] items of the right are written before item i of the left, and g[j] *)
(* items of the left before item j of the right: of any two, one comes     *)
(* first.  Then the positions i + f[i] and j + g[j] are a permutation.     *)
(***************************************************************************)
Interleaving(n, m, f, g) ==
    /\ f \in [1..n -> 0..m] /\ g \in [1..m -> 0..n]
    /\ \A i \in 1..n, j \in 1..m : i <= g[j] <=> j > f[i]

LEMMA LeftIncreases ==
    ASSUME NEW n \in Nat, NEW m \in Nat, NEW f, NEW g, Interleaving(n, m, f, g),
           NEW i \in 1..n, NEW k \in 1..n, i < k
    PROVE  f[i] <= f[k]
<1> SUFFICES ASSUME f[i] > f[k] PROVE FALSE
  BY DEF Interleaving
<1>1. f[i] \in 1..m
  BY DEF Interleaving
<1>2. k <= g[f[i]]
  BY <1>1 DEF Interleaving
<1>3. g[f[i]] \in 0..n
  BY <1>1 DEF Interleaving
<1>4. i <= g[f[i]]
  BY <1>2, <1>3
<1>. QED
  BY <1>1, <1>4 DEF Interleaving

LEMMA RightIncreases ==
    ASSUME NEW n \in Nat, NEW m \in Nat, NEW f, NEW g, Interleaving(n, m, f, g),
           NEW j \in 1..m, NEW k \in 1..m, j < k
    PROVE  g[j] <= g[k]
<1> SUFFICES ASSUME g[j] > g[k] PROVE FALSE
  BY DEF Interleaving
<1>1. g[j] \in 1..n
  BY DEF Interleaving
<1>2. j > f[g[j]] /\ f[g[j]] \in 0..m
  BY <1>1 DEF Interleaving
<1>3. k > f[g[j]]
  BY <1>2
<1>. QED
  BY <1>1, <1>3 DEF Interleaving

LEMMA PositionsDiffer ==
    ASSUME NEW n \in Nat, NEW m \in Nat, NEW f, NEW g, Interleaving(n, m, f, g)
    PROVE  /\ \A i, k \in 1..n : i + f[i] = k + f[k] => i = k
           /\ \A j, k \in 1..m : j + g[j] = k + g[k] => j = k
           /\ \A i \in 1..n, j \in 1..m : i + f[i] # j + g[j]
           /\ \A i \in 1..n : i + f[i] \in 1..(n + m)
           /\ \A j \in 1..m : j + g[j] \in 1..(n + m)
<1>1. (\A i \in 1..n : f[i] \in 0..m) /\ (\A j \in 1..m : g[j] \in 0..n)
  BY DEF Interleaving
<1>2. ASSUME NEW i \in 1..n, NEW k \in 1..n, i + f[i] = k + f[k]
      PROVE  i = k
  BY <1>1, <1>2, LeftIncreases
<1>3. ASSUME NEW j \in 1..m, NEW k \in 1..m, j + g[j] = k + g[k]
      PROVE  j = k
  BY <1>1, <1>3, RightIncreases
<1>4. ASSUME NEW i \in 1..n, NEW j \in 1..m
      PROVE  i + f[i] # j + g[j]
  <2>1. i <= g[j] <=> j > f[i]
    BY DEF Interleaving
  <2>2. f[i] \in Int /\ g[j] \in Int
    BY <1>1
  <2>. QED
    BY <2>1, <2>2
<1>. QED
  BY <1>1, <1>2, <1>3, <1>4

LEMMA PositionsFill ==
    ASSUME NEW n \in Nat, NEW m \in Nat, NEW f, NEW g, Interleaving(n, m, f, g),
           NEW k \in 1..(n + m)
    PROVE  (\E i \in 1..n : i + f[i] = k) \/ (\E j \in 1..m : j + g[j] = k)
<1> SUFFICES ASSUME \A i \in 1..n : i + f[i] # k
             PROVE  \E j \in 1..m : j + g[j] = k
  OBVIOUS
<1>. DEFINE later == {i \in 1..n : i + f[i] > k}
<1>1. (\A i \in 1..n : f[i] \in 0..m) /\ (\A j \in 1..m : g[j] \in 0..n)
  BY DEF Interleaving
<1>2. PICK h \in 0..n : /\ \A i \in 1..h : i + f[i] < k
                        /\ h < n => h + 1 + f[h + 1] > k
  <2>1. CASE later = {}
    <3>1. ASSUME NEW i \in 1..n PROVE i + f[i] < k
      <4>1. f[i] \in Int /\ ~ (i + f[i] > k) /\ i + f[i] # k
        BY <1>1, <2>1
      <4>. QED
        BY <4>1
    <3>. QED
      BY <3>1
  <2>2. CASE later # {}
    <3>1. IsFiniteSet(1..n) /\ later \subseteq 1..n
      BY FS_Interval
    <3>2. IsFiniteSet(later) /\ later \in SUBSET Nat
      BY <3>1, FS_Subset
    <3>. DEFINE q == Min(later)
    <3>3. q \in later /\ \A y \in later : q <= y
      BY <2>2, <3>2, MinProperties
    <3>. HIDE DEF q
    <3>4. /\ q - 1 \in 0..n /\ q - 1 + 1 = q /\ q + f[q] > k
          /\ \A i \in 1..(q - 1) : i \in 1..n /\ i \notin later
      BY <3>3
    <3>5. ASSUME NEW i \in 1..(q - 1) PROVE i + f[i] < k
      <4>1. i \in 1..n /\ ~ (i + f[i] > k)
        BY <3>4
      <4>2. f[i] \in Int /\ i + f[i] # k
        BY <1>1, <4>1
      <4>. QED
        BY <4>1, <4>2
    <3>. QED
      BY <3>4, <3>5
  <2>. QED
    BY <2>1, <2>2
<1>. DEFINE j == k - h
<1>3. h >= 1 => h + f[h] < k /\ f[h] \in 0..m
  BY <1>1, <1>2
<1>4. h < n => f[h + 1] >= j /\ f[h + 1] \in 0..m
  BY <1>1, <1>2
<1>5. j \in 1..m
  BY <1>3, <1>4
<1>6. h >= 1 => h <= g[j]
  BY <1>3, <1>5 DEF Interleaving
<1>7. h < n => ~ (h + 1 <= g[j])
  <2>. SUFFICES ASSUME h < n PROVE ~ (h + 1 <= g[j])
    OBVIOUS
  <2>1. h + 1 \in 1..n /\ ~ (j > f[h + 1])
    BY <1>4, <1>5
  <2>. QED
    BY <1>5, <2>1 DEF Interleaving
<1>8. g[j] = h
  BY <1>1, <1>5, <1>6, <1>7
<1>. QED
  BY <1>5, <1>8

-----------------------------------------------------------------------------
LEMMA MergeInterleaves ==
    ASSUME NEW a \in Seq(Item), NEW b \in Seq(Item)
    PROVE  \E f, g :
              /\ Interleaving(Len(a), Len(b), f, g)
              /\ \A i \in DOMAIN a : PositionOfLeft(a, b, i) = i + f[i]
              /\ \A j \in DOMAIN b : PositionOfRight(a, b, j) = j + g[j]
              /\ \A i \in DOMAIN a, j \in DOMAIN b : WrittenBefore(a, b, j, i) <=> j <= f[i]
<1>. DEFINE n == Len(a)
            m == Len(b)
            before(i) == {j \in DOMAIN b : WrittenBefore(a, b, j, i)}
            after(j)  == {i \in DOMAIN a : ~ WrittenBefore(a, b, j, i)}
            f == [i \in 1..n |-> Cardinality(before(i))]
            g == [j \in 1..m |-> Cardinality(after(j))]
<1>1. n \in Nat /\ m \in Nat /\ DOMAIN a = 1..n /\ DOMAIN b = 1..m
  BY LenProperties
<1>2. ASSUME NEW i \in 1..n, NEW j \in 1..m, WrittenBefore(a, b, j, i)
      PROVE  /\ \A y \in 1..m : y <= j => WrittenBefore(a, b, y, i)
             /\ \A x \in 1..n : i <= x => WrittenBefore(a, b, j, x)
  BY <1>1, <1>2 DEF WrittenBefore
<1>. HIDE DEF n, m
<1>3. \A i \in 1..n : Cardinality(before(i)) \in 0..m /\ before(i) = 1..Cardinality(before(i))
  <2>. SUFFICES ASSUME NEW i \in 1..n
                PROVE  Cardinality(before(i)) \in 0..m /\ before(i) = 1..Cardinality(before(i))
    OBVIOUS
  <2>1. \A x \in before(i) : \A y \in 1..m : y <= x => y \in before(i)
    BY <1>1, <1>2
  <2>2. before(i) \in SUBSET (1..m)
    BY <1>1
  <2>. HIDE DEF before
  <2>. QED
    BY <1>1, <2>1, <2>2, InitialSegment
<1>4. \A j \in 1..m : Cardinality(after(j)) \in 0..n /\ after(j) = 1..Cardinality(after(j))
  <2>. SUFFICES ASSUME NEW j \in 1..m
                PROVE  Cardinality(after(j)) \in 0..n /\ after(j) = 1..Cardinality(after(j))
    OBVIOUS
  <2>1. \A x \in after(j) : \A y \in 1..n : y <= x => y \in after(j)
    BY <1>1, <1>2
  <2>2. after(j) \in SUBSET (1..n)
    BY <1>1
  <2>. HIDE DEF after
  <2>. QED
    BY <1>1, <2>1, <2>2, InitialSegment
<1>5. ASSUME NEW i \in 1..n, NEW j \in 1..m
      PROVE  /\ i <= g[j] <=> j > f[i]
             /\ WrittenBefore(a, b, j, i) <=> j <= f[i]
  <2>1. i \in after(j) <=> j \notin before(i)
    BY <1>1
  <2>2. j \in before(i) <=> WrittenBefore(a, b, j, i)
    BY <1>1
  <2>3. g[j] = Cardinality(after(j)) /\ f[i] = Cardinality(before(i))
    OBVIOUS
  <2>. HIDE DEF before, after, f, g
  <2>4. (i \in after(j) <=> i <= g[j]) /\ (j \in before(i) <=> j <= f[i])
    BY <1>1, <1>3, <1>4, <2>3
  <2>5. g[j] \in Nat /\ f[i] \in Nat
    BY <1>3, <1>4, <2>3
  <2>. QED
    BY <1>1, <2>1, <2>2, <2>4, <2>5
<1>6. f \in [1..n -> 0..m] /\ g \in [1..m -> 0..n]
  <2>. HIDE DEF before, after
  <2>. QED
    BY <1>3, <1>4
<1>7. \A i \in DOMAIN a : PositionOfLeft(a, b, i) = i + f[i]
  BY <1>1 DEF PositionOfLeft
<1>8. \A j \in DOMAIN b : PositionOfRight(a, b, j) = j + g[j]
  BY <1>1 DEF PositionOfRight
<1>. HIDE DEF f, g
<1>9. Interleaving(n, m, f, g)
  BY <1>5, <1>6 DEF Interleaving
<1>. QED
  BY <1>1, <1>5, <1>7, <1>8, <1>9 DEF n, m

\* The two cases of the definition of Merged, and no third one.
LEMMA MergedAt ==
    ASSUME NEW a \in Seq(Item), NEW b \in Seq(Item)
    PROVE  /\ DOMAIN Merged(a, b) = 1..(Len(a) + Len(b))
           /\ \A i \in DOMAIN a : /\ PositionOfLeft(a, b, i) \in DOMAIN Merged(a, b)
                                 /\ Merged(a, b)[PositionOfLeft(a, b, i)] = a[i]
           /\ \A j \in DOMAIN b : /\ PositionOfRight(a, b, j) \in DOMAIN Merged(a, b)
                                 /\ Merged(a, b)[PositionOfRight(a, b, j)] = b[j]
           /\ \A k \in DOMAIN Merged(a, b) :
                 \/ \E i \in DOMAIN a : PositionOfLeft(a, b, i) = k
                 \/ \E j \in DOMAIN b : PositionOfRight(a, b, j) = k
<1>. DEFINE n == Len(a)
            m == Len(b)
            left(k)  == {i \in DOMAIN a : PositionOfLeft(a, b, i) = k}
            right(k) == {j \in DOMAIN b : PositionOfRight(a, b, j) = k}
<1>1. n \in Nat /\ m \in Nat /\ DOMAIN a = 1..n /\ DOMAIN b = 1..m
  BY LenProperties
<1>2. PICK f, g : /\ Interleaving(n, m, f, g)
                  /\ \A i \in 1..n : PositionOfLeft(a, b, i) = i + f[i]
                  /\ \A j \in 1..m : PositionOfRight(a, b, j) = j + g[j]
  BY <1>1, MergeInterleaves
<1>3. /\ DOMAIN Merged(a, b) = 1..(n + m)
      /\ \A k \in 1..(n + m) : Merged(a, b)[k] = IF left(k) # {} THEN a[Min(left(k))]
                                                 ELSE IF right(k) # {} THEN b[Min(right(k))]
                                                 ELSE BlankItem
  BY DEF Merged
<1>4. \A k : /\ left(k) # {} => Min(left(k)) \in left(k)
             /\ right(k) # {} => Min(right(k)) \in right(k)
  <2>. SUFFICES ASSUME NEW k
                PROVE  /\ left(k) # {} => Min(left(k)) \in left(k)
                       /\ right(k) # {} => Min(right(k)) \in right(k)
    OBVIOUS
  <2>1. left(k) \in SUBSET DOMAIN a /\ right(k) \in SUBSET DOMAIN b
    OBVIOUS
  <2>. HIDE DEF left, right
  <2>. QED
    BY <2>1, SearchFinds
<1>. HIDE DEF n, m
<1>5. ASSUME NEW k \in 1..(n + m)
      PROVE  \/ \E i \in DOMAIN a : PositionOfLeft(a, b, i) = k
             \/ \E j \in DOMAIN b : PositionOfRight(a, b, j) = k
  <2>1. (\E i \in 1..n : i + f[i] = k) \/ (\E j \in 1..m : j + g[j] = k)
    BY <1>1, <1>2, PositionsFill
  <2>. QED
    BY <1>1, <1>2, <2>1
<1>6. ASSUME NEW i \in DOMAIN a
      PROVE  /\ PositionOfLeft(a, b, i) \in DOMAIN Merged(a, b)
             /\ Merged(a, b)[PositionOfLeft(a, b, i)] = a[i]
  <2>. DEFINE k == i + f[i]
  <2>1. k \in 1..(n + m)
    BY <1>1, <1>2, PositionsDiffer
  <2>2. left(k) = {i}
    BY <1>1, <1>2, PositionsDiffer
  <2>3. Min(left(k)) = i
    BY <1>4, <2>2
  <2>. QED
    BY <1>1, <1>2, <1>3, <2>1, <2>2, <2>3
<1>7. ASSUME NEW j \in DOMAIN b
      PROVE  /\ PositionOfRight(a, b, j) \in DOMAIN Merged(a, b)
             /\ Merged(a, b)[PositionOfRight(a, b, j)] = b[j]
  <2>. DEFINE k == j + g[j]
  <2>1. k \in 1..(n + m)
    BY <1>1, <1>2, PositionsDiffer
  <2>2. left(k) = {}
    BY <1>1, <1>2, PositionsDiffer
  <2>3. right(k) = {j}
    BY <1>1, <1>2, PositionsDiffer
  <2>4. Min(right(k)) = j
    BY <1>4, <2>3
  <2>. QED
    BY <1>1, <1>2, <1>3, <2>1, <2>2, <2>3, <2>4
<1>. QED
  BY <1>3, <1>5, <1>6, <1>7 DEF n, m

LEMMA MergedItems ==
    ASSUME NEW a \in Seq(Item), NEW b \in Seq(Item)
    PROVE  /\ DOMAIN Merged(a, b) = 1..(Len(a) + Len(b))
           /\ \A k \in DOMAIN Merged(a, b) :
                 \/ \E i \in DOMAIN a : Merged(a, b)[k] = a[i]
                 \/ \E j \in DOMAIN b : Merged(a, b)[k] = b[j]
           /\ \A i \in DOMAIN a : \E k \in DOMAIN Merged(a, b) : Merged(a, b)[k] = a[i]
           /\ \A j \in DOMAIN b : \E k \in DOMAIN Merged(a, b) : Merged(a, b)[k] = b[j]
BY MergedAt

\* std::ranges::merge of any two lists holds the items of both and nothing else.
THEOREM MergeKeepsItems ==
    ASSUME NEW a \in Seq(Item), NEW b \in Seq(Item)
    PROVE  ToSet(Merged(a, b)) = ToSet(a) \cup ToSet(b)
<1>. DEFINE c == Merged(a, b)
<1>1. /\ \A k \in DOMAIN c : (\E i \in DOMAIN a : c[k] = a[i]) \/ (\E j \in DOMAIN b : c[k] = b[j])
      /\ \A i \in DOMAIN a : \E k \in DOMAIN c : c[k] = a[i]
      /\ \A j \in DOMAIN b : \E k \in DOMAIN c : c[k] = b[j]
  BY MergedItems
<1>. HIDE DEF c
<1>2. ToSet(c) \subseteq ToSet(a) \cup ToSet(b)
  BY <1>1 DEF ToSet
<1>3. ToSet(a) \subseteq ToSet(c) /\ ToSet(b) \subseteq ToSet(c)
  <2>1. \A i \in DOMAIN a : a[i] \in ToSet(c)
    BY <1>1 DEF ToSet
  <2>2. \A j \in DOMAIN b : b[j] \in ToSet(c)
    BY <1>1 DEF ToSet
  <2>. QED
    BY <2>1, <2>2 DEF ToSet
<1>. QED
  BY <1>2, <1>3 DEF c

-----------------------------------------------------------------------------
(***************************************************************************)
(* Where the items of a library come from.  An operation takes items from  *)
(* the places of the library it is given to other places, each at most     *)
(* once, and fills the places of N with new ones: it never copies an item. *)
(***************************************************************************)
Comes(r, l, N) ==
    \E h \in Injection(Spots(r) \ N, Spots(l)) :
        \A p \in Spots(r) \ N : ItemAt(r, p) = ItemAt(l, h[p])

LEMMA SpotsAre ==
    ASSUME NEW l
    PROVE  /\ \A i, j : <<i, j>> \in Spots(l) <=> i \in DOMAIN l.vec /\ j \in DOMAIN l.vec[i].cache.items
           /\ \A i, j : ItemAt(l, <<i, j>>) = l.vec[i].cache.items[j]
           /\ \A p \in Spots(l) : /\ p = <<p[1], p[2]>>
                                  /\ p[1] \in DOMAIN l.vec
                                  /\ p[2] \in DOMAIN l.vec[p[1]].cache.items
<1>1. \A p \in Spots(l) : \E i \in DOMAIN l.vec : p \in {i} \X DOMAIN l.vec[i].cache.items
  BY DEF Spots
<1>2. \A i \in DOMAIN l.vec : \A j \in DOMAIN l.vec[i].cache.items : <<i, j>> \in Spots(l)
  <2>. SUFFICES ASSUME NEW i \in DOMAIN l.vec, NEW j \in DOMAIN l.vec[i].cache.items
                PROVE  <<i, j>> \in Spots(l)
    OBVIOUS
  <2>1. <<i, j>> \in {i} \X DOMAIN l.vec[i].cache.items
    OBVIOUS
  <2>. QED
    BY <2>1 DEF Spots
<1>3. ASSUME NEW p \in Spots(l)
      PROVE  /\ p = <<p[1], p[2]>>
             /\ p[1] \in DOMAIN l.vec /\ p[2] \in DOMAIN l.vec[p[1]].cache.items
  <2>1. PICK i \in DOMAIN l.vec : p \in {i} \X DOMAIN l.vec[i].cache.items
    BY <1>1
  <2>. QED
    BY <2>1
<1>4. ASSUME NEW i, NEW j, <<i, j>> \in Spots(l)
      PROVE  i \in DOMAIN l.vec /\ j \in DOMAIN l.vec[i].cache.items
  <2>1. <<i, j>>[1] = i /\ <<i, j>>[2] = j
    OBVIOUS
  <2>. QED
    BY <1>3, <1>4, <2>1
<1>5. \A i, j : ItemAt(l, <<i, j>>) = l.vec[i].cache.items[j]
  BY DEF ItemAt
<1>. QED
  BY <1>2, <1>3, <1>4, <1>5

\* The items at the places are items, and there are finitely many places.
LEMMA SpotItems ==
    ASSUME NEW l \in SoundLibrary
    PROVE  /\ \A p \in Spots(l) : ItemAt(l, p) \in Item
           /\ IsFiniteSet(Spots(l))
<1>. DEFINE row == [i \in DOMAIN l.vec |-> {i} \X DOMAIN l.vec[i].cache.items]
            rows == {{i} \X DOMAIN l.vec[i].cache.items : i \in DOMAIN l.vec}
<1>1. \A i \in DOMAIN l.vec : l.vec[i].cache.items \in Seq(Item)
  BY SoundEntries DEF MarkedEntry, MarkedCache, Cache
<1>2. \A i \in DOMAIN l.vec : \A j \in DOMAIN l.vec[i].cache.items : l.vec[i].cache.items[j] \in Item
  BY <1>1, LenProperties, ElementOfSeq
<1>3. \A p \in Spots(l) : ItemAt(l, p) \in Item
  BY <1>2, SpotsAre DEF ItemAt
<1>4. row \in Surjection(DOMAIN l.vec, rows)
  BY DEF Surjection
<1>5. IsFiniteSet(DOMAIN l.vec)
  BY SoundEntries, FS_Interval
<1>6. IsFiniteSet(rows)
  BY <1>4, <1>5, FS_Surjection
<1>7. ASSUME NEW i \in DOMAIN l.vec
      PROVE  IsFiniteSet({i} \X DOMAIN l.vec[i].cache.items)
  <2>1. Len(l.vec[i].cache.items) \in Nat
        /\ DOMAIN l.vec[i].cache.items = 1..Len(l.vec[i].cache.items)
    BY <1>1, LenProperties
  <2>. DEFINE n == Len(l.vec[i].cache.items)
  <2>2. IsFiniteSet(1..n)
    BY <2>1, FS_Interval
  <2>3. IsFiniteSet({i})
    BY FS_Singleton
  <2>. HIDE DEF n
  <2>4. IsFiniteSet({i} \X (1..n))
    BY <2>2, <2>3, FS_Product
  <2>. QED
    BY <2>1, <2>4 DEF n
<1>8. \A T \in rows : IsFiniteSet(T)
  BY <1>7
<1>9. IsFiniteSet(UNION rows)
  BY <1>6, <1>8, FS_UNION
<1>. QED
  BY <1>3, <1>9 DEF Spots

\* What is true of all the items stays true, and no kind of item multiplies.
LEMMA ComesKeeps ==
    ASSUME NEW r, NEW l, NEW N, Comes(r, l, N), NEW G,
           \A p \in Spots(l) : ItemAt(l, p) \in G,
           \A p \in Spots(r) \cap N : ItemAt(r, p) \in G
    PROVE  \A p \in Spots(r) : ItemAt(r, p) \in G
<1>1. PICK h \in Injection(Spots(r) \ N, Spots(l)) :
            \A p \in Spots(r) \ N : ItemAt(r, p) = ItemAt(l, h[p])
  BY DEF Comes
<1>2. \A p \in Spots(r) \ N : h[p] \in Spots(l)
  BY DEF Injection
<1>. QED
  BY <1>1, <1>2

LEMMA ComesCounts ==
    ASSUME NEW r, NEW l \in SoundLibrary, NEW N, Comes(r, l, N), IsFiniteSet(N), NEW G
    PROVE  /\ Cardinality(Holding(r, G)) \in Nat
           /\ Cardinality(Holding(r, G))
                 <= Cardinality(Holding(l, G)) + Cardinality(Holding(r, G) \cap N)
<1>1. PICK h \in Injection(Spots(r) \ N, Spots(l)) :
            \A p \in Spots(r) \ N : ItemAt(r, p) = ItemAt(l, h[p])
  BY DEF Comes
<1>. DEFINE old == Holding(r, G) \ N
            new == Holding(r, G) \cap N
            f   == [p \in old |-> h[p]]
<1>2. /\ h \in [Spots(r) \ N -> Spots(l)]
      /\ \A p, q \in Spots(r) \ N : h[p] = h[q] => p = q
  BY DEF Injection, IsInjective
<1>3. \A p \in old : p \in Spots(r) \ N /\ ItemAt(r, p) \in G
  BY DEF Holding
<1>4. \A p \in old : h[p] \in Holding(l, G)
  BY <1>1, <1>2, <1>3 DEF Holding
<1>5. f \in [old -> Holding(l, G)] /\ \A p, q \in old : f[p] = f[q] => p = q
  BY <1>2, <1>3, <1>4
<1>. HIDE DEF f
<1>6. f \in Injection(old, Holding(l, G))
  BY <1>5 DEF Injection, IsInjective
<1>7. IsFiniteSet(Holding(l, G))
  BY SpotItems, FS_Subset DEF Holding
<1>8. IsFiniteSet(old) /\ Cardinality(old) <= Cardinality(Holding(l, G))
  BY <1>6, <1>7, FS_Injection
<1>9. IsFiniteSet(new)
  BY FS_Subset
<1>10. Holding(r, G) = old \cup new /\ old \cap new = {}
  OBVIOUS
<1>. HIDE DEF old, new
<1>11. /\ IsFiniteSet(Holding(r, G))
       /\ Cardinality(Holding(r, G)) = Cardinality(old) + Cardinality(new) - Cardinality({})
  BY <1>8, <1>9, <1>10, FS_Union
<1>12. /\ Cardinality(old) \in Nat /\ Cardinality(new) \in Nat /\ Cardinality({}) = 0
       /\ Cardinality(Holding(l, G)) \in Nat /\ Cardinality(Holding(r, G)) \in Nat
  BY <1>7, <1>8, <1>9, <1>11, FS_CardinalityType, FS_EmptySet
<1>. QED
  BY <1>8, <1>11, <1>12 DEF new

\* The items that stay where they are.
LEMMA StayingComes ==
    ASSUME NEW r, NEW l, NEW N, Spots(r) \ N \subseteq Spots(l),
           \A p \in Spots(r) \ N : ItemAt(r, p) = ItemAt(l, p)
    PROVE  Comes(r, l, N)
<1>. DEFINE h == [p \in Spots(r) \ N |-> p]
<1>1. h \in Injection(Spots(r) \ N, Spots(l))
  BY DEF Injection, IsInjective
<1>2. \A p \in Spots(r) \ N : ItemAt(r, p) = ItemAt(l, h[p])
  OBVIOUS
<1>. HIDE DEF h
<1>. QED
  BY <1>1, <1>2 DEF Comes

-----------------------------------------------------------------------------
\* The places of a library with another cache at p.
LEMMA UpdatedVec ==
    ASSUME NEW l \in SoundLibrary, NEW p \in DOMAIN l.vec, NEW c
    PROVE  /\ DOMAIN [l EXCEPT !.vec[p].cache = c].vec = DOMAIN l.vec
           /\ \A i \in DOMAIN l.vec :
                 /\ [l EXCEPT !.vec[p].cache = c].vec[i].name = l.vec[i].name
                 /\ [l EXCEPT !.vec[p].cache = c].vec[i].cache
                       = IF i = p THEN c ELSE l.vec[i].cache
BY SoundEntries DEF SoundLibrary, MarkedEntry

LEMMA UpdatedComes ==
    ASSUME NEW l \in SoundLibrary, NEW p \in DOMAIN l.vec, NEW c, NEW N,
           \A j \in DOMAIN c.items :
              \/ <<p, j>> \in N
              \/ j \in DOMAIN l.vec[p].cache.items /\ c.items[j] = l.vec[p].cache.items[j]
    PROVE  Comes([l EXCEPT !.vec[p].cache = c], l, N)
<1>. DEFINE r == [l EXCEPT !.vec[p].cache = c]
<1>1. /\ DOMAIN r.vec = DOMAIN l.vec
      /\ \A i \in DOMAIN l.vec : r.vec[i].cache = IF i = p THEN c ELSE l.vec[i].cache
  BY UpdatedVec
<1>. HIDE DEF r
<1>2. ASSUME NEW q \in Spots(r) \ N
      PROVE  q \in Spots(l) /\ ItemAt(r, q) = ItemAt(l, q)
  <2>1. PICK i \in DOMAIN l.vec : \E j \in DOMAIN r.vec[i].cache.items : q = <<i, j>>
    BY <1>1, SpotsAre
  <2>2. PICK j \in DOMAIN r.vec[i].cache.items : q = <<i, j>>
    BY <2>1
  <2>3. j \in DOMAIN l.vec[i].cache.items /\ r.vec[i].cache.items[j] = l.vec[i].cache.items[j]
    BY <1>1, <1>2, <2>2
  <2>. QED
    BY <2>2, <2>3, SpotsAre
<1>3. Comes(r, l, N)
  BY <1>2, StayingComes
<1>. QED
  BY <1>3 DEF r

\* The places of a library with another collection at its end.
EndSpots(l, c) == {Len(l.vec) + 1} \X DOMAIN c.items

LEMMA AppendedVec ==
    ASSUME NEW l \in SoundLibrary, NEW n \in Names, NEW c \in MarkedCache
    PROVE  /\ DOMAIN [l EXCEPT !.vec = Append(@, [name |-> n, cache |-> c])].vec
                 = DOMAIN l.vec \cup {Len(l.vec) + 1}
           /\ Len(l.vec) + 1 \notin DOMAIN l.vec
           /\ \A i \in DOMAIN l.vec :
                 [l EXCEPT !.vec = Append(@, [name |-> n, cache |-> c])].vec[i] = l.vec[i]
           /\ [l EXCEPT !.vec = Append(@, [name |-> n, cache |-> c])].vec[Len(l.vec) + 1].cache = c
           /\ [l EXCEPT !.vec = Append(@, [name |-> n, cache |-> c])].vec[Len(l.vec) + 1].name = n
<1>. DEFINE e   == [name |-> n, cache |-> c]
            vec == Append(l.vec, e)
            end == Len(l.vec) + 1
<1>1. e \in MarkedEntry /\ e.cache = c /\ e.name = n
  BY DEF MarkedEntry
<1>. HIDE DEF e
<1>2. /\ vec \in Seq(MarkedEntry) /\ Len(vec) = Len(l.vec) + 1
      /\ \A i \in 1..Len(l.vec) : vec[i] = l.vec[i]
      /\ vec[end] = e
  BY <1>1, SoundEntries, AppendProperties
<1>3. [l EXCEPT !.vec = vec].vec = vec
  BY DEF SoundLibrary
<1>. HIDE DEF vec
<1>4. /\ DOMAIN vec = 1..(Len(l.vec) + 1) /\ Len(l.vec) \in Nat
      /\ DOMAIN l.vec = 1..Len(l.vec)
  BY <1>2, LenProperties, SoundEntries
<1>5. DOMAIN vec = DOMAIN l.vec \cup {end} /\ end \notin DOMAIN l.vec
  BY <1>4
<1>. QED
  BY <1>1, <1>2, <1>3, <1>4, <1>5 DEF vec, e

Extended(r, l, c) ==
    /\ Spots(r) = Spots(l) \cup EndSpots(l, c)
    /\ Spots(l) \cap EndSpots(l, c) = {}
    /\ \A p \in Spots(l) : ItemAt(r, p) = ItemAt(l, p)
    /\ \A j \in DOMAIN c.items : ItemAt(r, <<Len(l.vec) + 1, j>>) = c.items[j]

LEMMA AppendedSpots ==
    ASSUME NEW l \in SoundLibrary, NEW n \in Names, NEW c \in MarkedCache, NEW r,
           r = [l EXCEPT !.vec = Append(@, [name |-> n, cache |-> c])]
    PROVE  Extended(r, l, c)
<1>. DEFINE end == Len(l.vec) + 1
<1>1. /\ DOMAIN r.vec = DOMAIN l.vec \cup {end} /\ end \notin DOMAIN l.vec
      /\ \A i \in DOMAIN l.vec : r.vec[i] = l.vec[i]
      /\ r.vec[end].cache = c
  BY AppendedVec
<1>. HIDE DEF end
<1>2. ASSUME NEW p
      PROVE  p \in Spots(r) <=> p \in Spots(l) \/ p \in {end} \X DOMAIN c.items
  <2>1. ASSUME p \in Spots(r)
        PROVE  p \in Spots(l) \/ p \in {end} \X DOMAIN c.items
    <3>1. /\ p = <<p[1], p[2]>> /\ p[1] \in DOMAIN r.vec
          /\ p[2] \in DOMAIN r.vec[p[1]].cache.items
      BY <2>1, SpotsAre
    <3>2. CASE p[1] = end
      BY <1>1, <3>1, <3>2
    <3>3. CASE p[1] # end
      <4>1. p[1] \in DOMAIN l.vec /\ p[2] \in DOMAIN l.vec[p[1]].cache.items
        BY <1>1, <3>1, <3>3
      <4>2. <<p[1], p[2]>> \in Spots(l)
        BY <4>1, SpotsAre
      <4>. QED
        BY <3>1, <4>2
    <3>. QED
      BY <3>2, <3>3
  <2>2. ASSUME p \in Spots(l) PROVE p \in Spots(r)
    <3>1. /\ p = <<p[1], p[2]>> /\ p[1] \in DOMAIN l.vec
          /\ p[2] \in DOMAIN l.vec[p[1]].cache.items
      BY <2>2, SpotsAre
    <3>2. p[1] \in DOMAIN r.vec /\ p[2] \in DOMAIN r.vec[p[1]].cache.items
      BY <1>1, <3>1
    <3>3. <<p[1], p[2]>> \in Spots(r)
      BY <3>2, SpotsAre
    <3>. QED
      BY <3>1, <3>3
  <2>3. ASSUME p \in {end} \X DOMAIN c.items PROVE p \in Spots(r)
    <3>1. PICK j \in DOMAIN c.items : p = <<end, j>>
      BY <2>3
    <3>. QED
      BY <1>1, <3>1, SpotsAre
  <2>. QED
    BY <2>1, <2>2, <2>3
<1>3. \A p \in Spots(l) : p[1] \in DOMAIN l.vec
  BY SpotsAre
<1>4. \A p \in {end} \X DOMAIN c.items : p[1] = end
  OBVIOUS
<1>5. Spots(l) \cap ({end} \X DOMAIN c.items) = {}
  BY <1>1, <1>3, <1>4
<1>6. \A p \in Spots(l) : ItemAt(r, p) = ItemAt(l, p)
  BY <1>1, <1>3 DEF ItemAt
<1>7. \A j \in DOMAIN c.items : ItemAt(r, <<end, j>>) = c.items[j]
  <2>1. \A j : ItemAt(r, <<end, j>>) = r.vec[end].cache.items[j]
    BY DEF ItemAt
  <2>. QED
    BY <1>1, <2>1
<1>. QED
  BY <1>2, <1>5, <1>6, <1>7 DEF Extended, EndSpots, end

LEMMA AppendedComes ==
    ASSUME NEW l \in SoundLibrary, NEW n \in Names, NEW c \in MarkedCache
    PROVE  Comes([l EXCEPT !.vec = Append(@, [name |-> n, cache |-> c])], l, EndSpots(l, c))
<1>1. ASSUME NEW r, r = [l EXCEPT !.vec = Append(@, [name |-> n, cache |-> c])]
      PROVE  Comes(r, l, EndSpots(l, c))
  <2>1. /\ Spots(r) = Spots(l) \cup EndSpots(l, c)
        /\ \A p \in Spots(l) : ItemAt(r, p) = ItemAt(l, p)
    BY <1>1, AppendedSpots DEF Extended
  <2>. QED
    BY <2>1, StayingComes
<1>. QED
  BY <1>1

\* The operations that move nothing.
LEMMA SameVecComes ==
    ASSUME NEW r, NEW l, DOMAIN r.vec = DOMAIN l.vec,
           \A i \in DOMAIN l.vec : r.vec[i].cache.items = l.vec[i].cache.items
    PROVE  Comes(r, l, {})
<1>1. ASSUME NEW q \in Spots(r)
      PROVE  q \in Spots(l) /\ ItemAt(r, q) = ItemAt(l, q)
  <2>1. /\ q = <<q[1], q[2]>> /\ q[1] \in DOMAIN r.vec
        /\ q[2] \in DOMAIN r.vec[q[1]].cache.items
    BY SpotsAre
  <2>2. q[1] \in DOMAIN l.vec /\ q[2] \in DOMAIN l.vec[q[1]].cache.items
    BY <2>1
  <2>3. <<q[1], q[2]>> \in Spots(l)
    BY <2>2, SpotsAre
  <2>. QED
    BY <2>1, <2>2, <2>3 DEF ItemAt
<1>. QED
  BY <1>1, StayingComes

LEMMA TouchComes ==
    ASSUME NEW l \in SoundLibrary, NEW p \in DOMAIN l.vec
    PROVE  Comes([l EXCEPT !.vec[p].cache = CacheTouch(@)], l, {})
<1>. DEFINE c == CacheTouch(l.vec[p].cache)
<1>1. c.items = l.vec[p].cache.items
  BY SoundEntries DEF CacheTouch, MarkedEntry, MarkedCache, Cache
<1>2. [l EXCEPT !.vec[p].cache = CacheTouch(@)] = [l EXCEPT !.vec[p].cache = c]
  OBVIOUS
<1>. HIDE DEF c
<1>3. Comes([l EXCEPT !.vec[p].cache = c], l, {})
  BY <1>1, UpdatedComes
<1>. QED
  BY <1>2, <1>3

LEMMA GetCacheComes ==
    ASSUME NEW l \in SoundLibrary, NEW n \in Strings
    PROVE  Comes(LibGetCache(l, n).lib, l, {})
<1>. DEFINE p == LibFind(l, n)
<1>1. CASE LibExists(l, n)
  <2>1. p \in DOMAIN l.vec
    BY <1>1, LibFindFinds
  <2>. HIDE DEF p
  <2>2. Comes([l EXCEPT !.vec[p].cache = CacheTouch(@)], l, {})
    BY <2>1, TouchComes
  <2>. QED
    BY <1>1, <2>2 DEF LibGetCache, Ok, Result, p
<1>2. CASE ~ LibExists(l, n)
  <2>1. Comes(l, l, {})
    BY SameVecComes
  <2>. QED
    BY <1>2, <2>1 DEF LibGetCache, Result
<1>. QED
  BY <1>1, <1>2

LEMMA ChangeActiveComes ==
    ASSUME NEW l \in SoundLibrary, NEW n
    PROVE  Comes(LibChangeActive(l, n).lib, l, {})
<1>1. [l EXCEPT !.active = n, !.current = LibFind(l, n) - 1].vec = l.vec
  BY DEF SoundLibrary
<1>2. LibChangeActive(l, n).lib.vec = l.vec
  BY <1>1 DEF LibChangeActive, Ok, Result
<1>. QED
  BY <1>2, SameVecComes

LEMMA RenameComes ==
    ASSUME NEW l \in SoundLibrary, NEW from \in Names, NEW to \in Names
    PROVE  Comes(LibRename(l, from, to).lib, l, {})
<1>. DEFINE p   == LibFind(l, from)
            act == IF l.active = from THEN to ELSE l.active
            r   == [l EXCEPT !.vec[p].name = to, !.active = act]
<1>1. CASE from # to /\ LibExists(l, from) /\ ~ LibExists(l, to)
  <2>1. p \in DOMAIN l.vec
    BY <1>1, LibFindFinds
  <2>2. LibRename(l, from, to).lib = r
    BY <1>1 DEF LibRename, Ok, Result
  <2>. HIDE DEF p, act
  <2>3. DOMAIN r.vec = DOMAIN l.vec
    BY SoundEntries DEF SoundLibrary
  <2>4. \A i \in DOMAIN l.vec : r.vec[i].cache = l.vec[i].cache
    BY SoundEntries DEF SoundLibrary, MarkedEntry
  <2>. HIDE DEF r
  <2>. QED
    BY <2>2, <2>3, <2>4, SameVecComes
<1>2. CASE ~ (from # to /\ LibExists(l, from) /\ ~ LibExists(l, to))
  <2>1. Comes(l, l, {})
    BY SameVecComes
  <2>. QED
    BY <1>2, <2>1 DEF LibRename, Result
<1>. QED
  BY <1>1, <1>2

LEMMA InsertComes ==
    ASSUME NEW l \in SoundLibrary, NEW n \in Names, NEW c \in MarkedCache
    PROVE  Comes(LibInsert(l, n, c).lib, l, EndSpots(l, c))
<1>1. Comes(l, l, EndSpots(l, c))
  BY StayingComes
<1>. QED
  BY <1>1, AppendedComes DEF LibInsert, Ok, Result

\* A wallpaper that is new to a collection gets the place behind its last one.
EndSpot(l, p) == <<p, Len(l.vec[p].cache.items) + 1>>

Added(l, p, w, loc) == [l EXCEPT !.vec[p].cache = CacheInsert(@, w, loc)]

LEMMA AddComes ==
    ASSUME NEW l \in SoundLibrary, NEW p \in DOMAIN l.vec, NEW w \in Walls, NEW loc \in Locs,
           NEW r, r = Added(l, p, w, loc)
    PROVE  \/ CacheContains(l.vec[p].cache, w) /\ Comes(r, l, {})
           \/ /\ ~ CacheContains(l.vec[p].cache, w)
              /\ Comes(r, l, {EndSpot(l, p)})
              /\ ItemAt(r, EndSpot(l, p)) = [value |-> w, state |-> "unused", loc |-> loc]
<1>. DEFINE c    == l.vec[p].cache
            item == [value |-> w, state |-> "unused", loc |-> loc]
            e    == CacheInsert(c, w, loc)
            end  == Len(c.items) + 1
<1>1. c \in MarkedCache /\ c.items \in Seq(Item) /\ item \in Item
  BY SoundEntries DEF MarkedEntry, MarkedCache, Cache, Item, States
<1>2. r = [l EXCEPT !.vec[p].cache = e]
  BY DEF Added
<1>3. CASE CacheContains(c, w)
  <2>1. e = c
    BY <1>3 DEF CacheInsert
  <2>2. c.items = l.vec[p].cache.items
    OBVIOUS
  <2>3. r = [l EXCEPT !.vec[p].cache = c]
    BY <1>2, <2>1
  <2>. HIDE DEF c, e
  <2>4. Comes([l EXCEPT !.vec[p].cache = c], l, {})
    BY <2>2, UpdatedComes
  <2>. QED
    BY <1>3, <2>3, <2>4 DEF c
<1>4. CASE ~ CacheContains(c, w)
  <2>1. e.items = Append(c.items, item)
    BY <1>4 DEF CacheInsert
  <2>2. /\ Len(e.items) = end /\ e.items \in Seq(Item) /\ e.items[end] = item
        /\ \A j \in 1..Len(c.items) : e.items[j] = c.items[j]
    BY <1>1, <2>1, AppendProperties
  <2>3. DOMAIN e.items = 1..end /\ DOMAIN c.items = 1..Len(c.items) /\ Len(c.items) \in Nat
    BY <1>1, <2>2, LenProperties
  <2>4. r.vec[p].cache = e
    BY <1>2, UpdatedVec
  <2>5. EndSpot(l, p) = <<p, end>>
    BY DEF EndSpot
  <2>6. ItemAt(r, <<p, end>>) = item
    BY <2>2, <2>4 DEF ItemAt
  <2>. HIDE DEF c, e, item, end
  <2>7. \A j \in DOMAIN e.items : (j \in DOMAIN c.items /\ e.items[j] = c.items[j]) \/ j = end
    BY <2>2, <2>3 DEF end
  <2>8. Comes([l EXCEPT !.vec[p].cache = e], l, {<<p, end>>})
    BY <2>7, UpdatedComes DEF c
  <2>9. Comes(r, l, {EndSpot(l, p)})
    BY <1>2, <2>5, <2>8
  <2>10. ItemAt(r, EndSpot(l, p)) = item
    BY <2>5, <2>6
  <2>. QED
    BY <1>4, <2>9, <2>10 DEF c, item
<1>. QED
  BY <1>3, <1>4

-----------------------------------------------------------------------------
\* vector::erase: the items behind k come forward by one place.
Shift(k, j) == IF j < k THEN j ELSE j + 1

LEMMA ErasedItems ==
    ASSUME NEW c \in MarkedCache, NEW k \in DOMAIN c.items
    PROVE  /\ \A j \in DOMAIN CacheErase(c, k).items :
                 /\ Shift(k, j) \in DOMAIN c.items /\ Shift(k, j) # k
                 /\ CacheErase(c, k).items[j] = c.items[Shift(k, j)]
           /\ \A i, j \in DOMAIN CacheErase(c, k).items : Shift(k, i) = Shift(k, j) => i = j
<1>. DEFINE s == RemoveAt(c.items, k)
<1>1. c.items \in Seq(Item)
  BY DEF MarkedCache, Cache
<1>2. /\ s \in Seq(Item) /\ Len(s) = Len(c.items) - 1
      /\ \A j \in 1..(Len(c.items) - 1) : s[j] = IF j < k THEN c.items[j] ELSE c.items[j + 1]
  BY <1>1, RemoveAtProperties
<1>3. /\ Len(c.items) \in Nat /\ DOMAIN c.items = 1..Len(c.items)
      /\ DOMAIN s = 1..(Len(c.items) - 1)
  BY <1>1, <1>2, LenProperties
<1>4. CacheErase(c, k).items = s
  BY DEF CacheErase
<1>. HIDE DEF s
<1>5. \A j \in DOMAIN s : Shift(k, j) \in DOMAIN c.items /\ Shift(k, j) # k
                          /\ s[j] = c.items[Shift(k, j)]
  BY <1>2, <1>3 DEF Shift
<1>6. \A i, j \in DOMAIN s : Shift(k, i) = Shift(k, j) => i = j
  BY <1>3 DEF Shift
<1>. QED
  BY <1>4, <1>5, <1>6

LEMMA EraseComes ==
    ASSUME NEW l \in SoundLibrary, NEW p \in DOMAIN l.vec, NEW k \in DOMAIN l.vec[p].cache.items,
           NEW r, r = [l EXCEPT !.vec[p].cache = CacheErase(@, k)]
    PROVE  Comes(r, l, {})
<1>. DEFINE c    == l.vec[p].cache
            e    == CacheErase(c, k)
            from(q) == IF q[1] = p THEN <<p, Shift(k, q[2])>> ELSE q
            h    == [q \in Spots(r) |-> from(q)]
<1>1. c \in MarkedCache
  BY SoundEntries DEF MarkedEntry
<1>2. /\ \A j \in DOMAIN e.items : Shift(k, j) \in DOMAIN c.items /\ e.items[j] = c.items[Shift(k, j)]
      /\ \A i, j \in DOMAIN e.items : Shift(k, i) = Shift(k, j) => i = j
  BY <1>1, ErasedItems
<1>3. /\ DOMAIN r.vec = DOMAIN l.vec
      /\ \A i \in DOMAIN l.vec : r.vec[i].cache = IF i = p THEN e ELSE l.vec[i].cache
  BY UpdatedVec
<1>. HIDE DEF c, e
<1>4. ASSUME NEW q \in Spots(r)
      PROVE  /\ from(q) \in Spots(l) /\ from(q)[1] = q[1]
             /\ ItemAt(r, q) = ItemAt(l, from(q))
             /\ q = <<q[1], q[2]>>
             /\ q[1] = p => q[2] \in DOMAIN e.items
  <2>1. /\ q = <<q[1], q[2]>> /\ q[1] \in DOMAIN l.vec /\ q[2] \in DOMAIN r.vec[q[1]].cache.items
    BY <1>3, SpotsAre
  <2>2. CASE q[1] = p
    <3>1. q[2] \in DOMAIN e.items /\ ItemAt(r, q) = e.items[q[2]]
      BY <1>3, <2>1, <2>2 DEF ItemAt
    <3>2. <<p, Shift(k, q[2])>> \in Spots(l)
      BY <1>2, <3>1, SpotsAre DEF c
    <3>3. ItemAt(l, <<p, Shift(k, q[2])>>) = c.items[Shift(k, q[2])]
      BY DEF ItemAt, c
    <3>4. from(q) = <<p, Shift(k, q[2])>>
      BY <2>2
    <3>. QED
      BY <1>2, <2>1, <2>2, <3>1, <3>2, <3>3, <3>4
  <2>3. CASE q[1] # p
    <3>1. q[2] \in DOMAIN l.vec[q[1]].cache.items /\ from(q) = q
      BY <1>3, <2>1, <2>3
    <3>2. <<q[1], q[2]>> \in Spots(l)
      BY <2>1, <3>1, SpotsAre
    <3>3. ItemAt(r, q) = ItemAt(l, q)
      BY <1>3, <2>1, <2>3 DEF ItemAt
    <3>. QED
      BY <2>1, <2>3, <3>1, <3>2, <3>3
  <2>. QED
    BY <2>2, <2>3
<1>5. ASSUME NEW q \in Spots(r), NEW u \in Spots(r), from(q) = from(u)
      PROVE  q = u
  <2>1. /\ q[1] = u[1] /\ q = <<q[1], q[2]>> /\ u = <<u[1], u[2]>>
        /\ q[1] = p => q[2] \in DOMAIN e.items
        /\ u[1] = p => u[2] \in DOMAIN e.items
    BY <1>4, <1>5
  <2>2. CASE q[1] = p
    <3>1. from(q) = <<p, Shift(k, q[2])>> /\ from(u) = <<p, Shift(k, u[2])>>
      BY <2>1, <2>2
    <3>2. Shift(k, q[2]) = Shift(k, u[2])
      BY <1>5, <3>1
    <3>. QED
      BY <1>2, <2>1, <2>2, <3>2
  <2>3. CASE q[1] # p
    BY <1>5, <2>1, <2>3
  <2>. QED
    BY <2>2, <2>3
<1>. HIDE DEF from
<1>6. h \in Injection(Spots(r), Spots(l))
  BY <1>4, <1>5 DEF Injection, IsInjective
<1>7. \A q \in Spots(r) : ItemAt(r, q) = ItemAt(l, h[q])
  BY <1>4
<1>. HIDE DEF h
<1>8. Spots(r) \ {} = Spots(r)
  OBVIOUS
<1>. QED
  BY <1>6, <1>7, <1>8 DEF Comes

LEMMA RemoveItemComes ==
    ASSUME NEW l \in SoundLibrary, NEW n \in Names, NEW w \in Walls
    PROVE  Comes(LibRemoveItem(l, n, w).lib, l, {})
<1>. DEFINE p == LibFind(l, n)
            c == l.vec[p].cache
<1>1. CASE n # w /\ LibExists(l, n)
  <2>1. p \in DOMAIN l.vec /\ c \in MarkedCache
    BY <1>1, LibFindFinds, SoundEntries DEF MarkedEntry
  <2>. HIDE DEF p
  <2>2. Comes([l EXCEPT !.vec[p].cache = CacheTouch(@)], l, {})
    BY <2>1, TouchComes
  <2>3. ASSUME CacheContains(c, w)
        PROVE  Comes([l EXCEPT !.vec[p].cache = CacheErase(@, CacheFind(@, w))], l, {})
    <3>1. CacheFind(c, w) \in DOMAIN c.items
      BY <2>1, <2>3, CacheFindFinds DEF MarkedCache
    <3>. QED
      BY <2>1, <3>1, EraseComes
  <2>. QED
    BY <1>1, <2>2, <2>3 DEF LibRemoveItem, Ok, Result, p
<1>2. CASE ~ (n # w /\ LibExists(l, n))
  <2>1. Comes(l, l, {})
    BY SameVecComes
  <2>. QED
    BY <1>2, <2>1 DEF LibRemoveItem, Result
<1>. QED
  BY <1>1, <1>2

-----------------------------------------------------------------------------
\* vector::push_back: the places of old stay, and there is one new place.
LEMMA AppendGrows ==
    ASSUME NEW S, NEW s \in Seq(S), NEW x \in S, NEW t, t = Append(s, x)
    PROVE  /\ \A j \in DOMAIN t :
                 \/ j \in DOMAIN s /\ t[j] = s[j]
                 \/ j \notin DOMAIN s /\ t[j] = x
           /\ \A i, j \in DOMAIN t \ DOMAIN s : i = j
<1>1. /\ t \in Seq(S) /\ Len(t) = Len(s) + 1 /\ t[Len(s) + 1] = x
      /\ \A j \in 1..Len(s) : t[j] = s[j]
  BY AppendProperties
<1>2. /\ Len(s) \in Nat /\ DOMAIN s = 1..Len(s)
      /\ DOMAIN t = 1..(Len(s) + 1)
  BY <1>1, LenProperties
<1>3. \A j \in DOMAIN t : j \notin DOMAIN s => j = Len(s) + 1
  BY <1>2
<1>4. \A i, j \in DOMAIN t \ DOMAIN s : i = j
  BY <1>3
<1>5. ASSUME NEW j \in DOMAIN t
      PROVE  \/ j \in DOMAIN s /\ t[j] = s[j]
             \/ j \notin DOMAIN s /\ t[j] = x
  BY <1>1, <1>2, <1>3
<1>. QED
  BY <1>4, <1>5

\* move_cache_item: the item that leaves one collection is the one that comes
\* into the other, unless an identical one is there already.
LEMMA MovedComes ==
    ASSUME NEW l \in SoundLibrary, NEW s \in DOMAIN l.vec, NEW d \in DOMAIN l.vec, s # d,
           NEW k \in DOMAIN l.vec[s].cache.items
    PROVE  Comes(UpdateTwice(l, d, CacheInsertElem(l.vec[d].cache, l.vec[s].cache.items[k]),
                             s, CacheErase(l.vec[s].cache, k)), l, {})
<1>. DEFINE from == l.vec[s].cache
            old  == l.vec[d].cache
            item == from.items[k]
            to   == CacheInsertElem(old, item)
            rest == CacheErase(from, k)
            mid  == [l EXCEPT !.vec[d].cache = to]
            r    == UpdateTwice(l, d, to, s, rest)
            src(q) == IF q[1] = s THEN <<s, Shift(k, q[2])>>
                      ELSE IF q[1] = d /\ q[2] \notin DOMAIN old.items THEN <<s, k>>
                      ELSE q
            h    == [q \in Spots(r) |-> src(q)]
<1>. HIDE DEF mid, r, h
<1>1. from \in MarkedCache /\ old \in MarkedCache /\ item \in Item /\ old.items \in Seq(Item)
  <2>1. from \in MarkedCache /\ old \in MarkedCache
    BY SoundEntries DEF MarkedEntry
  <2>2. from.items \in Seq(Item) /\ old.items \in Seq(Item)
    BY <2>1 DEF MarkedCache, Cache
  <2>. QED
    BY <2>1, <2>2, LenProperties, ElementOfSeq
<1>2. /\ \A j \in DOMAIN rest.items :
            /\ Shift(k, j) \in DOMAIN from.items /\ Shift(k, j) # k
            /\ rest.items[j] = from.items[Shift(k, j)]
      /\ \A i, j \in DOMAIN rest.items : Shift(k, i) = Shift(k, j) => i = j
  BY <1>1, ErasedItems
<1>3. to \in MarkedCache /\ rest \in MarkedCache
  BY <1>1, CacheInsertElemMarked, CacheEraseMarked
<1>4. /\ \A j \in DOMAIN to.items :
            \/ j \in DOMAIN old.items /\ to.items[j] = old.items[j]
            \/ j \notin DOMAIN old.items /\ to.items[j] = item
      /\ \A i, j \in DOMAIN to.items \ DOMAIN old.items : i = j
  <2>1. CASE to = old
    BY <2>1
  <2>2. CASE to # old
    <3>1. to.items = Append(old.items, item)
      BY <2>2 DEF CacheInsertElem
    <3>. HIDE DEF from, old, item, to, rest
    <3>. DEFINE new == to.items
    <3>2. new = Append(old.items, item)
      BY <3>1
    <3>. HIDE DEF new
    <3>3. /\ \A j \in DOMAIN new :
                \/ j \in DOMAIN old.items /\ new[j] = old.items[j]
                \/ j \notin DOMAIN old.items /\ new[j] = item
          /\ \A i, j \in DOMAIN new \ DOMAIN old.items : i = j
      BY <1>1, <3>2, AppendGrows
    <3>. QED
      BY <3>3, SMTT(30) DEF new
  <2>. HIDE DEF from, old, item, to, rest
  <2>. QED
    BY <2>1, <2>2
<1>5. mid \in SoundLibrary /\ DOMAIN mid.vec = DOMAIN l.vec
      /\ \A i \in DOMAIN l.vec : mid.vec[i].cache = IF i = d THEN to ELSE l.vec[i].cache
  BY <1>3, UpdateIsSound, UpdatedVec DEF mid
<1>6. r = [mid EXCEPT !.vec[s].cache = rest]
  BY DEF UpdateTwice, r, mid
<1>. HIDE DEF from, old, item, to, rest
<1>7. /\ DOMAIN r.vec = DOMAIN mid.vec
      /\ \A i \in DOMAIN mid.vec : r.vec[i].cache = IF i = s THEN rest ELSE mid.vec[i].cache
  BY <1>5, <1>6, UpdatedVec
<1>8. /\ DOMAIN r.vec = DOMAIN l.vec
      /\ \A i \in DOMAIN l.vec : r.vec[i].cache = IF i = s THEN rest
                                                  ELSE IF i = d THEN to ELSE l.vec[i].cache
  BY <1>5, <1>7
<1>9. ASSUME NEW q \in Spots(r)
      PROVE  /\ src(q) \in Spots(l) /\ ItemAt(r, q) = ItemAt(l, src(q))
             /\ q = <<q[1], q[2]>>
             /\ q[1] = s => q[2] \in DOMAIN rest.items
             /\ q[1] = d => q[2] \in DOMAIN to.items
  <2>1. /\ q = <<q[1], q[2]>> /\ q[1] \in DOMAIN l.vec /\ q[2] \in DOMAIN r.vec[q[1]].cache.items
    BY <1>8, SpotsAre
  <2>2. CASE q[1] = s
    <3>1. q[2] \in DOMAIN rest.items /\ ItemAt(r, q) = rest.items[q[2]]
      BY <1>8, <2>1, <2>2 DEF ItemAt
    <3>2. <<s, Shift(k, q[2])>> \in Spots(l)
      BY <1>2, <3>1, SpotsAre DEF from
    <3>3. ItemAt(l, <<s, Shift(k, q[2])>>) = from.items[Shift(k, q[2])]
      BY DEF ItemAt, from
    <3>4. src(q) = <<s, Shift(k, q[2])>>
      BY <2>2
    <3>. QED
      BY <1>2, <2>1, <2>2, <3>1, <3>2, <3>3, <3>4
  <2>3. CASE q[1] = d
    <3>1. q[2] \in DOMAIN to.items /\ ItemAt(r, q) = to.items[q[2]]
      BY <1>8, <2>1, <2>3 DEF ItemAt
    <3>2. CASE q[2] \in DOMAIN old.items
      <4>1. src(q) = q /\ to.items[q[2]] = old.items[q[2]]
        BY <1>4, <2>3, <3>1, <3>2
      <4>2. <<d, q[2]>> \in Spots(l)
        BY <3>2, SpotsAre DEF old
      <4>3. ItemAt(l, q) = old.items[q[2]]
        BY <2>3 DEF ItemAt, old
      <4>. QED
        BY <2>1, <2>3, <3>1, <4>1, <4>2, <4>3
    <3>3. CASE q[2] \notin DOMAIN old.items
      <4>1. src(q) = <<s, k>> /\ to.items[q[2]] = item
        BY <1>4, <2>3, <3>1, <3>3
      <4>2. <<s, k>> \in Spots(l) /\ ItemAt(l, <<s, k>>) = item
        BY SpotsAre DEF from, item
      <4>. QED
        BY <2>1, <2>3, <3>1, <4>1, <4>2
    <3>. QED
      BY <3>2, <3>3
  <2>4. CASE q[1] # s /\ q[1] # d
    <3>1. q[2] \in DOMAIN l.vec[q[1]].cache.items /\ src(q) = q
      BY <1>8, <2>1, <2>4
    <3>2. <<q[1], q[2]>> \in Spots(l)
      BY <2>1, <3>1, SpotsAre
    <3>3. ItemAt(r, q) = ItemAt(l, q)
      BY <1>8, <2>1, <2>4 DEF ItemAt
    <3>. QED
      BY <2>1, <2>4, <3>1, <3>2, <3>3
  <2>. QED
    BY <2>2, <2>3, <2>4
<1>10. ASSUME NEW q \in Spots(r)
       PROVE  \/ q[1] = s /\ src(q) = <<s, Shift(k, q[2])>> /\ Shift(k, q[2]) # k
              \/ q[1] = d /\ src(q) = <<s, k>> /\ q[2] \in DOMAIN to.items \ DOMAIN old.items
              \/ q[1] # s /\ src(q) = q
  BY <1>2, <1>9
<1>11. ASSUME NEW q \in Spots(r), NEW u \in Spots(r), src(q) = src(u)
       PROVE  q = u
  <2>1. /\ q = <<q[1], q[2]>> /\ u = <<u[1], u[2]>>
        /\ q[1] = s => q[2] \in DOMAIN rest.items
        /\ u[1] = s => u[2] \in DOMAIN rest.items
    BY <1>9
  <2>. HIDE DEF src
  <2>2. CASE q[1] = s /\ u[1] = s
    <3>1. src(q) = <<s, Shift(k, q[2])>> /\ src(u) = <<s, Shift(k, u[2])>>
      BY <1>10, <2>2
    <3>2. <<s, Shift(k, q[2])>>[2] = <<s, Shift(k, u[2])>>[2]
      BY <1>11, <3>1, Zenon
    <3>3. Shift(k, q[2]) = Shift(k, u[2])
      BY <3>2
    <3>. QED
      BY <1>2, <2>1, <2>2, <3>3
  <2>3. CASE q[1] = s /\ u[1] # s
    <3>1. src(q) = <<s, Shift(k, q[2])>> /\ Shift(k, q[2]) # k
      BY <1>10, <2>3
    <3>2. src(u) = <<s, k>> \/ src(u) = u
      BY <1>10, <2>3
    <3>. QED
      BY <1>11, <2>1, <2>3, <3>1, <3>2
  <2>4. CASE q[1] # s /\ u[1] = s
    <3>1. src(u) = <<s, Shift(k, u[2])>> /\ Shift(k, u[2]) # k
      BY <1>10, <2>4
    <3>2. src(q) = <<s, k>> \/ src(q) = q
      BY <1>10, <2>4
    <3>. QED
      BY <1>11, <2>1, <2>4, <3>1, <3>2
  <2>5. CASE q[1] # s /\ u[1] # s
    <3>1. \/ src(q) = <<s, k>> /\ q[1] = d /\ q[2] \in DOMAIN to.items \ DOMAIN old.items
          \/ src(q) = q
      BY <1>10, <2>5
    <3>2. \/ src(u) = <<s, k>> /\ u[1] = d /\ u[2] \in DOMAIN to.items \ DOMAIN old.items
          \/ src(u) = u
      BY <1>10, <2>5
    <3>3. <<s, k>>[1] = s
      OBVIOUS
    <3>. QED
      BY <1>4, <1>11, <2>1, <2>5, <3>1, <3>2, <3>3
  <2>. QED
    BY <2>2, <2>3, <2>4, <2>5
<1>. HIDE DEF src
<1>12. h \in Injection(Spots(r), Spots(l))
  BY <1>9, <1>11 DEF Injection, IsInjective, h
<1>13. \A q \in Spots(r) : ItemAt(r, q) = ItemAt(l, h[q])
  BY <1>9 DEF h
<1>14. Spots(r) \ {} = Spots(r)
  OBVIOUS
<1>15. Comes(r, l, {})
  BY <1>12, <1>13, <1>14 DEF Comes
<1>. QED
  BY <1>15 DEF r, to, rest, old, from, item

LEMMA MoveComes ==
    ASSUME NEW l \in SoundLibrary, NEW src \in Names, NEW dst \in Names, NEW w \in Walls
    PROVE  Comes(LibMove(l, src, dst, w).lib, l, {})
<1>. DEFINE s    == LibFind(l, src)
            d    == LibFind(l, dst)
            from == l.vec[s].cache
            k    == CacheFind(from, w)
            to   == CacheInsertElem(l.vec[d].cache, from.items[k])
            rest == CacheErase(from, k)
            moved == LibMove(l, src, dst, w).lib
<1>1. CASE /\ src # dst /\ dst # w /\ LibExists(l, src) /\ LibExists(l, dst)
           /\ CacheContains(from, w)
  <2>1. /\ s \in DOMAIN l.vec /\ l.vec[s].name = src /\ from \in MarkedCache
        /\ d \in DOMAIN l.vec /\ l.vec[d].name = dst
    BY <1>1, LibFindFinds, SoundEntries DEF MarkedEntry
  <2>2. s # d
    BY <1>1, <2>1
  <2>3. moved = UpdateTwice(l, d, to, s, rest)
    <3>. HIDE DEF s, d
    <3>. QED
      BY <1>1, <2>1, <2>2 DEF LibMove, Ok, Result, UpdateTwice, s, d
  <2>4. k \in DOMAIN from.items
    BY <1>1, <2>1, CacheFindFinds DEF MarkedCache
  <2>. HIDE DEF s, d, k, moved
  <2>5. Comes(moved, l, {})
    BY <2>1, <2>2, <2>3, <2>4, MovedComes
  <2>. QED
    BY <2>5 DEF moved
<1>2. CASE ~ (/\ src # dst /\ dst # w /\ LibExists(l, src) /\ LibExists(l, dst)
              /\ CacheContains(from, w))
  <2>1. Comes(l, l, {})
    BY SameVecComes
  <2>. QED
    BY <1>2, <2>1 DEF LibMove, Result
<1>. QED
  BY <1>1, <1>2

-----------------------------------------------------------------------------
\* remove: what is left is where it was, or one place before, under its name.
ComesNamed(r, l) ==
    \E h \in Injection(Spots(r), Spots(l)) :
        \A p \in Spots(r) : /\ ItemAt(r, p) = ItemAt(l, h[p])
                            /\ r.vec[p[1]].name = l.vec[h[p][1]].name

LEMMA NamedComes ==
    ASSUME NEW r, NEW l, ComesNamed(r, l)
    PROVE  Comes(r, l, {})
<1>1. Spots(r) \ {} = Spots(r)
  OBVIOUS
<1>. QED
  BY <1>1 DEF ComesNamed, Comes

LEMMA NamedTwice ==
    ASSUME NEW q, NEW r, NEW l, ComesNamed(q, r), ComesNamed(r, l)
    PROVE  ComesNamed(q, l)
<1>1. PICK f \in Injection(Spots(q), Spots(r)) :
            \A p \in Spots(q) : /\ ItemAt(q, p) = ItemAt(r, f[p])
                                /\ q.vec[p[1]].name = r.vec[f[p][1]].name
  BY DEF ComesNamed
<1>2. PICK g \in Injection(Spots(r), Spots(l)) :
            \A p \in Spots(r) : /\ ItemAt(r, p) = ItemAt(l, g[p])
                                /\ r.vec[p[1]].name = l.vec[g[p][1]].name
  BY DEF ComesNamed
<1>. DEFINE h == [p \in Spots(q) |-> g[f[p]]]
<1>3. /\ \A p \in Spots(q) : f[p] \in Spots(r)
      /\ \A x, y \in Spots(q) : f[x] = f[y] => x = y
      /\ \A p \in Spots(r) : g[p] \in Spots(l)
      /\ \A x, y \in Spots(r) : g[x] = g[y] => x = y
  BY DEF Injection, IsInjective
<1>4. h \in Injection(Spots(q), Spots(l))
  BY <1>3 DEF Injection, IsInjective
<1>5. \A p \in Spots(q) : /\ ItemAt(q, p) = ItemAt(l, h[p])
                          /\ q.vec[p[1]].name = l.vec[h[p][1]].name
  BY <1>1, <1>2, <1>3
<1>. HIDE DEF h
<1>. QED
  BY <1>4, <1>5 DEF ComesNamed

LEMMA SameNamed == ASSUME NEW l PROVE ComesNamed(l, l)
<1>. DEFINE h == [p \in Spots(l) |-> p]
<1>1. h \in Injection(Spots(l), Spots(l))
  BY DEF Injection, IsInjective
<1>2. \A p \in Spots(l) : /\ ItemAt(l, p) = ItemAt(l, h[p])
                          /\ l.vec[p[1]].name = l.vec[h[p][1]].name
  OBVIOUS
<1>. HIDE DEF h
<1>. QED
  BY <1>1, <1>2 DEF ComesNamed

LEMMA RemoveComes ==
    ASSUME NEW l \in SoundLibrary, NEW n
    PROVE  ComesNamed(LibRemove(l, n).lib, l)
<1>. DEFINE p   == LibFind(l, n)
            vec == RemoveAt(l.vec, p)
            r   == LibRemove(l, n).lib
            from(q) == <<Shift(p, q[1]), q[2]>>
            h   == [q \in Spots(r) |-> from(q)]
<1>1. CASE LibExists(l, n)
  <2>1. p \in DOMAIN l.vec /\ Len(l.vec) \in Nat /\ DOMAIN l.vec = 1..Len(l.vec)
    BY <1>1, LibFindFinds, SoundEntries
  <2>2. r = [l EXCEPT !.vec = vec]
    BY <1>1 DEF LibRemove, Ok, Result
  <2>. HIDE DEF p
  <2>3. /\ vec \in Seq(MarkedEntry) /\ Len(vec) = Len(l.vec) - 1
        /\ \A k \in 1..(Len(l.vec) - 1) : vec[k] = IF k < p THEN l.vec[k] ELSE l.vec[k + 1]
    BY <2>1, SoundEntries, RemoveAtProperties
  <2>4. DOMAIN vec = 1..(Len(l.vec) - 1)
    BY <2>3, LenProperties
  <2>. HIDE DEF vec, r
  <2>5. r.vec = vec
    BY <2>2 DEF SoundLibrary
  <2>6. /\ \A k \in DOMAIN r.vec : Shift(p, k) \in DOMAIN l.vec /\ r.vec[k] = l.vec[Shift(p, k)]
        /\ \A j, k \in DOMAIN r.vec : Shift(p, j) = Shift(p, k) => j = k
    <3>1. \A k \in DOMAIN r.vec : Shift(p, k) \in DOMAIN l.vec
      BY <2>1, <2>4, <2>5 DEF Shift
    <3>2. \A k \in DOMAIN r.vec : r.vec[k] = l.vec[Shift(p, k)]
      BY <2>1, <2>3, <2>4, <2>5 DEF Shift
    <3>3. \A j, k \in DOMAIN r.vec : Shift(p, j) = Shift(p, k) => j = k
      BY <2>1, <2>4, <2>5 DEF Shift
    <3>. QED
      BY <3>1, <3>2, <3>3
  <2>7. ASSUME NEW q \in Spots(r)
        PROVE  /\ from(q) \in Spots(l) /\ ItemAt(r, q) = ItemAt(l, from(q))
               /\ r.vec[q[1]].name = l.vec[from(q)[1]].name
               /\ q = <<q[1], q[2]>> /\ q[1] \in DOMAIN r.vec
    <3>1. q = <<q[1], q[2]>> /\ q[1] \in DOMAIN r.vec /\ q[2] \in DOMAIN r.vec[q[1]].cache.items
      BY SpotsAre
    <3>2. Shift(p, q[1]) \in DOMAIN l.vec /\ r.vec[q[1]] = l.vec[Shift(p, q[1])]
      BY <2>6, <3>1
    <3>3. <<Shift(p, q[1]), q[2]>> \in Spots(l)
      BY <3>1, <3>2, SpotsAre
    <3>4. from(q)[1] = Shift(p, q[1]) /\ from(q)[2] = q[2]
      OBVIOUS
    <3>5. ItemAt(r, q) = ItemAt(l, from(q))
      BY <3>2, <3>4 DEF ItemAt
    <3>. QED
      BY <3>1, <3>2, <3>3, <3>4, <3>5
  <2>8. ASSUME NEW q \in Spots(r), NEW u \in Spots(r), from(q) = from(u)
        PROVE  q = u
    <3>1. Shift(p, q[1]) = Shift(p, u[1]) /\ q[2] = u[2]
      BY <2>8
    <3>. HIDE DEF from
    <3>2. /\ q = <<q[1], q[2]>> /\ q[1] \in DOMAIN r.vec
          /\ u = <<u[1], u[2]>> /\ u[1] \in DOMAIN r.vec
      BY <2>7
    <3>3. q[1] = u[1]
      BY <2>6, <3>1, <3>2
    <3>. QED
      BY <3>1, <3>2, <3>3
  <2>. HIDE DEF from
  <2>9. h \in Injection(Spots(r), Spots(l))
    BY <2>7, <2>8 DEF Injection, IsInjective
  <2>10. \A q \in Spots(r) : /\ ItemAt(r, q) = ItemAt(l, h[q])
                             /\ r.vec[q[1]].name = l.vec[h[q][1]].name
    BY <2>7
  <2>. HIDE DEF h
  <2>11. ComesNamed(r, l)
    BY <2>9, <2>10 DEF ComesNamed
  <2>. QED
    BY <2>11 DEF r
<1>2. CASE ~ LibExists(l, n)
  BY <1>2, SameNamed DEF LibRemove, Result
<1>. QED
  BY <1>1, <1>2

-----------------------------------------------------------------------------
\* Each place of a merged list is filled from a place of one of the two lists,
\* and no place is used twice.
LEMMA MergedSources ==
    ASSUME NEW a \in Seq(Item), NEW b \in Seq(Item)
    PROVE  \E u :
              \A k \in DOMAIN Merged(a, b) :
                 /\ \/ /\ u[k][1] = 1 /\ u[k][2] \in DOMAIN a
                       /\ Merged(a, b)[k] = a[u[k][2]]
                    \/ /\ u[k][1] = 2 /\ u[k][2] \in DOMAIN b
                       /\ Merged(a, b)[k] = b[u[k][2]]
                 /\ \A j \in DOMAIN Merged(a, b) :
                       u[j][1] = u[k][1] /\ u[j][2] = u[k][2] => j = k
<1>. DEFINE n == Len(a)
            m == Len(b)
            left(k)  == {i \in DOMAIN a : PositionOfLeft(a, b, i) = k}
            right(k) == {j \in DOMAIN b : PositionOfRight(a, b, j) = k}
            u == [k \in 1..(n + m) |-> IF left(k) # {} THEN <<1, Min(left(k))>>
                                                       ELSE <<2, Min(right(k))>>]
<1>1. n \in Nat /\ m \in Nat /\ DOMAIN a = 1..n /\ DOMAIN b = 1..m
  BY LenProperties
<1>2. PICK f, g : /\ Interleaving(n, m, f, g)
                  /\ \A i \in 1..n : PositionOfLeft(a, b, i) = i + f[i]
                  /\ \A j \in 1..m : PositionOfRight(a, b, j) = j + g[j]
  BY <1>1, MergeInterleaves
<1>3. /\ DOMAIN Merged(a, b) = 1..(n + m)
      /\ \A k \in 1..(n + m) : Merged(a, b)[k] = IF left(k) # {} THEN a[Min(left(k))]
                                                 ELSE IF right(k) # {} THEN b[Min(right(k))]
                                                 ELSE BlankItem
  BY DEF Merged
<1>4. \A k : /\ left(k) # {} => Min(left(k)) \in left(k)
             /\ right(k) # {} => Min(right(k)) \in right(k)
  <2>. SUFFICES ASSUME NEW k
                PROVE  /\ left(k) # {} => Min(left(k)) \in left(k)
                       /\ right(k) # {} => Min(right(k)) \in right(k)
    OBVIOUS
  <2>1. left(k) \in SUBSET DOMAIN a /\ right(k) \in SUBSET DOMAIN b
    OBVIOUS
  <2>. HIDE DEF left, right
  <2>. QED
    BY <2>1, SearchFinds
<1>. HIDE DEF n, m
<1>5. ASSUME NEW k \in 1..(n + m)
      PROVE  \/ /\ u[k] = <<1, Min(left(k))>> /\ Min(left(k)) \in left(k)
                /\ Merged(a, b)[k] = a[Min(left(k))]
             \/ /\ u[k] = <<2, Min(right(k))>> /\ Min(right(k)) \in right(k)
                /\ Merged(a, b)[k] = b[Min(right(k))]
  <2>1. (\E i \in 1..n : i + f[i] = k) \/ (\E j \in 1..m : j + g[j] = k)
    BY <1>1, <1>2, PositionsFill
  <2>2. left(k) # {} \/ right(k) # {}
    BY <1>1, <1>2, <2>1
  <2>. HIDE DEF left, right
  <2>. QED
    BY <1>3, <1>4, <2>2
<1>6. ASSUME NEW k \in 1..(n + m)
      PROVE  \/ /\ u[k] = <<1, u[k][2]>> /\ u[k][2] \in DOMAIN a
                /\ Merged(a, b)[k] = a[u[k][2]] /\ PositionOfLeft(a, b, u[k][2]) = k
             \/ /\ u[k] = <<2, u[k][2]>> /\ u[k][2] \in DOMAIN b
                /\ Merged(a, b)[k] = b[u[k][2]] /\ PositionOfRight(a, b, u[k][2]) = k
  <2>. HIDE DEF u
  <2>1. CASE u[k] = <<1, Min(left(k))>> /\ Min(left(k)) \in left(k)
             /\ Merged(a, b)[k] = a[Min(left(k))]
    <3>1. u[k][2] = Min(left(k))
      BY <2>1
    <3>. QED
      BY <2>1, <3>1
  <2>2. CASE u[k] = <<2, Min(right(k))>> /\ Min(right(k)) \in right(k)
             /\ Merged(a, b)[k] = b[Min(right(k))]
    <3>1. u[k][2] = Min(right(k))
      BY <2>2
    <3>. QED
      BY <2>2, <3>1
  <2>. QED
    BY <1>5, <2>1, <2>2
<1>. HIDE DEF left, right, u
<1>7. ASSUME NEW j \in 1..(n + m), NEW k \in 1..(n + m), u[j][1] = u[k][1], u[j][2] = u[k][2]
      PROVE  j = k
  <2>2. \/ u[j][1] = 1 /\ PositionOfLeft(a, b, u[j][2]) = j
        \/ u[j][1] = 2 /\ PositionOfRight(a, b, u[j][2]) = j
    BY <1>6
  <2>3. \/ u[k][1] = 1 /\ PositionOfLeft(a, b, u[k][2]) = k
        \/ u[k][1] = 2 /\ PositionOfRight(a, b, u[k][2]) = k
    BY <1>6
  <2>. QED
    BY <1>7, <2>2, <2>3
<1>8. \A k \in DOMAIN Merged(a, b) :
         /\ \/ /\ u[k][1] = 1 /\ u[k][2] \in DOMAIN a
               /\ Merged(a, b)[k] = a[u[k][2]]
            \/ /\ u[k][1] = 2 /\ u[k][2] \in DOMAIN b
               /\ Merged(a, b)[k] = b[u[k][2]]
         /\ \A j \in DOMAIN Merged(a, b) :
               u[j][1] = u[k][1] /\ u[j][2] = u[k][2] => j = k
  BY <1>3, <1>6, <1>7
<1>. QED
  BY <1>8

\* merge_cache: the items of the two collections come into the new one, and
\* the other collections keep theirs.
LEMMA JoinedComes ==
    ASSUME NEW l \in SoundLibrary, NEW rest \in SoundLibrary, NEW x \in DOMAIN l.vec,
           NEW y \in DOMAIN l.vec, x # y, ComesNamed(rest, l),
           ~ LibExists(rest, l.vec[x].name), ~ LibExists(rest, l.vec[y].name),
           NEW c, c.items = Merged(l.vec[x].cache.items, l.vec[y].cache.items),
           NEW r, Extended(r, rest, c)
    PROVE  Comes(r, l, {})
<1>1. /\ Spots(r) = Spots(rest) \cup EndSpots(rest, c)
      /\ Spots(rest) \cap EndSpots(rest, c) = {}
      /\ \A p \in Spots(rest) : ItemAt(r, p) = ItemAt(rest, p)
      /\ \A k \in DOMAIN c.items : ItemAt(r, <<Len(rest.vec) + 1, k>>) = c.items[k]
  BY DEF Extended
<1>. DEFINE a   == l.vec[x].cache.items
            b   == l.vec[y].cache.items
            end == Len(rest.vec) + 1
<1>2. a \in Seq(Item) /\ b \in Seq(Item)
  BY SoundEntries DEF MarkedEntry, MarkedCache, Cache
<1>3. PICK g \in Injection(Spots(rest), Spots(l)) :
            \A p \in Spots(rest) : /\ ItemAt(rest, p) = ItemAt(l, g[p])
                                   /\ rest.vec[p[1]].name = l.vec[g[p][1]].name
  BY DEF ComesNamed
<1>4. c.items = Merged(a, b)
  OBVIOUS
<1>. HIDE DEF a, b
<1>5. PICK u :
        \A k \in DOMAIN Merged(a, b) :
           /\ \/ u[k][1] = 1 /\ u[k][2] \in DOMAIN a /\ Merged(a, b)[k] = a[u[k][2]]
              \/ u[k][1] = 2 /\ u[k][2] \in DOMAIN b /\ Merged(a, b)[k] = b[u[k][2]]
           /\ \A j \in DOMAIN Merged(a, b) :
                 u[j][1] = u[k][1] /\ u[j][2] = u[k][2] => j = k
  BY <1>2, MergedSources
<1>. DEFINE left(k)  == u[k][1] = 1
            place(k) == u[k][2]
            at(k)    == IF left(k) THEN <<x, place(k)>> ELSE <<y, place(k)>>
            src(p)   == IF p \in Spots(rest) THEN g[p] ELSE at(p[2])
            h        == [p \in Spots(r) |-> src(p)]
<1>6. ASSUME NEW k \in DOMAIN c.items
      PROVE  /\ \/ left(k) /\ place(k) \in DOMAIN a /\ c.items[k] = a[place(k)]
                \/ ~ left(k) /\ place(k) \in DOMAIN b /\ c.items[k] = b[place(k)]
             /\ \A j \in DOMAIN c.items :
                   (left(j) <=> left(k)) /\ place(j) = place(k) => j = k
  <2>1. \A j \in DOMAIN c.items : u[j][1] \in {1, 2}
    BY <1>4, <1>5
  <2>2. \A j \in DOMAIN c.items : (left(j) <=> left(k)) => u[j][1] = u[k][1]
    BY <2>1
  <2>. QED
    BY <1>4, <1>5, <2>2
<1>. HIDE DEF left, place
<1>7. \A p \in EndSpots(rest, c) : p = <<end, p[2]>> /\ p[2] \in DOMAIN c.items
  BY DEF EndSpots
<1>8. \A k \in DOMAIN c.items : ItemAt(r, <<end, k>>) = c.items[k]
  BY <1>1
<1>. HIDE DEF end
<1>9. ASSUME NEW p \in Spots(rest)
      PROVE  /\ g[p] \in Spots(l) /\ ItemAt(r, p) = ItemAt(l, g[p])
             /\ g[p][1] # x /\ g[p][1] # y
             /\ \A q \in Spots(rest) : g[p] = g[q] => p = q
  <2>1. g[p] \in Spots(l) /\ \A q \in Spots(rest) : g[p] = g[q] => p = q
    BY DEF Injection, IsInjective
  <2>2. p[1] \in DOMAIN rest.vec
    BY SpotsAre
  <2>3. /\ rest.vec[p[1]].name # l.vec[x].name
        /\ rest.vec[p[1]].name # l.vec[y].name
    BY <2>2 DEF LibExists
  <2>. QED
    BY <1>3, <1>1, <2>1, <2>3
<1>10. ASSUME NEW k \in DOMAIN c.items
      PROVE  /\ at(k) \in Spots(l) /\ ItemAt(r, <<end, k>>) = ItemAt(l, at(k))
             /\ at(k)[1] \in {x, y}
  <2>1. CASE left(k)
    <3>1. at(k) = <<x, place(k)>> /\ place(k) \in DOMAIN a /\ c.items[k] = a[place(k)]
      BY <1>6, <2>1
    <3>. HIDE DEF at
    <3>2. <<x, place(k)>> \in Spots(l) /\ ItemAt(l, <<x, place(k)>>) = a[place(k)]
      BY <3>1, SpotsAre DEF a
    <3>3. <<x, place(k)>>[1] = x
      OBVIOUS
    <3>. QED
      BY <1>8, <3>1, <3>2, <3>3
  <2>2. CASE ~ left(k)
    <3>1. at(k) = <<y, place(k)>> /\ place(k) \in DOMAIN b /\ c.items[k] = b[place(k)]
      BY <1>6, <2>2
    <3>. HIDE DEF at
    <3>2. <<y, place(k)>> \in Spots(l) /\ ItemAt(l, <<y, place(k)>>) = b[place(k)]
      BY <3>1, SpotsAre DEF b
    <3>3. <<y, place(k)>>[1] = y
      OBVIOUS
    <3>. QED
      BY <1>8, <3>1, <3>2, <3>3
  <2>. QED
    BY <2>1, <2>2
<1>11. ASSUME NEW j \in DOMAIN c.items, NEW k \in DOMAIN c.items, at(j) = at(k)
       PROVE  j = k
  <2>1. (left(j) <=> left(k)) /\ place(j) = place(k)
    BY <1>11
  <2>. QED
    BY <1>6, <2>1
<1>. HIDE DEF at
<1>12. ASSUME NEW p \in Spots(r)
       PROVE  \/ /\ p \in Spots(rest) /\ src(p) = g[p]
              \/ /\ p \notin Spots(rest) /\ src(p) = at(p[2])
                 /\ p = <<end, p[2]>> /\ p[2] \in DOMAIN c.items
  BY <1>1, <1>7
<1>. HIDE DEF src
<1>13. ASSUME NEW p \in Spots(r)
       PROVE  src(p) \in Spots(l) /\ ItemAt(r, p) = ItemAt(l, src(p))
  <2>1. CASE p \in Spots(rest)
    BY <1>9, <1>12, <2>1
  <2>2. CASE p \notin Spots(rest)
    BY <1>10, <1>12, <2>2
  <2>. QED
    BY <2>1, <2>2
<1>14. ASSUME NEW p \in Spots(r), NEW q \in Spots(r), src(p) = src(q)
       PROVE  p = q
  <2>1. CASE p \in Spots(rest) /\ q \in Spots(rest)
    BY <1>9, <1>12, <1>14, <2>1
  <2>2. CASE p \in Spots(rest) /\ q \notin Spots(rest)
    <3>1. g[p][1] # x /\ g[p][1] # y /\ src(p) = g[p]
      BY <1>9, <1>12, <2>2
    <3>2. src(q)[1] \in {x, y}
      BY <1>10, <1>12, <2>2
    <3>. QED
      BY <1>14, <3>1, <3>2
  <2>3. CASE p \notin Spots(rest) /\ q \in Spots(rest)
    <3>1. g[q][1] # x /\ g[q][1] # y /\ src(q) = g[q]
      BY <1>9, <1>12, <2>3
    <3>2. src(p)[1] \in {x, y}
      BY <1>10, <1>12, <2>3
    <3>. QED
      BY <1>14, <3>1, <3>2
  <2>4. CASE p \notin Spots(rest) /\ q \notin Spots(rest)
    <3>1. p[2] = q[2]
      BY <1>11, <1>12, <1>14, <2>4
    <3>. QED
      BY <1>12, <2>4, <3>1
  <2>. QED
    BY <2>1, <2>2, <2>3, <2>4
<1>15. h \in Injection(Spots(r), Spots(l))
  BY <1>13, <1>14 DEF Injection, IsInjective
<1>16. \A p \in Spots(r) : ItemAt(r, p) = ItemAt(l, h[p])
  BY <1>13
<1>. HIDE DEF h
<1>17. Spots(r) \ {} = Spots(r)
  OBVIOUS
<1>. QED
  BY <1>15, <1>16, <1>17 DEF Comes

LEMMA MergeComes ==
    ASSUME NEW l \in SoundLibrary, NEW n \in Names, NEW m \in Names
    PROVE  Comes(LibMerge(l, n, m).lib, l, {})
<1>1. CASE n # m /\ LibExists(l, n) /\ LibExists(l, m)
  <2>. DEFINE x      == LibFind(l, n)
              y      == LibFind(l, m)
              merged == CacheMerge(l.vec[x].cache, l.vec[y].cache)
              one    == LibRemove(l, n).lib
              rest   == LibRemove(one, m).lib
  <2>1. /\ x \in DOMAIN l.vec /\ l.vec[x].name = n /\ l.vec[x].cache \in MarkedCache
        /\ y \in DOMAIN l.vec /\ l.vec[y].name = m /\ l.vec[y].cache \in MarkedCache
    BY <1>1, LibFindFinds, SoundEntries DEF MarkedEntry
  <2>2. x # y
    BY <1>1, <2>1
  <2>. HIDE DEF x, y
  <2>3. /\ merged \in MarkedCache
        /\ merged.items = Merged(l.vec[x].cache.items, l.vec[y].cache.items)
    BY <2>1, CacheMergeMarked DEF CacheMerge
  <2>4. one \in SoundLibrary /\ ~ LibExists(one, n) /\ ComesNamed(one, l)
    BY RemoveSound, RemoveComes
  <2>. HIDE DEF merged, one
  <2>5. rest \in SoundLibrary /\ ~ LibExists(rest, n) /\ ~ LibExists(rest, m)
        /\ ComesNamed(rest, one)
    BY <1>1, <2>4, RemoveSound, RemoveComes
  <2>. HIDE DEF rest
  <2>6. ComesNamed(rest, l)
    BY <2>4, <2>5, NamedTwice
  <2>. DEFINE r == [rest EXCEPT !.vec = Append(@, [name |-> n, cache |-> merged])]
  <2>7. Extended(r, rest, merged)
    BY <2>3, <2>5, AppendedSpots
  <2>. HIDE DEF r
  <2>8. Comes(r, l, {})
    BY <2>1, <2>2, <2>3, <2>5, <2>6, <2>7, JoinedComes
  <2>. QED
    BY <1>1, <2>8 DEF LibMerge, Ok, Result, x, y, merged, rest, one, r
<1>2. CASE ~ (n # m /\ LibExists(l, n) /\ LibExists(l, m))
  <2>1. Comes(l, l, {})
    BY SameVecComes
  <2>. QED
    BY <1>2, <2>1 DEF LibMerge, Result
<1>. QED
  BY <1>1, <1>2

-----------------------------------------------------------------------------
(***************************************************************************)
(* What a library holds: the wallpapers of each collection.  The lemmas    *)
(* say what each way of changing the vector, and each operation, does to   *)
(* it.                                                                     *)
(***************************************************************************)
-----------------------------------------------------------------------------
(***************************************************************************)
(* The values in a list of items.                                          *)
(***************************************************************************)
LEMMA ValuesAre ==
    ASSUME NEW items
    PROVE  Values(items) = {items[i].value : i \in DOMAIN items}
BY DEF Values, ToSet

LEMMA ValuesType ==
    ASSUME NEW items \in Seq(Item)
    PROVE  Values(items) \subseteq AllWalls
<1>1. \A i \in DOMAIN items : items[i] \in Item
  BY LenProperties, ElementOfSeq
<1>. QED
  BY <1>1, ValuesAre DEF Item, AllWalls

LEMMA AppendValues ==
    ASSUME NEW items \in Seq(Item), NEW x \in Item
    PROVE  Values(Append(items, x)) = Values(items) \cup {x.value}
<1>. DEFINE r == Append(items, x)
<1>1. /\ Len(items) \in Nat /\ DOMAIN items = 1..Len(items) /\ DOMAIN r = 1..(Len(items) + 1)
      /\ \A i \in 1..Len(items) : r[i] = items[i]
      /\ r[Len(items) + 1] = x
  BY AppendProperties, LenProperties
<1>. HIDE DEF r
<1>2. \A i \in DOMAIN r : i \in DOMAIN items \/ i = Len(items) + 1
  BY <1>1
<1>3. DOMAIN items \subseteq DOMAIN r /\ Len(items) + 1 \in DOMAIN r
  BY <1>1
<1>4. Values(r) \subseteq Values(items) \cup {x.value}
  BY <1>1, <1>2, ValuesAre
<1>5. Values(items) \subseteq Values(r)
  BY <1>1, <1>3, ValuesAre
<1>6. x.value \in Values(r)
  BY <1>1, <1>3, ValuesAre
<1>. QED
  BY <1>4, <1>5, <1>6 DEF r

LEMMA RemoveAtValues ==
    ASSUME NEW items \in Seq(Item), NEW k \in DOMAIN items
    PROVE  Values(RemoveAt(items, k)) \in {Values(items), Values(items) \ {items[k].value}}
<1>. DEFINE r == RemoveAt(items, k)
            w == items[k].value
<1>1. /\ Len(items) \in Nat /\ DOMAIN items = 1..Len(items) /\ k \in 1..Len(items)
      /\ DOMAIN r = 1..(Len(items) - 1)
      /\ \A i \in 1..(Len(items) - 1) : r[i] = IF i < k THEN items[i] ELSE items[i + 1]
  BY RemoveAtProperties, LenProperties
<1>. HIDE DEF r
<1>2. \A i \in DOMAIN r : \E j \in DOMAIN items : r[i] = items[j]
  <2> SUFFICES ASSUME NEW i \in DOMAIN r PROVE \E j \in DOMAIN items : r[i] = items[j]
    OBVIOUS
  <2>1. i \in DOMAIN items /\ i + 1 \in DOMAIN items
    BY <1>1
  <2>. QED
    BY <1>1, <2>1
<1>3. \A j \in DOMAIN items : j # k => \E i \in DOMAIN r : r[i] = items[j]
  <2> SUFFICES ASSUME NEW j \in DOMAIN items, j # k PROVE \E i \in DOMAIN r : r[i] = items[j]
    OBVIOUS
  <2>1. CASE j < k
    <3>1. j \in DOMAIN r /\ r[j] = items[j]
      BY <1>1, <2>1
    <3>. QED
      BY <3>1
  <2>2. CASE j > k
    <3>1. j - 1 \in DOMAIN r /\ r[j - 1] = items[j]
      BY <1>1, <2>2
    <3>. QED
      BY <3>1
  <2>. QED
    BY <1>1, <2>1, <2>2
<1>4. Values(r) \subseteq Values(items)
  BY <1>2, ValuesAre
<1>5. Values(items) \ {w} \subseteq Values(r)
  BY <1>3, ValuesAre
<1>. HIDE DEF w
<1>6. w \in Values(r) \/ w \notin Values(r)
  OBVIOUS
<1>. QED
  BY <1>4, <1>5, <1>6 DEF r, w

\* Every item has a first occurrence, at or before it.
LEMMA FirstsCover ==
    ASSUME NEW items \in Seq(Item)
    PROVE  /\ IsFiniteSet(Firsts(items)) /\ Firsts(items) \in SUBSET Nat
           /\ Firsts(items) \subseteq DOMAIN items
           /\ \A i \in DOMAIN items : \E h \in Firsts(items) : h <= i /\ items[h] = items[i]
<1>1. /\ IsFiniteSet(Firsts(items)) /\ Firsts(items) \in SUBSET Nat
      /\ Firsts(items) \subseteq DOMAIN items
      /\ Len(items) \in Nat /\ DOMAIN items = 1..Len(items)
  BY SearchFinds, LenProperties DEF Firsts
<1>2. ASSUME NEW i \in DOMAIN items
      PROVE  \E h \in Firsts(items) : h <= i /\ items[h] = items[i]
  <2>. DEFINE same == {j \in DOMAIN items : items[j] = items[i]}
              h == Min(same)
  <2>1. same \in SUBSET DOMAIN items /\ i \in same
    OBVIOUS
  <2>2. h \in same /\ \A j \in same : h <= j
    BY <2>1, SearchFinds
  <2>. HIDE DEF h
  <2>3. \A j \in 1..(h - 1) : j \in DOMAIN items /\ ~ (h <= j)
    BY <1>1, <2>2
  <2>4. h \in Firsts(items)
    BY <2>2, <2>3 DEF Firsts
  <2>. QED
    BY <2>1, <2>2, <2>4
<1>. QED
  BY <1>1, <1>2

LEMMA DistinctValues ==
    ASSUME NEW items \in Seq(Item)
    PROVE  Values(Distinct(items)) = Values(items)
<1>. DEFINE F == Firsts(items)
            r == Distinct(items)
            at(k) == CHOOSE i \in F : RankIn(F, i) = k
<1>1. /\ IsFiniteSet(F) /\ F \in SUBSET Nat /\ F \subseteq DOMAIN items
      /\ \A i \in DOMAIN items : \E h \in F : items[h] = items[i]
  BY FirstsCover
<1>2. DOMAIN r = 1..Cardinality(F) /\ \A k \in DOMAIN r : r[k] = items[at(k)]
  BY DEF Distinct
<1>. HIDE DEF F, r
<1>4. \A k \in DOMAIN r : at(k) \in F /\ RankIn(F, at(k)) = k
  BY <1>1, <1>2, RankOnto
<1>5. \A i \in F : \E k \in DOMAIN r : at(k) = i
  <2> SUFFICES ASSUME NEW i \in F PROVE \E k \in DOMAIN r : at(k) = i
    OBVIOUS
  <2>. DEFINE k == RankIn(F, i)
  <2>1. k \in DOMAIN r /\ \A j \in F : RankIn(F, j) = k => j = i
    BY <1>1, <1>2, RankIsPosition
  <2>. QED
    BY <1>4, <2>1
<1>6. Values(r) \subseteq Values(items)
  <2>1. \A k \in DOMAIN r : at(k) \in DOMAIN items /\ r[k].value = items[at(k)].value
    BY <1>1, <1>2, <1>4
  <2>. HIDE DEF at
  <2>. QED
    BY <2>1, ValuesAre
<1>7. Values(items) \subseteq Values(r)
  <2> SUFFICES ASSUME NEW i \in DOMAIN items PROVE items[i].value \in Values(r)
    BY ValuesAre
  <2>1. PICK h \in F : items[h] = items[i]
    BY <1>1
  <2>2. PICK k \in DOMAIN r : at(k) = h
    BY <1>5
  <2>. QED
    BY <1>2, <2>1, <2>2, ValuesAre
<1>. QED
  BY <1>6, <1>7 DEF r

-----------------------------------------------------------------------------
(***************************************************************************)
(* Held: the collections of a library and what they hold.                  *)
(***************************************************************************)
LEMMA NamesAre ==
    ASSUME NEW l, NEW n
    PROVE  n \in LibNames(l) <=> LibExists(l, n)
BY DEF LibNames, LibExists

\* Names are distinct, so that looking a name up gives its only position.
LEMMA HeldAt ==
    ASSUME NEW l \in SoundLibrary, NEW i \in DOMAIN l.vec
    PROVE  /\ l.vec[i].name \in LibNames(l) /\ LibFind(l, l.vec[i].name) = i
           /\ Held(l)[l.vec[i].name] = Values(l.vec[i].cache.items)
<1>. DEFINE n == l.vec[i].name
<1>1. n \in LibNames(l) /\ LibExists(l, n)
  BY DEF LibNames, LibExists
<1>2. LibFind(l, n) \in DOMAIN l.vec /\ l.vec[LibFind(l, n)].name = n
  BY <1>1, LibFindFinds
<1>3. LibFind(l, n) = i
  BY <1>2, SoundEntries DEF DistinctNames
<1>. QED
  BY <1>1, <1>3 DEF Held, Values

\* A function that agrees with every entry is Held.
LEMMA HeldIs ==
    ASSUME NEW l \in SoundLibrary, NEW NS, NEW H \in [NS -> SUBSET AllWalls],
           \A i \in DOMAIN l.vec : /\ l.vec[i].name \in NS
                                  /\ H[l.vec[i].name] = Values(l.vec[i].cache.items),
           \A n \in NS : \E i \in DOMAIN l.vec : l.vec[i].name = n
    PROVE  Held(l) = H
<1>1. LibNames(l) = NS
  BY DEF LibNames
<1>2. \A n \in NS : Held(l)[n] = H[n]
  BY HeldAt
<1>3. Held(l) = [n \in NS |-> Held(l)[n]]
  BY <1>1 DEF Held
<1>4. H = [n \in NS |-> H[n]]
  OBVIOUS
<1>5. [n \in NS |-> Held(l)[n]] = [n \in NS |-> H[n]]
  BY <1>2
<1>. QED
  BY <1>3, <1>4, <1>5

LEMMA HeldType ==
    ASSUME NEW l \in SoundLibrary
    PROVE  /\ LibNames(l) \subseteq Names
           /\ Held(l) \in [LibNames(l) -> SUBSET AllWalls]
           /\ \A n \in LibNames(l) : LibExists(l, n) /\ LibFind(l, n) \in DOMAIN l.vec
           /\ \A n \in LibNames(l) : Held(l)[n] = Values(l.vec[LibFind(l, n)].cache.items)
<1>1. LibNames(l) \subseteq Names
  BY SoundEntries DEF LibNames, MarkedEntry
<1>2. \A n \in LibNames(l) : LibExists(l, n) /\ LibFind(l, n) \in DOMAIN l.vec
  BY NamesAre, LibFindFinds
<1>3. \A n \in LibNames(l) : Held(l)[n] = Values(l.vec[LibFind(l, n)].cache.items)
  BY DEF Held, Values
<1>4. \A i \in DOMAIN l.vec : Values(l.vec[i].cache.items) \subseteq AllWalls
  BY SoundEntries, ValuesType DEF MarkedEntry, MarkedCache, Cache
<1>. QED
  BY <1>1, <1>2, <1>3, <1>4 DEF Held

LEMMA UpdateHeld ==
    ASSUME NEW l \in SoundLibrary, NEW p \in DOMAIN l.vec, NEW c \in MarkedCache
    PROVE  LET r == [l EXCEPT !.vec[p].cache = c]
           IN  /\ r \in SoundLibrary /\ r.active = l.active /\ LibNames(r) = LibNames(l)
               /\ Held(r) = [Held(l) EXCEPT ![l.vec[p].name] = Values(c.items)]
<1>. DEFINE r == [l EXCEPT !.vec[p].cache = c]
            n == l.vec[p].name
            H == [Held(l) EXCEPT ![n] = Values(c.items)]
<1>1. r \in SoundLibrary
  BY UpdateIsSound
<1>2. /\ r.active = l.active /\ DOMAIN r.vec = DOMAIN l.vec
      /\ \A i \in DOMAIN l.vec : /\ r.vec[i].name = l.vec[i].name
                                /\ r.vec[i].cache = IF i = p THEN c ELSE l.vec[i].cache
  BY SoundEntries DEF SoundLibrary, MarkedEntry
<1>. HIDE DEF r
<1>3. LibNames(r) = LibNames(l)
  BY <1>2 DEF LibNames
<1>4. Values(c.items) \subseteq AllWalls
  BY ValuesType DEF MarkedCache, Cache
<1>5. H \in [LibNames(l) -> SUBSET AllWalls]
  BY <1>4, HeldType
<1>6. ASSUME NEW i \in DOMAIN r.vec
      PROVE  r.vec[i].name \in LibNames(l) /\ H[r.vec[i].name] = Values(r.vec[i].cache.items)
  <2>1. l.vec[i].name \in LibNames(l) /\ Held(l)[l.vec[i].name] = Values(l.vec[i].cache.items)
    BY <1>2, HeldAt
  <2>2. l.vec[i].name = n <=> i = p
    BY <1>2, SoundEntries DEF DistinctNames
  <2>3. /\ r.vec[i].name = l.vec[i].name
        /\ r.vec[i].cache = IF i = p THEN c ELSE l.vec[i].cache
    BY <1>2
  <2>4. H[l.vec[i].name] = IF i = p THEN Values(c.items) ELSE Held(l)[l.vec[i].name]
    BY <2>1, <2>2, HeldType
  <2>. HIDE DEF H
  <2>. QED
    BY <2>1, <2>3, <2>4
<1>7. \A m \in LibNames(l) : \E i \in DOMAIN r.vec : r.vec[i].name = m
  BY <1>2 DEF LibNames
<1>. HIDE DEF H
<1>8. Held(r) = H
  BY <1>1, <1>5, <1>6, <1>7, HeldIs
<1>. QED
  BY <1>1, <1>2, <1>3, <1>8 DEF r, H

LEMMA AppendHeld ==
    ASSUME NEW l \in SoundLibrary, NEW n \in Names, NEW c \in MarkedCache, n \notin LibNames(l)
    PROVE  LET r == [l EXCEPT !.vec = Append(@, [name |-> n, cache |-> c])]
           IN  /\ r \in SoundLibrary /\ r.active = l.active
               /\ LibNames(r) = LibNames(l) \cup {n}
               /\ Held(r) = [m \in LibNames(l) \cup {n} |->
                                IF m = n THEN Values(c.items) ELSE Held(l)[m]]
<1>. DEFINE e == [name |-> n, cache |-> c]
            r == [l EXCEPT !.vec = Append(@, e)]
            H == [m \in LibNames(l) \cup {n} |-> IF m = n THEN Values(c.items) ELSE Held(l)[m]]
<1>1. r \in SoundLibrary
  BY NamesAre, AppendIsSound
<1>2. e \in MarkedEntry
  BY DEF MarkedEntry
<1>3. r.vec = Append(l.vec, e) /\ r.active = l.active
  BY DEF SoundLibrary
<1>4. e.name = n /\ e.cache = c
  OBVIOUS
<1>. HIDE DEF e, r
<1>5. /\ DOMAIN r.vec = 1..(Len(l.vec) + 1) /\ r.vec[Len(l.vec) + 1] = e
      /\ Len(l.vec) \in Nat /\ DOMAIN l.vec = 1..Len(l.vec)
      /\ \A i \in DOMAIN l.vec : r.vec[i] = l.vec[i]
  <2>1. /\ Len(r.vec) = Len(l.vec) + 1 /\ r.vec[Len(l.vec) + 1] = e
        /\ \A i \in 1..Len(l.vec) : r.vec[i] = l.vec[i]
    BY <1>2, <1>3, SoundEntries, AppendProperties
  <2>. QED
    BY <1>1, <2>1, SoundEntries
<1>6. \A i \in DOMAIN r.vec : (i \in DOMAIN l.vec /\ r.vec[i] = l.vec[i])
                            \/ (i = Len(l.vec) + 1 /\ r.vec[i] = e)
  BY <1>5
<1>7. DOMAIN l.vec \subseteq DOMAIN r.vec /\ Len(l.vec) + 1 \in DOMAIN r.vec
  BY <1>5
<1>8. Values(c.items) \subseteq AllWalls
  BY ValuesType DEF MarkedCache, Cache
<1>9. H \in [LibNames(l) \cup {n} -> SUBSET AllWalls]
  BY <1>8, HeldType
<1>10. ASSUME NEW i \in DOMAIN r.vec
       PROVE  /\ r.vec[i].name \in LibNames(l) \cup {n}
              /\ H[r.vec[i].name] = Values(r.vec[i].cache.items)
  <2>1. CASE i \in DOMAIN l.vec /\ r.vec[i] = l.vec[i]
    <3>1. /\ l.vec[i].name \in LibNames(l)
          /\ Held(l)[l.vec[i].name] = Values(l.vec[i].cache.items)
      BY <2>1, HeldAt
    <3>2. H[l.vec[i].name] = Held(l)[l.vec[i].name]
      BY <3>1
    <3>. QED
      BY <2>1, <3>1, <3>2
  <2>2. CASE r.vec[i] = e
    BY <1>4, <2>2
  <2>. QED
    BY <1>6, <2>1, <2>2
<1>11. \A m \in LibNames(l) \cup {n} : \E i \in DOMAIN r.vec : r.vec[i].name = m
  BY <1>4, <1>5, <1>7 DEF LibNames
<1>. HIDE DEF H
<1>12. Held(r) = H
  BY <1>1, <1>9, <1>10, <1>11, HeldIs
<1>13. LibNames(r) = LibNames(l) \cup {n}
  <2>1. \A i \in DOMAIN r.vec : r.vec[i].name \in LibNames(l) \cup {n}
    BY <1>10
  <2>2. LibNames(r) \subseteq LibNames(l) \cup {n}
    BY <2>1 DEF LibNames
  <2>3. \A m \in LibNames(l) \cup {n} : m \in {r.vec[i].name : i \in DOMAIN r.vec}
    BY <1>11
  <2>. QED
    BY <2>2, <2>3 DEF LibNames
<1>. QED
  BY <1>1, <1>3, <1>12, <1>13 DEF r, e, H

LEMMA EraseHeld ==
    ASSUME NEW l \in SoundLibrary, NEW n \in LibNames(l)
    PROVE  LET r == LibRemove(l, n).lib
           IN  /\ r \in SoundLibrary /\ r.active = l.active
               /\ LibNames(r) = LibNames(l) \ {n}
               /\ Held(r) = [m \in LibNames(l) \ {n} |-> Held(l)[m]]
<1>. DEFINE p == LibFind(l, n)
            r == LibRemove(l, n).lib
            H == [m \in LibNames(l) \ {n} |-> Held(l)[m]]
<1>1. LibExists(l, n) /\ p \in DOMAIN l.vec /\ l.vec[p].name = n
  BY NamesAre, LibFindFinds
<1>2. r = [l EXCEPT !.vec = RemoveAt(@, p)]
  BY <1>1 DEF LibRemove, Ok, Result
<1>3. r.vec = RemoveAt(l.vec, p) /\ r.active = l.active
  BY <1>2 DEF SoundLibrary
<1>4. r \in SoundLibrary
  BY RemoveSound
<1>. HIDE DEF p, r
<1>5. /\ Len(l.vec) \in Nat /\ DOMAIN l.vec = 1..Len(l.vec) /\ p \in 1..Len(l.vec)
      /\ DOMAIN r.vec = 1..(Len(l.vec) - 1)
      /\ \A k \in 1..(Len(l.vec) - 1) : r.vec[k] = IF k < p THEN l.vec[k] ELSE l.vec[k + 1]
  <2>1. /\ Len(r.vec) = Len(l.vec) - 1
        /\ \A k \in 1..(Len(l.vec) - 1) : r.vec[k] = IF k < p THEN l.vec[k] ELSE l.vec[k + 1]
    BY <1>1, <1>3, SoundEntries, RemoveAtProperties
  <2>2. Len(l.vec) \in Nat /\ DOMAIN l.vec = 1..Len(l.vec) /\ DOMAIN r.vec = 1..Len(r.vec)
    BY <1>4, SoundEntries
  <2>. QED
    BY <1>1, <2>1, <2>2
<1>6. \A k \in DOMAIN r.vec : \E i \in DOMAIN l.vec : i # p /\ r.vec[k] = l.vec[i]
  <2> SUFFICES ASSUME NEW k \in DOMAIN r.vec
               PROVE  \E i \in DOMAIN l.vec : i # p /\ r.vec[k] = l.vec[i]
    OBVIOUS
  <2>1. CASE k < p
    BY <1>5, <2>1
  <2>2. CASE ~ (k < p)
    <3>1. k + 1 \in DOMAIN l.vec /\ k + 1 # p /\ r.vec[k] = l.vec[k + 1]
      BY <1>5, <2>2
    <3>. QED
      BY <3>1
  <2>. QED
    BY <2>1, <2>2
<1>7. \A i \in DOMAIN l.vec : i # p => \E k \in DOMAIN r.vec : r.vec[k] = l.vec[i]
  <2> SUFFICES ASSUME NEW i \in DOMAIN l.vec, i # p
               PROVE  \E k \in DOMAIN r.vec : r.vec[k] = l.vec[i]
    OBVIOUS
  <2>1. CASE i < p
    <3>1. i \in DOMAIN r.vec /\ r.vec[i] = l.vec[i]
      BY <1>5, <2>1
    <3>. QED
      BY <3>1
  <2>2. CASE i > p
    <3>1. i - 1 \in DOMAIN r.vec /\ r.vec[i - 1] = l.vec[i]
      BY <1>5, <2>2
    <3>. QED
      BY <3>1
  <2>. QED
    BY <1>5, <2>1, <2>2
<1>8. \A i \in DOMAIN l.vec : l.vec[i].name = n <=> i = p
  BY <1>1, SoundEntries DEF DistinctNames
<1>9. H \in [LibNames(l) \ {n} -> SUBSET AllWalls]
  BY HeldType
<1>10. ASSUME NEW k \in DOMAIN r.vec
       PROVE  /\ r.vec[k].name \in LibNames(l) \ {n}
              /\ H[r.vec[k].name] = Values(r.vec[k].cache.items)
  <2>1. PICK i \in DOMAIN l.vec : i # p /\ r.vec[k] = l.vec[i]
    BY <1>6
  <2>2. l.vec[i].name \in LibNames(l) /\ Held(l)[l.vec[i].name] = Values(l.vec[i].cache.items)
    BY HeldAt
  <2>3. l.vec[i].name # n
    BY <1>8, <2>1
  <2>4. H[l.vec[i].name] = Held(l)[l.vec[i].name]
    BY <2>2, <2>3
  <2>. QED
    BY <2>1, <2>2, <2>3, <2>4
<1>11. \A m \in LibNames(l) \ {n} : \E k \in DOMAIN r.vec : r.vec[k].name = m
  <2> SUFFICES ASSUME NEW m \in LibNames(l) \ {n} PROVE \E k \in DOMAIN r.vec : r.vec[k].name = m
    OBVIOUS
  <2>1. PICK i \in DOMAIN l.vec : l.vec[i].name = m
    BY DEF LibNames
  <2>. QED
    BY <1>7, <1>8, <2>1
<1>. HIDE DEF H
<1>12. Held(r) = H
  BY <1>4, <1>9, <1>10, <1>11, HeldIs
<1>13. LibNames(r) = LibNames(l) \ {n}
  BY <1>10, <1>11 DEF LibNames
<1>. QED
  BY <1>3, <1>4, <1>12, <1>13 DEF r, H

-----------------------------------------------------------------------------
\* Writing through a cache without changing which wallpapers it holds.
LEMMA SameValuesStay ==
    ASSUME NEW l \in SoundLibrary, NEW p \in DOMAIN l.vec, NEW c \in MarkedCache,
           Values(c.items) = Values(l.vec[p].cache.items),
           NEW r, r = [l EXCEPT !.vec[p].cache = c]
    PROVE  Stays(l, r)
<1>. DEFINE n == l.vec[p].name
<1>1. r.active = l.active /\ Held(r) = [Held(l) EXCEPT ![n] = Values(c.items)]
  BY UpdateHeld
<1>2. n \in LibNames(l) /\ Held(l)[n] = Values(c.items)
  BY HeldAt
<1>. HIDE DEF n
<1>3. Held(r) = Held(l)
  BY <1>1, <1>2, HeldType
<1>. QED
  BY <1>1, <1>3 DEF Stays

LEMMA InsertHeld ==
    ASSUME NEW l \in SoundLibrary, NEW n \in Names, NEW c \in MarkedCache,
           NEW r, r = LibInsert(l, n, c).lib
    PROVE  IF n \in LibNames(l) THEN Stays(l, r) ELSE Creates(l, r, n, Values(c.items))
<1>1. Values(c.items) \subseteq AllWalls
  BY ValuesType DEF MarkedCache, Cache
<1>2. CASE LibExists(l, n)
  BY <1>2, NamesAre DEF LibInsert, Result, Stays
<1>3. CASE ~ LibExists(l, n)
  <2>1. n \notin LibNames(l)
    BY <1>3, NamesAre
  <2>2. r = [l EXCEPT !.vec = Append(@, [name |-> n, cache |-> c])]
    BY <1>3 DEF LibInsert, Ok, Result
  <2>. DEFINE u == [l EXCEPT !.vec = Append(@, [name |-> n, cache |-> c])]
  <2>3. /\ u.active = l.active
        /\ Held(u) = [m \in LibNames(l) \cup {n} |->
                         IF m = n THEN Values(c.items) ELSE Held(l)[m]]
    BY <2>1, AppendHeld
  <2>4. r = u
    BY <2>2
  <2>. HIDE DEF u
  <2>. QED
    BY <1>1, <2>1, <2>3, <2>4 DEF Creates
<1>. QED
  BY <1>2, <1>3

LEMMA InsertedValues ==
    ASSUME NEW c \in MarkedCache, NEW w \in Walls, NEW loc \in Locs
    PROVE  Values(CacheInsert(c, w, loc).items) = Values(c.items) \cup {w}
<1>. DEFINE x == [value |-> w, state |-> "unused", loc |-> loc]
<1>1. c.items \in Seq(Item)
  BY DEF MarkedCache, Cache
<1>2. CASE CacheContains(c, w)
  <2>1. w \in Values(c.items)
    BY <1>2, ValuesAre DEF CacheContains
  <2>. QED
    BY <1>2, <2>1 DEF CacheInsert
<1>3. CASE ~ CacheContains(c, w)
  <2>1. x \in Item /\ x.value = w
    BY DEF Item, States
  <2>2. CacheInsert(c, w, loc).items = Append(c.items, x)
    BY <1>3 DEF CacheInsert
  <2>. HIDE DEF x
  <2>. QED
    BY <1>1, <2>1, <2>2, AppendValues
<1>. QED
  BY <1>2, <1>3

LEMMA AddHeld ==
    ASSUME NEW l \in SoundLibrary, NEW n \in Names, NEW w \in Walls, NEW loc \in Locs,
           LibExists(l, n),
           NEW r, r = [l EXCEPT !.vec[LibFind(l, n)].cache = CacheInsert(@, w, loc)]
    PROVE  Puts(l, r, n, w)
<1>. DEFINE p == LibFind(l, n)
            c == CacheInsert(l.vec[p].cache, w, loc)
<1>1. n \in LibNames(l) /\ p \in DOMAIN l.vec /\ l.vec[p].name = n
  BY NamesAre, LibFindFinds
<1>2. l.vec[p].cache \in MarkedCache
  BY <1>1, SoundEntries DEF MarkedEntry
<1>3. c \in MarkedCache /\ Values(c.items) = Held(l)[n] \cup {w}
  <2>1. Values(l.vec[p].cache.items) = Held(l)[n]
    BY <1>1, HeldAt
  <2>. QED
    BY <1>2, <2>1, CacheInsertMarked, InsertedValues
<1>4. r = [l EXCEPT !.vec[p].cache = c]
  OBVIOUS
<1>. HIDE DEF p, c
<1>5. /\ r.active = l.active
      /\ Held(r) = [Held(l) EXCEPT ![n] = Held(l)[n] \cup {w}]
  <2>. DEFINE u == [l EXCEPT !.vec[p].cache = c]
  <2>1. u.active = l.active /\ Held(u) = [Held(l) EXCEPT ![l.vec[p].name] = Values(c.items)]
    <3>1. p \in DOMAIN l.vec /\ c \in MarkedCache
      BY <1>1, <1>3
    <3>. QED
      BY <3>1, UpdateHeld
  <2>2. r = u
    BY <1>4
  <2>. HIDE DEF u
  <2>. QED
    BY <1>1, <1>3, <2>1, <2>2
<1>. QED
  BY <1>1, <1>5 DEF Puts

LEMMA GetCacheHeld ==
    ASSUME NEW l \in SoundLibrary, NEW n \in Names, NEW r, r = LibGetCache(l, n).lib
    PROVE  Stays(l, r)
<1>. DEFINE p == LibFind(l, n)
            c == CacheTouch(l.vec[p].cache)
<1>1. CASE LibExists(l, n)
  <2>1. p \in DOMAIN l.vec /\ l.vec[p].cache \in MarkedCache
    BY <1>1, LibFindFinds, SoundEntries DEF MarkedEntry
  <2>2. c \in MarkedCache /\ c.items = l.vec[p].cache.items
    BY <2>1, CacheTouchMarked DEF CacheTouch, MarkedCache, Cache
  <2>3. r = [l EXCEPT !.vec[p].cache = c]
    BY <1>1 DEF LibGetCache, Ok, Result
  <2>. HIDE DEF p, c
  <2>. QED
    BY <2>1, <2>2, <2>3, SameValuesStay
<1>2. CASE ~ LibExists(l, n)
  BY <1>2 DEF LibGetCache, Result, Stays
<1>. QED
  BY <1>1, <1>2

LEMMA ChangeActiveHeld ==
    ASSUME NEW l \in SoundLibrary, NEW n \in Names, NEW r, r = LibChangeActive(l, n).lib
    PROVE  IF n \in LibNames(l) THEN Activates(l, r, n) ELSE Stays(l, r)
<1>1. CASE LibExists(l, n)
  <2>1. r = [l EXCEPT !.active = n, !.current = LibFind(l, n) - 1]
    BY <1>1 DEF LibChangeActive, Ok, Result
  <2>2. r.vec = l.vec /\ r.active = n
    BY <2>1 DEF SoundLibrary
  <2>3. Held(r) = Held(l)
    BY <2>2 DEF Held, LibNames, LibFind
  <2>4. n \in LibNames(l)
    BY <1>1, NamesAre
  <2>. QED
    BY <2>2, <2>3, <2>4 DEF Activates
<1>2. CASE ~ LibExists(l, n)
  BY <1>2, NamesAre DEF LibChangeActive, Result, Stays
<1>. QED
  BY <1>1, <1>2

LEMMA RenameHeld ==
    ASSUME NEW l \in SoundLibrary, NEW from \in Names, NEW to \in Names,
           NEW r, r = LibRename(l, from, to).lib
    PROVE  IF from \in LibNames(l) /\ to \notin LibNames(l)
             THEN Renames(l, r, from, to) ELSE Stays(l, r)
<1>. DEFINE p == LibFind(l, from)
            NS == (LibNames(l) \ {from}) \cup {to}
            H  == [m \in NS |-> IF m = to THEN Held(l)[from] ELSE Held(l)[m]]
<1>1. CASE from # to /\ LibExists(l, from) /\ ~ LibExists(l, to)
  <2>1. /\ from \in LibNames(l) /\ to \notin LibNames(l)
        /\ p \in DOMAIN l.vec /\ l.vec[p].name = from
    BY <1>1, NamesAre, LibFindFinds
  <2>2. r = [l EXCEPT !.vec[p].name = to, !.active = IF @ = from THEN to ELSE @]
    BY <1>1 DEF LibRename, Ok, Result
  <2>3. r \in SoundLibrary
    BY RenameSound
  <2>. HIDE DEF p
  <2>4. /\ r.active = IF l.active = from THEN to ELSE l.active
        /\ DOMAIN r.vec = DOMAIN l.vec
        /\ \A i \in DOMAIN l.vec : /\ r.vec[i].name = IF i = p THEN to ELSE l.vec[i].name
                                  /\ r.vec[i].cache = l.vec[i].cache
    BY <2>1, <2>2, SoundEntries DEF SoundLibrary, MarkedEntry
  <2>5. \A i \in DOMAIN l.vec : l.vec[i].name = from <=> i = p
    BY <2>1, SoundEntries DEF DistinctNames
  <2>6. H \in [NS -> SUBSET AllWalls]
    BY <2>1, HeldType
  <2>7. ASSUME NEW i \in DOMAIN r.vec
        PROVE  r.vec[i].name \in NS /\ H[r.vec[i].name] = Values(r.vec[i].cache.items)
    <3>1. i \in DOMAIN l.vec /\ l.vec[i].name \in LibNames(l)
          /\ Held(l)[l.vec[i].name] = Values(r.vec[i].cache.items)
      BY <2>4, HeldAt
    <3>. QED
      BY <2>1, <2>4, <2>5, <3>1
  <2>8. \A m \in NS : \E i \in DOMAIN r.vec : r.vec[i].name = m
    <3> SUFFICES ASSUME NEW m \in NS PROVE \E i \in DOMAIN r.vec : r.vec[i].name = m
      OBVIOUS
    <3>1. CASE m = to
      BY <2>1, <2>4, <3>1
    <3>2. CASE m # to
      <4>1. PICK i \in DOMAIN l.vec : l.vec[i].name = m
        BY <3>2 DEF LibNames
      <4>. QED
        BY <2>1, <2>4, <3>2, <4>1
    <3>. QED
      BY <3>1, <3>2
  <2>. HIDE DEF H, NS
  <2>9. Held(r) = H
    BY <2>3, <2>6, <2>7, <2>8, HeldIs
  <2>. QED
    BY <2>1, <2>4, <2>9 DEF Renames, H, NS
<1>2. CASE ~ (from # to /\ LibExists(l, from) /\ ~ LibExists(l, to))
  BY <1>2, NamesAre DEF LibRename, Result, Stays
<1>. QED
  BY <1>1, <1>2

LEMMA RemoveHeld ==
    ASSUME NEW l \in SoundLibrary, NEW n \in Names, NEW r, r = LibRemove(l, n).lib
    PROVE  IF n \in LibNames(l) THEN Drops(l, r, n) ELSE Stays(l, r)
<1>1. CASE LibExists(l, n)
  BY <1>1, NamesAre, EraseHeld DEF Drops
<1>2. CASE ~ LibExists(l, n)
  BY <1>2, NamesAre DEF LibRemove, Result, Stays
<1>. QED
  BY <1>1, <1>2

LEMMA ErasedValues ==
    ASSUME NEW c \in MarkedCache, NEW w \in Walls, CacheContains(c, w)
    PROVE  /\ CacheErase(c, CacheFind(c, w)) \in MarkedCache
           /\ w \in Values(c.items)
           /\ Values(CacheErase(c, CacheFind(c, w)).items)
                 \in {Values(c.items), Values(c.items) \ {w}}
<1>. DEFINE k == CacheFind(c, w)
<1>1. c.items \in Seq(Item) /\ c \in Cache
  BY DEF MarkedCache, Cache
<1>2. k \in DOMAIN c.items /\ c.items[k].value = w
  BY <1>1, CacheFindFinds
<1>. HIDE DEF k
<1>3. CacheErase(c, k) \in MarkedCache
  BY <1>2, CacheEraseMarked
<1>4. Values(RemoveAt(c.items, k)) \in {Values(c.items), Values(c.items) \ {w}}
  BY <1>1, <1>2, RemoveAtValues
<1>5. w \in Values(c.items)
  BY <1>2, ValuesAre
<1>. QED
  BY <1>3, <1>4, <1>5 DEF CacheErase, k

\* A wallpaper is found in a collection that holds it.
LEMMA ContainsIsHeld ==
    ASSUME NEW l \in SoundLibrary, NEW n \in LibNames(l), NEW w
    PROVE  CacheContains(l.vec[LibFind(l, n)].cache, w) <=> w \in Held(l)[n]
<1>1. Held(l)[n] = Values(l.vec[LibFind(l, n)].cache.items)
  BY HeldType
<1>. QED
  BY <1>1, ValuesAre DEF CacheContains

LEMMA RemoveItemHeld ==
    ASSUME NEW l \in SoundLibrary, NEW n \in Names, NEW w \in Walls,
           NEW r, r = LibRemoveItem(l, n, w).lib
    PROVE  IF n # w /\ n \in LibNames(l) /\ w \in Held(l)[n]
             THEN Discards(l, r, n, w) ELSE Stays(l, r)
<1>. DEFINE p == LibFind(l, n)
            c == l.vec[p].cache
            e == CacheErase(c, CacheFind(c, w))
<1>0. n \in LibNames(l) => (CacheContains(c, w) <=> w \in Held(l)[n])
  BY ContainsIsHeld
<1>1. CASE n # w /\ LibExists(l, n)
  <2>1. /\ n \in LibNames(l) /\ p \in DOMAIN l.vec /\ l.vec[p].name = n
        /\ c \in MarkedCache
    BY <1>1, NamesAre, LibFindFinds, SoundEntries DEF MarkedEntry
  <2>2. r = IF CacheContains(c, w) THEN [l EXCEPT !.vec[p].cache = e]
                                      ELSE [l EXCEPT !.vec[p].cache = CacheTouch(c)]
    BY <1>1 DEF LibRemoveItem, Ok, Result
  <2>3. CASE CacheContains(c, w)
    <3>1. /\ e \in MarkedCache
          /\ Values(e.items) \in {Values(c.items), Values(c.items) \ {w}}
      BY <2>1, <2>3, ErasedValues
    <3>2. Held(l)[n] = Values(c.items)
      BY <2>1, HeldAt
    <3>5. w \in Held(l)[n]
      BY <1>0, <2>1, <2>3
    <3>. HIDE DEF p, c, e
    <3>3. r.active = l.active /\ Held(r) = [Held(l) EXCEPT ![n] = Values(e.items)]
      <4>. DEFINE u == [l EXCEPT !.vec[p].cache = e]
      <4>1. /\ u.active = l.active
          /\ Held(u) = [Held(l) EXCEPT ![l.vec[p].name] = Values(e.items)]
        BY <2>1, <3>1, UpdateHeld, SMTT(30)
      <4>2. r = u
        BY <2>2, <2>3
      <4>. HIDE DEF u
      <4>. QED
        BY <2>1, <4>1, <4>2
    <3>4. Values(e.items) \in {Held(l)[n], Held(l)[n] \ {w}}
      BY <3>1, <3>2
    <3>. QED
      BY <1>1, <2>1, <3>3, <3>4, <3>5 DEF Discards
  <2>4. CASE ~ CacheContains(c, w)
    <3>1. CacheTouch(c) \in MarkedCache /\ CacheTouch(c).items = c.items
      BY <2>1, CacheTouchMarked DEF CacheTouch, MarkedCache, Cache
    <3>2. w \notin Held(l)[n]
      BY <1>0, <2>1, <2>4
    <3>. HIDE DEF p
    <3>3. Stays(l, r)
      BY <2>1, <2>2, <2>4, <3>1, SameValuesStay
    <3>. QED
      BY <3>2, <3>3
  <2>. QED
    BY <2>3, <2>4
<1>2. CASE ~ (n # w /\ LibExists(l, n))
  <2>1. r = l /\ (n = w \/ n \notin LibNames(l))
    BY <1>2, NamesAre DEF LibRemoveItem, Result
  <2>. QED
    BY <2>1 DEF Stays
<1>. QED
  BY <1>1, <1>2

LEMMA MergeHeld ==
    ASSUME NEW l \in SoundLibrary, NEW n \in Names, NEW m \in Names,
           NEW r, r = LibMerge(l, n, m).lib
    PROVE  IF n # m /\ {n, m} \subseteq LibNames(l)
             THEN Merges(l, r, n, m) ELSE Stays(l, r)
<1>1. CASE n # m /\ LibExists(l, n) /\ LibExists(l, m)
  <2>. DEFINE c1     == l.vec[LibFind(l, n)].cache
              c2     == l.vec[LibFind(l, m)].cache
              merged == CacheMerge(c1, c2)
              one    == LibRemove(l, n).lib
              rest   == LibRemove(one, m).lib
  <2>1. n \in LibNames(l) /\ m \in LibNames(l)
    BY <1>1, NamesAre
  <2>2. c1 \in MarkedCache /\ c2 \in MarkedCache
    BY <1>1, LibFindFinds, SoundEntries DEF MarkedEntry
  <2>3. merged \in MarkedCache /\ Values(merged.items) = Held(l)[n] \cup Held(l)[m]
    <3>1. Held(l)[n] = Values(c1.items) /\ Held(l)[m] = Values(c2.items)
      BY <2>1, HeldType
    <3>2. merged \in MarkedCache
      BY <2>2, CacheMergeMarked
    <3>3. ToSet(merged.items) = ToSet(c1.items) \cup ToSet(c2.items)
      BY <2>2, MergeKeepsItems DEF CacheMerge, MarkedCache, Cache
    <3>. HIDE DEF c1, c2, merged
    <3>4. Values(merged.items) = Values(c1.items) \cup Values(c2.items)
      BY <3>3 DEF Values
    <3>. QED
      BY <3>1, <3>2, <3>4
  <2>4. r = [rest EXCEPT !.vec = Append(@, [name |-> n, cache |-> merged])]
    BY <1>1 DEF LibMerge, Ok, Result
  <2>. HIDE DEF c1, c2, merged
  <2>5. /\ one \in SoundLibrary /\ one.active = l.active
        /\ LibNames(one) = LibNames(l) \ {n}
        /\ Held(one) = [k \in LibNames(l) \ {n} |-> Held(l)[k]]
    BY <2>1, EraseHeld
  <2>. HIDE DEF one
  <2>6. /\ rest \in SoundLibrary /\ rest.active = l.active
        /\ LibNames(rest) = LibNames(l) \ {n, m}
        /\ Held(rest) = [k \in LibNames(l) \ {n, m} |-> Held(l)[k]]
    <3>1. m \in LibNames(one)
      BY <1>1, <2>1, <2>5
    <3>2. /\ rest \in SoundLibrary /\ rest.active = one.active
          /\ LibNames(rest) = LibNames(one) \ {m}
          /\ Held(rest) = [k \in LibNames(one) \ {m} |-> Held(one)[k]]
      BY <2>5, <3>1, EraseHeld
    <3>. QED
      BY <2>5, <3>2
  <2>. HIDE DEF rest
  <2>7. /\ r.active = rest.active
        /\ Held(r) = [k \in LibNames(rest) \cup {n} |->
                            IF k = n THEN Values(merged.items) ELSE Held(rest)[k]]
    <3>1. n \notin LibNames(rest) /\ merged \in MarkedCache /\ rest \in SoundLibrary
      BY <2>3, <2>6
    <3>. DEFINE u == [rest EXCEPT !.vec = Append(@, [name |-> n, cache |-> merged])]
    <3>2. /\ u.active = rest.active
          /\ Held(u) = [k \in LibNames(rest) \cup {n} |->
                           IF k = n THEN Values(merged.items) ELSE Held(rest)[k]]
      BY <3>1, AppendHeld
    <3>3. r = u
      BY <2>4
    <3>. HIDE DEF u
    <3>. QED
      BY <3>2, <3>3
  <2>8. LibNames(rest) \cup {n} = LibNames(l) \ {m}
    BY <1>1, <2>1, <2>6
  <2>9. Held(r) = [k \in LibNames(l) \ {m} |->
                         IF k = n THEN Held(l)[n] \cup Held(l)[m] ELSE Held(l)[k]]
    BY <2>3, <2>6, <2>7, <2>8
  <2>. QED
    BY <1>1, <2>1, <2>6, <2>7, <2>9 DEF Merges
<1>2. CASE ~ (n # m /\ LibExists(l, n) /\ LibExists(l, m))
  BY <1>2, NamesAre DEF LibMerge, Result, Stays
<1>. QED
  BY <1>1, <1>2

LEMMA InsertedElemValues ==
    ASSUME NEW c \in MarkedCache, NEW item \in Item
    PROVE  /\ CacheInsertElem(c, item) \in MarkedCache
           /\ Values(CacheInsertElem(c, item).items) = Values(c.items) \cup {item.value}
<1>1. c.items \in Seq(Item) /\ CacheInsertElem(c, item) \in MarkedCache
  BY CacheInsertElemMarked DEF MarkedCache, Cache
<1>2. CASE \E i \in DOMAIN c.items : c.items[i] = item
  <2>1. item.value \in Values(c.items)
    BY <1>2, ValuesAre
  <2>. QED
    BY <1>1, <1>2, <2>1 DEF CacheInsertElem
<1>3. CASE ~ \E i \in DOMAIN c.items : c.items[i] = item
  <2>1. CacheInsertElem(c, item).items = Append(c.items, item)
    BY <1>3 DEF CacheInsertElem
  <2>. QED
    BY <1>1, <2>1, AppendValues
<1>. QED
  BY <1>2, <1>3

LEMMA MoveHeld ==
    ASSUME NEW l \in SoundLibrary, NEW src \in Names, NEW dst \in Names, NEW w \in Walls,
           NEW r, r = LibMove(l, src, dst, w).lib
    PROVE  IF /\ src # dst /\ dst # w /\ {src, dst} \subseteq LibNames(l)
              /\ w \in Held(l)[src]
             THEN Moves(l, r, src, dst, w) ELSE Stays(l, r)
<1>. DEFINE s    == LibFind(l, src)
            d    == LibFind(l, dst)
            from == l.vec[s].cache
            k    == CacheFind(from, w)
            to   == CacheInsertElem(l.vec[d].cache, from.items[k])
            rest == CacheErase(from, k)
<1>1. CASE /\ src # dst /\ dst # w /\ LibExists(l, src) /\ LibExists(l, dst)
           /\ CacheContains(from, w)
  <2>1. /\ src \in LibNames(l) /\ s \in DOMAIN l.vec /\ l.vec[s].name = src
        /\ dst \in LibNames(l) /\ d \in DOMAIN l.vec /\ l.vec[d].name = dst
    BY <1>1, NamesAre, LibFindFinds
  <2>2. s # d /\ from \in MarkedCache /\ l.vec[d].cache \in MarkedCache
    BY <1>1, <2>1, SoundEntries DEF MarkedEntry
  <2>3. Held(l)[src] = Values(from.items) /\ Held(l)[dst] = Values(l.vec[d].cache.items)
    BY <2>1, HeldAt
  <2>4. r = UpdateTwice(l, d, to, s, rest)
    <3>. HIDE DEF s, d
    <3>. QED
      BY <1>1, <2>1, <2>2 DEF LibMove, Ok, Result, UpdateTwice, s, d
  <2>. HIDE DEF s, d
  <2>5. from.items[k] \in Item /\ from.items[k].value = w
    <3>1. k \in DOMAIN from.items /\ from.items[k].value = w
      BY <1>1, <2>2, CacheFindFinds DEF MarkedCache
    <3>. QED
      BY <2>2, <3>1, LenProperties, ElementOfSeq DEF MarkedCache, Cache
  <2>6. to \in MarkedCache /\ Values(to.items) = Held(l)[dst] \cup {w}
    BY <2>2, <2>3, <2>5, InsertedElemValues
  <2>7. /\ rest \in MarkedCache /\ w \in Held(l)[src]
        /\ Values(rest.items) \in {Held(l)[src], Held(l)[src] \ {w}}
    BY <1>1, <2>2, <2>3, ErasedValues
  <2>. DEFINE mid == [l EXCEPT !.vec[d].cache = to]
  <2>. HIDE DEF to, rest, from
  <2>8. /\ mid \in SoundLibrary /\ mid.active = l.active /\ LibNames(mid) = LibNames(l)
        /\ Held(mid) = [Held(l) EXCEPT ![dst] = Held(l)[dst] \cup {w}]
    <3>1. /\ mid \in SoundLibrary /\ mid.active = l.active /\ LibNames(mid) = LibNames(l)
          /\ Held(mid) = [Held(l) EXCEPT ![l.vec[d].name] = Values(to.items)]
      <4>1. d \in DOMAIN l.vec /\ to \in MarkedCache
        BY <2>1, <2>6
      <4>. QED
        BY <4>1, UpdateHeld
    <3>. HIDE DEF mid
    <3>. QED
      BY <2>1, <2>6, <3>1
  <2>9. s \in DOMAIN mid.vec /\ mid.vec[s].name = src
    BY <2>1, <2>2, SoundEntries DEF SoundLibrary
  <2>10. r = [mid EXCEPT !.vec[s].cache = rest]
    BY <2>4 DEF UpdateTwice
  <2>. HIDE DEF mid
  <2>11. r.active = l.active /\ Held(r) = [Held(mid) EXCEPT ![src] = Values(rest.items)]
    <3>. DEFINE u == [mid EXCEPT !.vec[s].cache = rest]
    <3>1. /\ u.active = mid.active
          /\ Held(u) = [Held(mid) EXCEPT ![mid.vec[s].name] = Values(rest.items)]
      <4>1. mid \in SoundLibrary /\ s \in DOMAIN mid.vec /\ rest \in MarkedCache
        BY <2>7, <2>8, <2>9
      <4>. QED
        BY <4>1, UpdateHeld
    <3>2. r = u
      BY <2>10
    <3>. HIDE DEF u
    <3>. QED
      BY <2>8, <2>9, <3>1, <3>2
  <2>12. Held(l) \in [LibNames(l) -> SUBSET AllWalls]
    BY HeldType
  <2>13. Held(r) = [Held(l) EXCEPT ![src] = Values(rest.items),
                                        ![dst] = Held(l)[dst] \cup {w}]
    BY <1>1, <2>1, <2>8, <2>11, <2>12
  <2>. DEFINE kept == Values(rest.items)
  <2>14. /\ Held(r) = [Held(l) EXCEPT ![src] = kept, ![dst] = Held(l)[dst] \cup {w}]
         /\ r.active = l.active
         /\ kept \in {Held(l)[src], Held(l)[src] \ {w}} /\ w \in Held(l)[src]
    BY <2>7, <2>11, <2>13
  <2>. HIDE DEF kept
  <2>. QED
    BY <1>1, <2>1, <2>14 DEF Moves
<1>2. CASE ~ (/\ src # dst /\ dst # w /\ LibExists(l, src) /\ LibExists(l, dst)
              /\ CacheContains(from, w))
  <2>1. r = l
    BY <1>2 DEF LibMove, Result
  <2>2. ~ (/\ src # dst /\ dst # w /\ {src, dst} \subseteq LibNames(l)
           /\ w \in Held(l)[src])
    BY <1>2, NamesAre, ContainsIsHeld
  <2>. QED
    BY <2>1, <2>2 DEF Stays
<1>. QED
  BY <1>1, <1>2

LEMMA SetStateHeld ==
    ASSUME NEW l \in SoundLibrary, NEW p \in DOMAIN l.vec,
           NEW k \in DOMAIN l.vec[p].cache.items, NEW s \in States,
           NEW r, r = [l EXCEPT !.vec[p].cache = CacheSetState(@, k, s)]
    PROVE  Stays(l, r)
<1>. DEFINE c == l.vec[p].cache
            u == CacheSetState(c, k, s)
<1>1. c \in MarkedCache /\ c.items \in Seq(Item)
  BY SoundEntries DEF MarkedEntry, MarkedCache, Cache
<1>2. u \in MarkedCache
  BY <1>1, CacheSetStateMarked
<1>3. r = [l EXCEPT !.vec[p].cache = u]
  OBVIOUS
<1>4. Values(u.items) = Values(c.items)
  <2>1. \A i \in DOMAIN c.items : c.items[i] \in Item
    BY <1>1, LenProperties, ElementOfSeq
  <2>2. DOMAIN u.items = DOMAIN c.items
    BY DEF CacheSetState
  <2>3. \A i \in DOMAIN c.items : u.items[i].value = c.items[i].value
    BY <2>1 DEF CacheSetState, Item
  <2>. HIDE DEF u
  <2>. QED
    BY <2>2, <2>3, ValuesAre
<1>. HIDE DEF u
<1>. QED
  BY <1>2, <1>3, <1>4, SameValuesStay

LEMMA ReloadHeld ==
    ASSUME NEW l \in SoundLibrary, NEW a \in LibActiveWritten(l),
           NEW r, r = LibLoad(LibDocument(l, a))
    PROVE  Reopens(l, r)
<1>1. a \in Strings /\ r \in SoundLibrary
  BY ActiveWrittenType, ReloadSound
<1>2. /\ r.active = a /\ DOMAIN r.vec = DOMAIN l.vec
      /\ \A i \in DOMAIN l.vec : /\ r.vec[i].name = l.vec[i].name
                                /\ r.vec[i].cache = CacheFromJson(l.vec[i].cache.items)
  <2>. DEFINE doc == LibDocument(l, a)
  <2>1. /\ doc.active = a /\ DOMAIN doc.libraries = DOMAIN l.vec
        /\ \A i \in DOMAIN l.vec : /\ doc.libraries[i].name = l.vec[i].name
                                  /\ doc.libraries[i].items = l.vec[i].cache.items
    BY DEF LibDocument
  <2>. HIDE DEF doc
  <2>2. /\ LibLoad(doc).active = doc.active /\ DOMAIN LibLoad(doc).vec = DOMAIN doc.libraries
        /\ \A i \in DOMAIN doc.libraries :
              /\ LibLoad(doc).vec[i].name = doc.libraries[i].name
              /\ LibLoad(doc).vec[i].cache = CacheFromJson(doc.libraries[i].items)
    BY DEF LibLoad
  <2>. QED
    BY <2>1, <2>2 DEF doc
<1>3. ASSUME NEW i \in DOMAIN l.vec
      PROVE  Values(r.vec[i].cache.items) = Values(l.vec[i].cache.items)
  <2>. DEFINE items == l.vec[i].cache.items
  <2>1. items \in Seq(Item)
    BY SoundEntries DEF MarkedEntry, MarkedCache, Cache
  <2>2. r.vec[i].cache = CacheFromJson(items)
    BY <1>2
  <2>. HIDE DEF items
  <2>3. CASE items = <<>>
    BY <2>2, <2>3 DEF CacheFromJson, NewCache, items
  <2>4. CASE items # <<>>
    <3>1. r.vec[i].cache.items = Distinct(items)
      BY <2>2, <2>4 DEF CacheFromJson
    <3>. QED
      BY <2>1, <3>1, DistinctValues DEF items
  <2>. QED
    BY <2>3, <2>4
<1>4. Held(r) = Held(l)
  <2>1. ASSUME NEW i \in DOMAIN r.vec
        PROVE  /\ r.vec[i].name \in LibNames(l)
               /\ Held(l)[r.vec[i].name] = Values(r.vec[i].cache.items)
    BY <1>2, <1>3, HeldAt
  <2>2. \A m \in LibNames(l) : \E i \in DOMAIN r.vec : r.vec[i].name = m
    BY <1>2 DEF LibNames
  <2>3. Held(l) \in [LibNames(l) -> SUBSET AllWalls]
    BY HeldType
  <2>. QED
    BY <1>1, <2>1, <2>2, <2>3, HeldIs
<1>. QED
  BY <1>1, <1>2, <1>4 DEF Reopens

-----------------------------------------------------------------------------
(***************************************************************************)
(* All the wallpapers of a library.  What each kind of step does to them.  *)
(***************************************************************************)
Wallpapers(l) == UNION {Held(l)[n] : n \in LibNames(l)}

LEMMA WallpapersAre ==
    ASSUME NEW l
    PROVE  /\ DOMAIN Held(l) = LibNames(l)
           /\ \A w : w \in Wallpapers(l) <=> \E n \in LibNames(l) : w \in Held(l)[n]
BY DEF Held, Wallpapers

LEMMA StaysKeeps ==
    ASSUME NEW l, NEW r, Held(r) = Held(l)
    PROVE  Wallpapers(r) = Wallpapers(l)
<1>1. LibNames(r) = LibNames(l)
  BY WallpapersAre
<1>. QED
  BY <1>1 DEF Wallpapers

LEMMA CreatesAdds ==
    ASSUME NEW l, NEW r, NEW n, NEW ws, Creates(l, r, n, ws)
    PROVE  Wallpapers(r) = Wallpapers(l) \cup ws
<1>1. /\ n \notin LibNames(l)
      /\ Held(r) = [m \in LibNames(l) \cup {n} |-> IF m = n THEN ws ELSE Held(l)[m]]
  BY DEF Creates
<1>2. LibNames(r) = LibNames(l) \cup {n}
  BY <1>1, WallpapersAre
<1>3. \A m \in LibNames(l) : Held(r)[m] = Held(l)[m]
  BY <1>1
<1>4. Held(r)[n] = ws
  BY <1>1
<1>5. \A w : w \in Wallpapers(r) <=> w \in Wallpapers(l) \/ w \in ws
  BY <1>2, <1>3, <1>4, WallpapersAre
<1>. QED
  BY <1>5

LEMMA PutsAdds ==
    ASSUME NEW l, NEW r, NEW n, NEW w, Puts(l, r, n, w)
    PROVE  Wallpapers(r) = Wallpapers(l) \cup {w}
<1>1. n \in LibNames(l) /\ Held(r) = [Held(l) EXCEPT ![n] = Held(l)[n] \cup {w}]
  BY DEF Puts
<1>2. LibNames(r) = LibNames(l) /\ DOMAIN Held(l) = LibNames(l)
  BY <1>1, WallpapersAre
<1>3. \A m \in LibNames(l) : Held(r)[m] = IF m = n THEN Held(l)[n] \cup {w} ELSE Held(l)[m]
  BY <1>1, <1>2
<1>4. \A v : v \in Wallpapers(r) <=> v \in Wallpapers(l) \/ v = w
  BY <1>1, <1>2, <1>3, WallpapersAre
<1>. QED
  BY <1>4

LEMMA RenamesKeeps ==
    ASSUME NEW l, NEW r, NEW from, NEW to, Renames(l, r, from, to)
    PROVE  Wallpapers(r) = Wallpapers(l)
<1>. DEFINE NS == (LibNames(l) \ {from}) \cup {to}
<1>1. /\ from \in LibNames(l) /\ to \notin LibNames(l)
      /\ Held(r) = [m \in NS |-> IF m = to THEN Held(l)[from] ELSE Held(l)[m]]
  BY DEF Renames
<1>2. LibNames(r) = NS
  BY <1>1, WallpapersAre
<1>3. /\ Held(r)[to] = Held(l)[from] /\ to \in NS
      /\ \A m \in LibNames(l) \ {from} : m \in NS /\ Held(r)[m] = Held(l)[m]
  BY <1>1
<1>4. \A m \in NS : m = to \/ m \in LibNames(l) \ {from}
  OBVIOUS
<1>. HIDE DEF NS
<1>5. \A w : w \in Wallpapers(l) => w \in Wallpapers(r)
  BY <1>2, <1>3, WallpapersAre
<1>6. \A w : w \in Wallpapers(r) => w \in Wallpapers(l)
  BY <1>1, <1>2, <1>3, <1>4, WallpapersAre
<1>. QED
  BY <1>5, <1>6

LEMMA MergesKeeps ==
    ASSUME NEW l, NEW r, NEW n, NEW m, Merges(l, r, n, m)
    PROVE  Wallpapers(r) = Wallpapers(l)
<1>1. /\ n \in LibNames(l) /\ m \in LibNames(l) /\ n # m
      /\ Held(r) = [k \in LibNames(l) \ {m} |->
                       IF k = n THEN Held(l)[n] \cup Held(l)[m] ELSE Held(l)[k]]
  BY DEF Merges
<1>2. LibNames(r) = LibNames(l) \ {m}
  BY <1>1, WallpapersAre
<1>3. /\ Held(r)[n] = Held(l)[n] \cup Held(l)[m]
      /\ \A k \in LibNames(l) \ {m, n} : Held(r)[k] = Held(l)[k]
  BY <1>1
<1>4. ASSUME NEW w PROVE w \in Wallpapers(l) => w \in Wallpapers(r)
  <2>. SUFFICES ASSUME NEW k \in LibNames(l), w \in Held(l)[k] PROVE w \in Wallpapers(r)
    BY WallpapersAre
  <2>1. CASE k \in {n, m}
    BY <1>1, <1>2, <1>3, <2>1, WallpapersAre
  <2>2. CASE k \notin {n, m}
    BY <1>2, <1>3, <2>2, WallpapersAre
  <2>. QED
    BY <2>1, <2>2
<1>5. \A w : w \in Wallpapers(r) => w \in Wallpapers(l)
  BY <1>1, <1>2, <1>3, WallpapersAre
<1>. QED
  BY <1>4, <1>5

\* What is moved out of one collection is in the other.
LEMMA MovesKeeps ==
    ASSUME NEW l, NEW r, NEW from, NEW to, NEW w, Moves(l, r, from, to, w)
    PROVE  Wallpapers(r) = Wallpapers(l)
<1>1. PICK rest \in {Held(l)[from], Held(l)[from] \ {w}} :
         Held(r) = [Held(l) EXCEPT ![from] = rest, ![to] = Held(l)[to] \cup {w}]
  BY DEF Moves
<1>2. from \in LibNames(l) /\ to \in LibNames(l) /\ from # to /\ w \in Held(l)[from]
  BY DEF Moves
<1>3. LibNames(r) = LibNames(l) /\ DOMAIN Held(l) = LibNames(l)
  BY <1>1, WallpapersAre
<1>4. /\ Held(r)[from] = rest /\ Held(r)[to] = Held(l)[to] \cup {w}
      /\ \A k \in LibNames(l) \ {from, to} : Held(r)[k] = Held(l)[k]
  BY <1>1, <1>2, <1>3
<1>5. \A v : (v \in rest => v \in Held(l)[from]) /\ (v \in Held(l)[from] => v \in rest \/ v = w)
  OBVIOUS
<1>6. ASSUME NEW v PROVE v \in Wallpapers(l) => v \in Wallpapers(r)
  <2>. SUFFICES ASSUME NEW k \in LibNames(l), v \in Held(l)[k] PROVE v \in Wallpapers(r)
    BY WallpapersAre
  <2>1. CASE k = to \/ v = w
    BY <1>2, <1>3, <1>4, <2>1, WallpapersAre
  <2>2. CASE k = from /\ v # w
    BY <1>2, <1>3, <1>4, <1>5, <2>2, WallpapersAre
  <2>3. CASE k \notin {from, to}
    BY <1>3, <1>4, <2>3, WallpapersAre
  <2>. QED
    BY <2>1, <2>2, <2>3
<1>7. ASSUME NEW v PROVE v \in Wallpapers(r) => v \in Wallpapers(l)
  <2>. SUFFICES ASSUME NEW k \in LibNames(l), v \in Held(r)[k] PROVE v \in Wallpapers(l)
    BY <1>3, WallpapersAre
  <2>1. CASE k \in {from, to}
    BY <1>2, <1>4, <1>5, <2>1, WallpapersAre
  <2>2. CASE k \notin {from, to}
    BY <1>4, <2>2, WallpapersAre
  <2>. QED
    BY <2>1, <2>2
<1>. QED
  BY <1>6, <1>7

LEMMA DropsTakes ==
    ASSUME NEW l, NEW r, NEW n, Drops(l, r, n)
    PROVE  Wallpapers(r) \subseteq Wallpapers(l)
<1>1. Held(r) = [m \in LibNames(l) \ {n} |-> Held(l)[m]]
  BY DEF Drops
<1>2. LibNames(r) = LibNames(l) \ {n}
  BY <1>1, WallpapersAre
<1>3. \A m \in LibNames(r) : m \in LibNames(l) /\ Held(r)[m] = Held(l)[m]
  BY <1>1, <1>2
<1>. QED
  BY <1>3, WallpapersAre

LEMMA DiscardsTakes ==
    ASSUME NEW l, NEW r, NEW n, NEW w, Discards(l, r, n, w)
    PROVE  Wallpapers(r) \subseteq Wallpapers(l)
<1>1. PICK rest \in {Held(l)[n], Held(l)[n] \ {w}} : Held(r) = [Held(l) EXCEPT ![n] = rest]
  BY DEF Discards
<1>2. LibNames(r) = LibNames(l) /\ DOMAIN Held(l) = LibNames(l)
  BY <1>1, WallpapersAre
<1>3. rest \subseteq Held(l)[n]
  OBVIOUS
<1>4. \A m \in LibNames(l) : Held(r)[m] \subseteq Held(l)[m]
  BY <1>1, <1>2, <1>3
<1>. QED
  BY <1>2, <1>4, WallpapersAre
=============================================================================
