------------------------------ MODULE WallCache ------------------------------
(***************************************************************************)
(* wallchanger::cache<std::string> (change_lib/wall_cache.hpp): the list   *)
(* of wallpapers of one collection, with the flag that says whether the    *)
(* list must be saved, and its round trip through JSON (json_helper.hpp).  *)
(*                                                                         *)
(* A string is a natural number, its rank in the lexicographic order, so   *)
(* that items compare as the defaulted <=> compares them.  The rank 0 is   *)
(* the empty string, the value of a default-constructed item.              *)
(***************************************************************************)
EXTENDS Integers, SequencesExt

CONSTANTS Walls,     \* file names of wallpapers (cache_item::cache_value)
          Locs       \* CRC32 values of directories (cache_item::loc)

ASSUME WallsAssumption == Walls \subseteq Nat
ASSUME LocsAssumption  == Locs \subseteq Nat /\ 0 \in Locs

NoString == 0

States     == {"null", "unused", "used", "favorate"}
StateOrder == [null |-> 0, unused |-> 1, used |-> 2, favorate |-> 3]

Item  == [value : Walls \cup {NoString}, state : States, loc : Locs]
Cache == [items : Seq(Item), modified : BOOLEAN]

\* cache_item(): what a cache of a given size is filled with.
BlankItem == [value |-> NoString, state |-> "null", loc |-> 0]

ItemLess(a, b) ==
    \/ a.value < b.value
    \/ a.value = b.value /\ StateOrder[a.state] < StateOrder[b.state]
    \/ a.value = b.value /\ a.state = b.state /\ a.loc < b.loc

-----------------------------------------------------------------------------
NewCache == [items |-> <<>>, modified |-> FALSE]

CacheContains(c, w) == \E i \in DOMAIN c.items : c.items[i].value = w

\* std::ranges::find over the values: the first item of that name.
CacheFind(c, w) == Min({i \in DOMAIN c.items : c.items[i].value = w})

\* Mutant of CacheInsert: the cache is not marked.
CacheInsertUnmarked(c, w, loc) ==
    IF CacheContains(c, w)
      THEN c
      ELSE [c EXCEPT !.items = Append(@, [value |-> w, state |-> "unused", loc |-> loc])]

CacheInsert(c, w, loc) ==
    IF CacheContains(c, w)
      THEN c
      ELSE [items    |-> Append(c.items, [value |-> w, state |-> "unused", loc |-> loc]),
            modified |-> TRUE]

\* insert_elem drops an item only when an identical one is already there.
CacheInsertElem(c, item) ==
    IF \E i \in DOMAIN c.items : c.items[i] = item
      THEN c
      ELSE [items |-> Append(c.items, item), modified |-> TRUE]

CacheErase(c, i) == [items |-> RemoveAt(c.items, i), modified |-> TRUE]

\* The non-const begin(), end() and data() mark the cache whether or not the
\* caller writes through what they return.
CacheTouch(c) == [c EXCEPT !.modified = TRUE]

CacheSetState(c, i, st) == [items |-> [c.items EXCEPT ![i].state = st], modified |-> TRUE]

\* Listings of a directory, in any order.  The file names are distinct: of files
\* in subdirectories that have one name, insert() enters the first.
Listings(max) ==
    {s \in UNION {[1..k -> Walls] : k \in 0..max} :
        \A i, j \in DOMAIN s : i # j => s[i] # s[j]}

\* A cache filled by insert() from such a listing.
CacheOf(listing, loc) ==
    [items    |-> [i \in DOMAIN listing |->
                     [value |-> listing[i], state |-> "unused", loc |-> loc]],
     modified |-> listing # <<>>]

-----------------------------------------------------------------------------
(***************************************************************************)
(* std::ranges::merge(a, b, out), in closed form, for inputs that need not *)
(* be sorted.  The loop writes b[j] before a[i] iff, while the cursor of a *)
(* stood at some a[k] with k <= i, everything in b up to b[j] was smaller. *)
(* The module MergeLoop compares the form with the loop itself.            *)
(***************************************************************************)
\* Mutant of WrittenBefore: of two equal items the right one is written first.
WrittenBeforeOnTie(a, b, j, i) == \E k \in 1..i : \A l \in 1..j : ~ ItemLess(a[k], b[l])

WrittenBefore(a, b, j, i) == \E k \in 1..i : \A l \in 1..j : ItemLess(b[l], a[k])

PositionOfLeft(a, b, i)  == i + Cardinality({j \in DOMAIN b : WrittenBefore(a, b, j, i)})
PositionOfRight(a, b, j) == j + Cardinality({i \in DOMAIN a : ~ WrittenBefore(a, b, j, i)})

Merged(a, b) ==
    [k \in 1..(Len(a) + Len(b)) |->
        LET left  == {i \in DOMAIN a : PositionOfLeft(a, b, i) = k}
            right == {j \in DOMAIN b : PositionOfRight(a, b, j) = k}
        IN  IF left # {} THEN a[Min(left)]
            ELSE IF right # {} THEN b[Min(right)]
            ELSE BlankItem]

\* Mutant of CacheMerge: the new store has room for the first collection only.
CacheMergeShort(c1, c2) ==
    [items |-> SubSeq(Merged(c1.items, c2.items), 1, Len(c1.items)), modified |-> TRUE]

CacheMerge(c1, c2) == [items |-> Merged(c1.items, c2.items), modified |-> TRUE]

-----------------------------------------------------------------------------
(***************************************************************************)
(* Saving writes the items; loading inserts them one by one with           *)
(* insert_elem, which keeps the first of each group of identical items.    *)
(* An empty cache is saved as null, and null loads as an untouched cache:  *)
(* the loaded cache is marked as modified unless it is empty.              *)
(***************************************************************************)
\* Mutant of Firsts: an item read again replaces the earlier one.
FirstsReplaced(items) ==
    {i \in DOMAIN items : \A j \in (i + 1)..Len(items) : items[j] # items[i]}

Firsts(items) == {i \in DOMAIN items : \A j \in 1..(i - 1) : items[j] # items[i]}

RankIn(S, i) == Cardinality({j \in S : j <= i})

Distinct(items) ==
    LET F == Firsts(items)
    IN  [k \in 1..Cardinality(F) |-> items[CHOOSE i \in F : RankIn(F, i) = k]]

CacheFromJson(items) ==
    IF items = <<>> THEN NewCache ELSE [items |-> Distinct(items), modified |-> TRUE]
=============================================================================
