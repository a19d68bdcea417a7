------------------------------ MODULE MergeLoop ------------------------------
(***************************************************************************)
(* merge_cache and the reload that follows it, as the loops that run: the  *)
(* merge of two item lists into a vector of blank items (std::ranges::     *)
(* merge), then the insertion of the saved items one at a time into a      *)
(* cleared cache (from_json).  The other modules use the closed forms      *)
(* Merged and CacheFromJson; here they are compared with the loops, for    *)
(* item lists in any order, with repetitions, sorted or not.               *)
(***************************************************************************)
EXTENDS WallCache

CONSTANT MaxLength          \* bound: length of each of the two lists

ASSUME MaxLengthAssumption == MaxLength \in Nat

VARIABLES left, right,      \* the items of col1 and col2
          atLeft, atRight,  \* the cursors of the merge, 1-based
          out,              \* the vector of the new store
          loaded,           \* the cache being read back
          next              \* the saved item to insert next, 0 while merging

mergeVars == <<left, right, atLeft, atRight, out, loaded, next>>

Items == [value : Walls, state : {"unused"}, loc : Locs]
Lists == UNION {[1..n -> Items] : n \in 0..MaxLength}

MergeInit ==
    /\ left \in Lists /\ right \in Lists
    /\ atLeft = 1 /\ atRight = 1
    /\ out = [k \in 1..(Len(left) + Len(right)) |-> BlankItem]
    /\ loaded = NewCache
    /\ next = 0

Merging == next = 0
Pending == <<atLeft <= Len(left), atRight <= Len(right)>>

WriteLeft ==
    /\ out' = [out EXCEPT ![atLeft + atRight - 1] = left[atLeft]]
    /\ atLeft' = atLeft + 1
    /\ UNCHANGED <<left, right, atRight, loaded, next>>

\* Mutant of WriteRight: the other cursor moves.
WriteRightWrongCursor ==
    /\ out' = [out EXCEPT ![atLeft + atRight - 1] = right[atRight]]
    /\ atLeft' = atLeft + 1
    /\ UNCHANGED <<left, right, atRight, loaded, next>>

WriteRight ==
    /\ out' = [out EXCEPT ![atLeft + atRight - 1] = right[atRight]]
    /\ atRight' = atRight + 1
    /\ UNCHANGED <<left, right, atLeft, loaded, next>>

\* Mutant of TakeRight: the comparison is the other way round.
TakeRightSwapped ==
    Merging /\ Pending = <<TRUE, TRUE>> /\ ItemLess(left[atLeft], right[atRight]) /\ WriteRight

RightIsLess == ItemLess(right[atRight], left[atLeft])

TakeRight == Merging /\ Pending = <<TRUE, TRUE>> /\ RightIsLess /\ WriteRight
TakeLeft  == Merging /\ Pending = <<TRUE, TRUE>> /\ ~ RightIsLess /\ WriteLeft
CopyLeft  == Merging /\ Pending = <<TRUE, FALSE>> /\ WriteLeft
CopyRight == Merging /\ Pending = <<FALSE, TRUE>> /\ WriteRight

\* An empty cache is saved as null, and null leaves the loaded cache alone.
StartReload ==
    /\ Merging /\ Pending = <<FALSE, FALSE>>
    /\ next' = 1
    /\ loaded' = IF out = <<>> THEN loaded ELSE CacheTouch(loaded)
    /\ UNCHANGED <<left, right, atLeft, atRight, out>>

ReloadItem ==
    /\ next \in DOMAIN out
    /\ loaded' = CacheInsertElem(loaded, out[next])
    /\ next' = next + 1
    /\ UNCHANGED <<left, right, atLeft, atRight, out>>

MergeNext == TakeLeft \/ TakeRight \/ CopyLeft \/ CopyRight \/ StartReload \/ ReloadItem

MergeSpec == MergeInit /\ [][MergeNext]_mergeVars

-----------------------------------------------------------------------------
MergeTypeOK ==
    /\ left \in Lists /\ right \in Lists
    /\ atLeft \in 1..(Len(left) + 1) /\ atRight \in 1..(Len(right) + 1)
    /\ out \in [1..(Len(left) + Len(right)) -> Items \cup {BlankItem}]
    /\ loaded \in Cache
    /\ next \in 0..(Len(out) + 1)

\* The closed form of the merge agrees with what the loop has written so far,
\* at every step of the loop.
MergedIsTheLoop ==
    \A k \in DOMAIN out :
        out[k] = IF k < atLeft + atRight - 1 THEN Merged(left, right)[k] ELSE BlankItem

\* merge_cache merges lists that are in insertion order: the result is sorted
\* when both lists are, and in any case keeps the order inside each list.
Sorted(s) == \A a, b \in DOMAIN s : a < b => ~ ItemLess(s[b], s[a])

MergeKeepsOrder ==
    next > 0 =>
        /\ Sorted(left) /\ Sorted(right) => Sorted(out)
        /\ \E from \in SUBSET DOMAIN out :
              /\ \A k \in DOMAIN left : \E p \in from : out[p] = left[k] /\ RankIn(from, p) = k
              /\ \A k \in DOMAIN right :
                    \E p \in DOMAIN out \ from :
                        out[p] = right[k] /\ RankIn(DOMAIN out \ from, p) = k

\* The closed form of loading agrees with the insertion loop.
LoadedIsTheLoop == next = Len(out) + 1 => loaded = CacheFromJson(out)
=============================================================================
