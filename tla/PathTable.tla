------------------------------ MODULE PathTable ------------------------------
(***************************************************************************)
(* wallchanger::path_table (change_lib/path_table.cpp): the directories of *)
(* the wallpapers, each under the CRC32 of its path, the number that       *)
(* cache_item::loc refers to.  A number is entered once, so the vector of  *)
(* pairs is a function from the entered numbers to directories.            *)
(***************************************************************************)
EXTENDS Integers, Functions

CONSTANTS Dirs,      \* directories
          Crc        \* the CRC32 of their paths; two of them may collide

ASSUME CrcAssumption == Crc \in [Dirs -> Nat]

Ids    == {Crc[d] : d \in Dirs}
Stores == UNION {[ids -> Dirs] : ids \in SUBSET Ids}

PathTables == [store : Stores, modified : BOOLEAN]

EmptyStore == [id \in {} |-> id]

\* path_table(), from the entries of the file.
TableOf(store) == [store |-> store, modified |-> FALSE]

TableExists(t, id) == id \in DOMAIN t.store

\* Mutant of TableInsert: the table is not marked.
TableInsertUnmarked(t, d) ==
    [t EXCEPT !.store = [id \in DOMAIN t.store \cup {Crc[d]} |->
                            IF TableExists(t, id) THEN t.store[id] ELSE d]]

\* The path of a second directory with the same CRC is not entered.
TableInsert(t, d) ==
    IF TableExists(t, Crc[d])
      THEN t
      ELSE [store    |-> [id \in DOMAIN t.store \cup {Crc[d]} |->
                             IF id = Crc[d] THEN d ELSE t.store[id]],
            modified |-> TRUE]
=============================================================================
