------------------------------- MODULE Changer -------------------------------
(***************************************************************************)
(* The command line program `changer' and its two files.  A process loads  *)
(* libraries.json and path_table.json, runs the collection commands given  *)
(* on its command line, always in the order in which m_collection_cmds     *)
(* looks for them and up to the first one that fails, and then stores the  *)
(* path table and after it the library.  Opening a file for writing        *)
(* empties it: a process that dies before the text is written leaves a     *)
(* file that no later process can parse.  A file that cannot be opened for *)
(* writing, in a data directory that nobody has made for instance, and a   *)
(* write that fails are passed over in silence.                            *)
(***************************************************************************)
EXTENDS CacheLibrary, PathTable

CONSTANTS Procs,         \* processes, which may run at the same time
          NoDir,         \* an empty path, or one that does not exist
          NoFile,        \* a file that is missing
          Emptied,       \* a file opened for writing, with the text not yet whole
          Garbled,       \* a file with pieces of the texts of several processes
          NotUtf8,       \* the directories, wallpapers and names that are not UTF-8
          Failing,       \* the files whose opening or writing may fail
          MaxItems,      \* bound: items in a library
          MaxListing,    \* bound: files in a directory
          MaxCrashes     \* bound: processes killed

ASSUME ChangerAssumption ==
    /\ Ids \subseteq Locs
    /\ NoDir \notin Dirs
    /\ NoFile \notin {Emptied, Garbled} /\ Emptied # Garbled
    /\ {NoFile, Emptied, Garbled} \cap (Documents \cup Stores) = {}
    /\ Failing \subseteq {"paths", "library"}
    /\ {MaxItems, MaxListing, MaxCrashes} \subseteq Nat

VARIABLES libFile,       \* libraries.json
          pathFile,      \* path_table.json
          pc,            \* what each process does next
          phase,         \* the last command each process has run
          lib, table,    \* the library and the path table of each process
          failed,        \* the files whose writing has failed; no process knows
          crashes

Unreadable == {Emptied, Garbled}

files == <<libFile, pathFile>>
vars  == <<libFile, pathFile, pc, phase, lib, table, failed, crashes>>

(***************************************************************************)
(* The commands, numbered in the order in which they are looked for; a     *)
(* command that fails ends the sequence.                                   *)
(***************************************************************************)
CreateCmd   == 1
ActivateCmd == 2
AddCmd      == 3
RemoveCmd   == 4
RenameCmd   == 5
MergeCmd    == 6
MoveCmd     == 7
ValidateCmd == 8
LastCmd     == ValidateCmd

Blank(p) ==
    /\ phase' = [phase EXCEPT ![p] = 0]
    /\ lib'   = [lib EXCEPT ![p] = EmptyLibrary]
    /\ table' = [table EXCEPT ![p] = TableOf(EmptyStore)]

\* The process is gone: it returned from main, was terminated or was killed.
Gone(p) == pc' = [pc EXCEPT ![p] = "off"] /\ Blank(p)

Goto(p, where) == pc' = [pc EXCEPT ![p] = where]

Init ==
    /\ libFile = NoFile /\ pathFile = NoFile
    /\ pc = [p \in Procs |-> "off"]
    /\ phase = [p \in Procs |-> 0]
    /\ lib = [p \in Procs |-> EmptyLibrary]
    /\ table = [p \in Procs |-> TableOf(EmptyStore)]
    /\ failed = {}
    /\ crashes = 0

-----------------------------------------------------------------------------
(***************************************************************************)
(* Starting: the constructor of Manager reads the library, then the path   *)
(* table.  A file that cannot be parsed throws out of it and out of main.  *)
(***************************************************************************)
LoadLibrary(p) ==
    /\ pc[p] = "off"
    /\ libFile \notin Unreadable
    /\ lib' = [lib EXCEPT ![p] = IF libFile = NoFile THEN EmptyLibrary ELSE LibLoad(libFile)]
    /\ Goto(p, "loading")
    /\ UNCHANGED <<files, phase, table, failed, crashes>>

\* Mutant of LoadPaths: an unreadable path table counts as a missing one.
LoadPathsTolerant(p) ==
    /\ pc[p] = "loading"
    /\ table' = [table EXCEPT ![p] =
                    TableOf(IF pathFile \in Unreadable \cup {NoFile} THEN EmptyStore ELSE pathFile)]
    /\ Goto(p, "running")
    /\ UNCHANGED <<files, phase, lib, failed, crashes>>

LoadPaths(p) ==
    /\ pc[p] = "loading"
    /\ pathFile \notin Unreadable
    /\ table' = [table EXCEPT ![p] = TableOf(IF pathFile = NoFile THEN EmptyStore ELSE pathFile)]
    /\ Goto(p, "running")
    /\ UNCHANGED <<files, phase, lib, failed, crashes>>

CannotStart(p) ==
    /\ \/ pc[p] = "off" /\ libFile \in Unreadable
       \/ pc[p] = "loading" /\ pathFile \in Unreadable
    /\ Gone(p)
    /\ UNCHANGED <<files, failed, crashes>>

-----------------------------------------------------------------------------
\* Command number k has the result r and leaves the path table t.
Run(p, k, r, t) ==
    /\ pc[p] = "running" /\ phase[p] < k
    /\ phase' = [phase EXCEPT ![p] = IF r.err = "Success" THEN k ELSE LastCmd]
    /\ lib'   = [lib EXCEPT ![p] = r.lib]
    /\ table' = [table EXCEPT ![p] = t]
    /\ UNCHANGED <<files, pc, failed, crashes>>

\* The directory is entered in the path table before the name is looked up.
Create(p, n, d, listing) ==
    Run(p, CreateCmd,
        LibInsert(lib[p], n, IF d = NoDir THEN NewCache ELSE CacheOf(listing, Crc[d])),
        IF d = NoDir THEN table[p] ELSE TableInsert(table[p], d))

\* A path that exists and is not a directory: directory_iterator throws in a
\* noexcept function.
CreateTerminates(p) ==
    /\ pc[p] = "running" /\ phase[p] < CreateCmd
    /\ Gone(p)
    /\ UNCHANGED <<files, failed, crashes>>

Activate(p, n) == Run(p, ActivateCmd, LibChangeActive(lib[p], n), table[p])

\* The directory is entered even when the collection has the wallpaper already.
Add(p, n, w, d) ==
    IF LibExists(lib[p], n)
      THEN Run(p, AddCmd,
               Ok([lib[p] EXCEPT !.vec[LibFind(lib[p], n)].cache = CacheInsert(@, w, Crc[d])]),
               TableInsert(table[p], d))
      ELSE Run(p, AddCmd, Result("cache_does_not_exists", lib[p]), table[p])

RemoveCollection(p, n)   == Run(p, RemoveCmd, LibRemove(lib[p], n), table[p])
RemoveWallpaper(p, n, w) == Run(p, RemoveCmd, LibRemoveItem(lib[p], n, w), table[p])
Rename(p, from, to)      == Run(p, RenameCmd, LibRename(lib[p], from, to), table[p])
Merge(p, n, m)           == Run(p, MergeCmd, LibMerge(lib[p], n, m), table[p])
Move(p, w, src, dst)     == Run(p, MoveCmd, LibMove(lib[p], src, dst, w), table[p])

ItemLocs(l) == UNION {{it.loc : it \in ToSet(l.vec[i].cache.items)} : i \in DOMAIN l.vec}

LocsOf(l, n) ==
    {it.loc : it \in ToSet(l.vec[LibFind(l, n)].cache.items)}

\* validate_collection looks every directory up: value() of a missing one
\* throws in a noexcept function.
Answerable(p, n) ==
    LibExists(lib[p], n) => LocsOf(lib[p], n) \subseteq DOMAIN table[p].store

Validate(p, n) ==
    /\ Answerable(p, n)
    /\ Run(p, ValidateCmd, LibGetCache(lib[p], n), table[p])

ValidateTerminates(p, n) ==
    /\ pc[p] = "running" /\ phase[p] < ValidateCmd
    /\ ~ Answerable(p, n)
    /\ Gone(p)
    /\ UNCHANGED <<files, failed, crashes>>

-----------------------------------------------------------------------------
(***************************************************************************)
(* Manager::store.  The text goes to the file in blocks, at the positions  *)
(* that the writer counts: when another process has written since the file *)
(* was opened, the blocks of the two may alternate.  (The tail of a longer *)
(* text does no harm, since parsing stops at the end of the document.)     *)
(* dump() throws on a string that is not UTF-8, when the file is open.     *)
(***************************************************************************)
Written(file, text) == IF file = Emptied THEN {text} ELSE {text, Garbled}

\* What is in the file when the writer stops before its text is whole.
Partly(file) == IF file = Emptied THEN {Emptied} ELSE {file, Garbled}

DocumentText(doc) ==
    {doc.active} \cup
    UNION {{doc.libraries[i].name} \cup {it.value : it \in ToSet(doc.libraries[i].items)} :
              i \in DOMAIN doc.libraries}

TableDumps(t)   == Range(t.store) \cap NotUtf8 = {}
LibraryDumps(l) == \A a \in LibActiveWritten(l) : DocumentText(LibDocument(l, a)) \cap NotUtf8 = {}

Fails(file) == file \in Failing /\ failed' = failed \cup {file}

OpenPaths(p) ==
    /\ pc[p] = "running"
    /\ IF table[p].modified
         THEN pathFile' = Emptied /\ Goto(p, "writingPaths")
         ELSE Goto(p, "pathsStored") /\ UNCHANGED pathFile
    /\ UNCHANGED <<libFile, phase, lib, table, failed, crashes>>

\* The stream is not looked at, and the text is produced all the same.
OpenPathsFails(p) ==
    /\ pc[p] = "running" /\ table[p].modified
    /\ Fails("paths")
    /\ IF TableDumps(table[p])
         THEN Goto(p, "pathsStored") /\ UNCHANGED <<phase, lib, table>>
         ELSE Gone(p)
    /\ UNCHANGED <<files, crashes>>

WritePaths(p) ==
    /\ pc[p] = "writingPaths" /\ TableDumps(table[p])
    /\ pathFile' \in Written(pathFile, table[p].store)
    /\ Goto(p, "pathsStored")
    /\ UNCHANGED <<libFile, phase, lib, table, failed, crashes>>

WritePathsFails(p) ==
    /\ pc[p] = "writingPaths" /\ TableDumps(table[p])
    /\ Fails("paths")
    /\ pathFile' \in Partly(pathFile)
    /\ Goto(p, "pathsStored")
    /\ UNCHANGED <<libFile, phase, lib, table, crashes>>

\* path_table::store is noexcept.
DumpPathsThrows(p) ==
    /\ pc[p] = "writingPaths" /\ ~ TableDumps(table[p])
    /\ pathFile' \in Partly(pathFile)
    /\ Gone(p)
    /\ UNCHANGED <<libFile, failed, crashes>>

\* Mutant of OpenLibrary: the library is opened before the path table is written.
OpenLibraryEarly(p) ==
    /\ pc[p] \in {"writingPaths", "pathsStored"}
    /\ TRUE \in LibModified(lib[p])
    /\ libFile' = Emptied
    /\ Goto(p, "writingLibrary")
    /\ UNCHANGED <<pathFile, phase, lib, table, failed, crashes>>

OpenLibrary(p) ==
    /\ pc[p] = "pathsStored"
    /\ TRUE \in LibModified(lib[p])
    /\ libFile' = Emptied
    /\ Goto(p, "writingLibrary")
    /\ UNCHANGED <<pathFile, phase, lib, table, failed, crashes>>

\* The stream is not good(), and main returns 0.
OpenLibraryFails(p) ==
    /\ pc[p] = "pathsStored"
    /\ TRUE \in LibModified(lib[p])
    /\ Fails("library")
    /\ Gone(p)
    /\ UNCHANGED <<files, crashes>>

ExitUnsaved(p) ==
    /\ pc[p] = "pathsStored"
    /\ FALSE \in LibModified(lib[p])
    /\ Gone(p)
    /\ UNCHANGED <<files, failed, crashes>>

WriteLibrary(p) ==
    /\ pc[p] = "writingLibrary"
    /\ \E a \in LibActiveWritten(lib[p]) :
          /\ DocumentText(LibDocument(lib[p], a)) \cap NotUtf8 = {}
          /\ libFile' \in Written(libFile, LibDocument(lib[p], a))
    /\ Gone(p)
    /\ UNCHANGED <<pathFile, failed, crashes>>

WriteLibraryFails(p) ==
    /\ pc[p] = "writingLibrary"
    /\ Fails("library")
    /\ libFile' \in Partly(libFile)
    /\ Gone(p)
    /\ UNCHANGED <<pathFile, crashes>>

\* With a stale m_current the active name is read behind the vector, and what is
\* there need not be text.
DumpLibraryThrows(p) ==
    /\ pc[p] = "writingLibrary"
    /\ ~ LibraryDumps(lib[p]) \/ lib[p].current >= Len(lib[p].vec)
    /\ libFile' \in Partly(libFile)
    /\ Gone(p)
    /\ UNCHANGED <<pathFile, failed, crashes>>

\* The read behind the vector can end the process, before the file is opened.
ActiveNameFails(p) ==
    /\ pc[p] = "pathsStored" /\ TRUE \in LibModified(lib[p])
    /\ lib[p].current >= Len(lib[p].vec)
    /\ Gone(p)
    /\ UNCHANGED <<files, failed, crashes>>

Kill(p) ==
    /\ pc[p] # "off"
    /\ crashes < MaxCrashes
    /\ crashes' = crashes + 1
    /\ pathFile' \in IF pc[p] = "writingPaths" THEN Partly(pathFile) ELSE {pathFile}
    /\ libFile' \in IF pc[p] = "writingLibrary" THEN Partly(libFile) ELSE {libFile}
    /\ Gone(p)
    /\ UNCHANGED failed

-----------------------------------------------------------------------------
Command(p) ==
    \E n \in Names :
        \/ \E d \in Dirs \cup {NoDir}, listing \in Listings(MaxListing) : Create(p, n, d, listing)
        \/ Activate(p, n) \/ RemoveCollection(p, n)
        \/ Validate(p, n) \/ ValidateTerminates(p, n)
        \/ \E w \in Walls :
              \/ RemoveWallpaper(p, n, w)
              \/ \E d \in Dirs : Add(p, n, w, d)
              \/ \E m \in Names : Move(p, w, n, m)
        \/ \E m \in Names : Rename(p, n, m) \/ Merge(p, n, m)

Next ==
    \E p \in Procs :
        \/ LoadLibrary(p) \/ LoadPaths(p) \/ CannotStart(p)
        \/ Command(p) /\ ItemCount(lib'[p]) <= MaxItems
        \/ CreateTerminates(p)
        \/ OpenPaths(p) \/ OpenPathsFails(p)
        \/ WritePaths(p) \/ WritePathsFails(p) \/ DumpPathsThrows(p)
        \/ OpenLibrary(p) \/ OpenLibraryFails(p) \/ ExitUnsaved(p) \/ ActiveNameFails(p)
        \/ WriteLibrary(p) \/ WriteLibraryFails(p) \/ DumpLibraryThrows(p)
        \/ Kill(p)

Spec == Init /\ [][Next]_vars

-----------------------------------------------------------------------------
Places == {"off", "loading", "running", "writingPaths", "pathsStored", "writingLibrary"}

TypeOK ==
    /\ libFile \in Documents \cup Unreadable \cup {NoFile}
    /\ pathFile \in Stores \cup Unreadable \cup {NoFile}
    /\ pc \in [Procs -> Places]
    /\ phase \in [Procs -> 0..LastCmd]
    /\ lib \in [Procs -> Library]
    /\ table \in [Procs -> PathTables]
    /\ failed \in SUBSET Failing
    /\ crashes \in 0..MaxCrashes

DocumentLocs(doc) ==
    UNION {{it.loc : it \in ToSet(doc.libraries[i].items)} : i \in DOMAIN doc.libraries}

StoredIds == IF pathFile = NoFile THEN {} ELSE DOMAIN pathFile

\* The library on disk never refers to a directory that the path table on disk
\* lacks, wherever a process was killed or a string could not be written: the path
\* table is stored first.  Only when writing it has failed, which nobody looks at,
\* does the library go ahead of it.
PathsKnownOnDisk ==
    libFile \notin Unreadable \cup {NoFile} /\ pathFile \notin Unreadable
        => "paths" \in failed \/ DocumentLocs(libFile) \subseteq StoredIds

\* Whatever sequence of commands runs and fails, after whatever crash, every
\* directory that validate looks up is found, unless a path table was not written.
ValidateAnswers ==
    \A p \in Procs :
        pc[p] = "running" /\ "paths" \notin failed
            => ItemLocs(lib[p]) \subseteq DOMAIN table[p].store

\* A crash, and a library that cannot be written, cost one file: the two are never
\* unreadable at the same time, unless writing the path table has failed.
OneFileSurvives ==
    libFile \in Unreadable /\ pathFile \in Unreadable => "paths" \in failed

\* No run repairs a file: when no process is left and one of the files is
\* unreadable, no process ever gets as far as running a command again.
Abandoned ==
    /\ libFile \in Unreadable \/ pathFile \in Unreadable
    /\ \A p \in Procs : pc[p] = "off"

NoneRuns == \A p \in Procs : pc[p] \in {"off", "loading"}

LostForever == [](Abandoned => []NoneRuns)

\* However the processes interleave, every library, in a process or on disk, has
\* collections of distinct names, and a process marks those that hold wallpapers.
WellFormed ==
    /\ libFile \notin Unreadable \cup {NoFile} => DistinctNames(libFile.libraries)
    /\ \A p \in Procs :
          /\ DistinctNames(lib[p].vec)
          /\ \A i \in DOMAIN lib[p].vec : Marked(lib[p].vec[i].cache)

\* The step with which process p ends, once it has begun to store.
Finishes(p) ==
    pc[p] \in {"writingPaths", "pathsStored", "writingLibrary"} /\ pc'[p] = "off"

Content(l) == [i \in DOMAIN l.vec |-> [name |-> l.vec[i].name, items |-> l.vec[i].cache.items]]

\* A run that gets as far as storing, with a wallpaper in some collection, has
\* stored exactly the collections it has when it ends, unless the process is
\* killed, the library could not be written, a string is not UTF-8, or m_current is
\* stale: a path table that could not be written does not stop it.
SavedUnlessEmpty ==
    [][\A p \in Procs :
          /\ Finishes(p) /\ crashes' = crashes /\ "library" \notin failed'
          /\ TableDumps(table[p]) /\ LibraryDumps(lib[p])
          /\ HoldsWallpapers(lib[p]) /\ lib[p].current < Len(lib[p].vec)
          => libFile' \notin Unreadable \cup {NoFile} /\ libFile'.libraries = Content(lib[p])]_vars
=============================================================================
