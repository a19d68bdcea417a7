---------------------------- MODULE ChangerProofs ----------------------------
(***************************************************************************)
(* Properties of Changer for any number of processes, crashes, names,      *)
(* wallpapers and directories: every library is well formed, in memory and *)
(* on disk; and for one process at a time: what a crash does to the files, *)
(* that every directory is known, and that what a run did is saved.        *)
(***************************************************************************)
EXTENDS Changer, CacheLemmas

ControlOK ==
    /\ pc \in [Procs -> Places]
    /\ phase \in [Procs -> 0..LastCmd]
    /\ failed \in SUBSET Failing
    /\ crashes \in 0..MaxCrashes

TablesOK ==
    /\ pathFile \in Stores \cup Unreadable \cup {NoFile}
    /\ table \in [Procs -> PathTables]

LibrariesOK ==
    /\ libFile \in SoundDocuments \cup Unreadable \cup {NoFile}
    /\ lib \in [Procs -> SoundLibrary]

Sound == ControlOK /\ TablesOK /\ LibrariesOK

-----------------------------------------------------------------------------
LEMMA EmptyTableType == TableOf(EmptyStore) \in PathTables /\ EmptyStore \in Stores
<1>1. EmptyStore \in [{} -> Dirs] /\ {} \in SUBSET Ids
  BY DEF EmptyStore
<1>2. EmptyStore \in Stores
  BY <1>1 DEF Stores
<1>. QED
  BY <1>2 DEF TableOf, PathTables

LEMMA TableInsertType ==
    ASSUME NEW t \in PathTables, NEW d \in Dirs
    PROVE  TableInsert(t, d) \in PathTables
<1>. DEFINE store == [id \in DOMAIN t.store \cup {Crc[d]} |->
                        IF id = Crc[d] THEN d ELSE t.store[id]]
<1>1. PICK ids \in SUBSET Ids : t.store \in [ids -> Dirs]
  BY DEF PathTables, Stores
<1>2. Crc[d] \in Ids
  BY DEF Ids
<1>3. store \in [ids \cup {Crc[d]} -> Dirs]
  BY <1>1
<1>4. ids \cup {Crc[d]} \in SUBSET Ids
  BY <1>2
<1>. HIDE DEF store
<1>5. store \in Stores
  BY <1>3, <1>4 DEF Stores
<1>. QED
  BY <1>5 DEF TableInsert, PathTables, store

LEMMA CommandConstants ==
    /\ LastCmd \in Nat
    /\ {CreateCmd, ActivateCmd, AddCmd, RemoveCmd, RenameCmd, MergeCmd, MoveCmd, ValidateCmd}
          \subseteq 0..LastCmd
BY DEF LastCmd, CreateCmd, ActivateCmd, AddCmd, RemoveCmd, RenameCmd, MergeCmd, MoveCmd, ValidateCmd

\* A command with a well-typed result keeps the state well typed.
LEMMA RunSound ==
    ASSUME Sound, NEW p \in Procs, NEW k \in 0..LastCmd, NEW r, NEW t \in PathTables,
           r.lib \in SoundLibrary, Run(p, k, r, t)
    PROVE  Sound'
<1>1. ControlOK'
  BY CommandConstants DEF Sound, ControlOK, Run
<1>2. TablesOK'
  BY DEF Sound, TablesOK, Run, files
<1>3. LibrariesOK'
  BY DEF Sound, LibrariesOK, Run, files
<1>. QED
  BY <1>1, <1>2, <1>3 DEF Sound

LEMMA GoneSound ==
    ASSUME Sound, NEW p \in Procs, Gone(p),
           libFile' \in SoundDocuments \cup Unreadable \cup {NoFile},
           pathFile' \in Stores \cup Unreadable \cup {NoFile},
           failed' \in SUBSET Failing, crashes' \in 0..MaxCrashes
    PROVE  Sound'
<1>1. ControlOK'
  BY CommandConstants DEF Sound, ControlOK, Gone, Blank, Places
<1>2. TablesOK'
  BY EmptyTableType DEF Sound, TablesOK, Gone, Blank
<1>3. LibrariesOK'
  BY EmptyIsSound DEF Sound, LibrariesOK, Gone, Blank
<1>. QED
  BY <1>1, <1>2, <1>3 DEF Sound

LEMMA CommandSound ==
    ASSUME Sound, NEW p \in Procs, Command(p)
    PROVE  Sound'
<1>. lib[p] \in SoundLibrary /\ table[p] \in PathTables
  BY DEF Sound, LibrariesOK, TablesOK
<1>. USE CommandConstants
<1>1. ASSUME NEW n \in Names, NEW d \in Dirs \cup {NoDir}, NEW listing \in Listings(MaxListing),
             Create(p, n, d, listing)
      PROVE  Sound'
  <2>. DEFINE c == IF d = NoDir THEN NewCache ELSE CacheOf(listing, Crc[d])
              t == IF d = NoDir THEN table[p] ELSE TableInsert(table[p], d)
  <2>1. d # NoDir => d \in Dirs /\ Crc[d] \in Locs
    BY ChangerAssumption DEF Ids
  <2>2. c \in MarkedCache
    BY <2>1, ChangerAssumption, NewCacheMarked, CacheOfMarked
  <2>3. t \in PathTables
    BY <2>1, TableInsertType
  <2>4. LibInsert(lib[p], n, c).lib \in SoundLibrary
    BY <2>2, InsertSound
  <2>5. Run(p, CreateCmd, LibInsert(lib[p], n, c), t)
    BY <1>1 DEF Create
  <2>. HIDE DEF c, t
  <2>. QED
    BY <2>3, <2>4, <2>5, RunSound
<1>2. ASSUME NEW n \in Names, Activate(p, n)
      PROVE  Sound'
  BY <1>2, ChangeActiveSound, RunSound DEF Activate
<1>3. ASSUME NEW n \in Names, RemoveCollection(p, n)
      PROVE  Sound'
  BY <1>3, RemoveSound, RunSound DEF RemoveCollection
<1>4. ASSUME NEW n \in Names, Validate(p, n)
      PROVE  Sound'
  BY <1>4, GetCacheSound, RunSound DEF Validate
<1>5. ASSUME NEW n \in Names, ValidateTerminates(p, n)
      PROVE  Sound'
  <2>1. libFile' = libFile /\ pathFile' = pathFile /\ crashes' = crashes
    BY <1>5 DEF ValidateTerminates, files
  <2>. QED
    BY <1>5, <2>1, GoneSound DEF ValidateTerminates, Sound, ControlOK, TablesOK, LibrariesOK
<1>6. ASSUME NEW n \in Names, NEW w \in Walls, RemoveWallpaper(p, n, w)
      PROVE  Sound'
  BY <1>6, RemoveItemSound, RunSound DEF RemoveWallpaper
<1>7. ASSUME NEW n \in Names, NEW w \in Walls, NEW d \in Dirs, Add(p, n, w, d)
      PROVE  Sound'
  <2>1. Crc[d] \in Locs
    BY ChangerAssumption DEF Ids
  <2>2. TableInsert(table[p], d) \in PathTables
    BY TableInsertType
  <2>3. CASE LibExists(lib[p], n)
    <3>. DEFINE l == [lib[p] EXCEPT !.vec[LibFind(lib[p], n)].cache = CacheInsert(@, w, Crc[d])]
    <3>1. l \in SoundLibrary
      BY <2>1, <2>3, AddSound
    <3>2. Run(p, AddCmd, Ok(l), TableInsert(table[p], d))
      BY <1>7, <2>3 DEF Add
    <3>. HIDE DEF l
    <3>3. Ok(l).lib \in SoundLibrary
      BY <3>1 DEF Ok, Result
    <3>. QED
      BY <2>2, <3>2, <3>3, RunSound
  <2>4. CASE ~ LibExists(lib[p], n)
    <3>1. Run(p, AddCmd, Result("cache_does_not_exists", lib[p]), table[p])
      BY <1>7, <2>4 DEF Add
    <3>2. Result("cache_does_not_exists", lib[p]).lib \in SoundLibrary
      BY DEF Result
    <3>. QED
      BY <3>1, <3>2, RunSound
  <2>. QED
    BY <2>3, <2>4
<1>8. ASSUME NEW n \in Names, NEW m \in Names, NEW w \in Walls, Move(p, w, n, m)
      PROVE  Sound'
  BY <1>8, MoveSound, RunSound DEF Move
<1>9. ASSUME NEW n \in Names, NEW m \in Names, Rename(p, n, m)
      PROVE  Sound'
  BY <1>9, RenameSound, RunSound DEF Rename
<1>10. ASSUME NEW n \in Names, NEW m \in Names, Merge(p, n, m)
       PROVE  Sound'
  BY <1>10, MergeSound, RunSound DEF Merge
<1>. QED
  BY <1>1, <1>2, <1>3, <1>4, <1>5, <1>6, <1>7, <1>8, <1>9, <1>10 DEF Command

-----------------------------------------------------------------------------
(***************************************************************************)
(* The steps with which a process ends, but for WriteLibrary.  A file that *)
(* it was writing may be left with a part of the text.                     *)
(***************************************************************************)
Ends(p) ==
    \/ CannotStart(p) \/ CreateTerminates(p) \/ ExitUnsaved(p) \/ ActiveNameFails(p)
    \/ (OpenPathsFails(p) /\ ~ TableDumps(table[p])) \/ OpenLibraryFails(p)
    \/ DumpPathsThrows(p) \/ WriteLibraryFails(p) \/ DumpLibraryThrows(p) \/ Kill(p)

LEMMA EndsIs ==
    ASSUME Sound, NEW p \in Procs, Ends(p)
    PROVE  /\ Gone(p)
           /\ pathFile' = pathFile \/ (pc[p] = "writingPaths" /\ pathFile' \in Partly(pathFile))
           /\ libFile' = libFile \/ (pc[p] = "writingLibrary" /\ libFile' \in Partly(libFile))
           /\ failed \subseteq failed' /\ failed' \in SUBSET Failing
           /\ crashes' \in 0..MaxCrashes
<1>1. crashes \in 0..MaxCrashes /\ failed \in SUBSET Failing /\ MaxCrashes \in Nat
  BY ChangerAssumption DEF Sound, ControlOK
<1>2. CASE CannotStart(p) \/ CreateTerminates(p) \/ ExitUnsaved(p) \/ ActiveNameFails(p)
  BY <1>1, <1>2 DEF CannotStart, CreateTerminates, ExitUnsaved, ActiveNameFails, files
<1>3. CASE (OpenPathsFails(p) /\ ~ TableDumps(table[p])) \/ OpenLibraryFails(p)
  BY <1>1, <1>3 DEF OpenPathsFails, OpenLibraryFails, Fails, files
<1>4. CASE DumpPathsThrows(p) \/ WriteLibraryFails(p) \/ DumpLibraryThrows(p)
  BY <1>1, <1>4 DEF DumpPathsThrows, WriteLibraryFails, DumpLibraryThrows, Fails
<1>5. CASE Kill(p)
  BY <1>1, <1>5 DEF Kill
<1>. QED
  BY <1>2, <1>3, <1>4, <1>5 DEF Ends

\* The two steps that go on without the path table on disk.
LEMMA GoesOnWithout ==
    ASSUME Sound, NEW p \in Procs,
           (OpenPathsFails(p) /\ TableDumps(table[p])) \/ WritePathsFails(p)
    PROVE  /\ pc[p] \in {"running", "writingPaths"} /\ pc' = [pc EXCEPT ![p] = "pathsStored"]
           /\ pathFile' = pathFile \/ pathFile' \in Partly(pathFile)
           /\ UNCHANGED <<libFile, phase, lib, table, crashes>>
           /\ failed \subseteq failed' /\ failed' \in SUBSET Failing /\ "paths" \in failed'
<1>1. failed \in SUBSET Failing
  BY DEF Sound, ControlOK
<1>. QED
  BY <1>1 DEF OpenPathsFails, WritePathsFails, Fails, Goto, files

Steps(p) ==
    \/ LoadLibrary(p) \/ LoadPaths(p) \/ Command(p)
    \/ OpenPaths(p) \/ WritePaths(p) \/ OpenLibrary(p) \/ WriteLibrary(p)
    \/ (OpenPathsFails(p) /\ TableDumps(table[p])) \/ WritePathsFails(p)
    \/ Ends(p)

LEMMA NextIs == Next => \E p \in Procs : Steps(p)
BY DEF Next, Steps, Ends

-----------------------------------------------------------------------------
LEMMA InitSound == Init => Sound
<1>. SUFFICES ASSUME Init PROVE Sound
  OBVIOUS
<1>1. ControlOK
  BY CommandConstants, ChangerAssumption DEF Init, ControlOK, Places
<1>2. TablesOK
  BY EmptyTableType DEF Init, TablesOK
<1>3. LibrariesOK
  BY EmptyIsSound DEF Init, LibrariesOK
<1>. QED
  BY <1>1, <1>2, <1>3 DEF Sound

LEMMA NextSound == Sound /\ [Next]_vars => Sound'
<1>. SUFFICES ASSUME Sound, [Next]_vars PROVE Sound'
  OBVIOUS
<1>. USE DEF Goto, files
<1>1. CASE UNCHANGED vars
  BY <1>1 DEF Sound, ControlOK, TablesOK, LibrariesOK, vars
<1>2. ASSUME NEW p \in Procs, LoadLibrary(p) PROVE Sound'
  <2>1. libFile # NoFile => LibLoad(libFile) \in SoundLibrary
    BY <1>2, LoadSound DEF LoadLibrary, Sound, LibrariesOK
  <2>2. ControlOK' /\ TablesOK'
    BY <1>2 DEF LoadLibrary, Sound, ControlOK, TablesOK, Places
  <2>3. LibrariesOK'
    BY <1>2, <2>1, EmptyIsSound DEF LoadLibrary, Sound, LibrariesOK
  <2>. QED
    BY <2>2, <2>3 DEF Sound
<1>3. ASSUME NEW p \in Procs, LoadPaths(p) PROVE Sound'
  <2>1. TableOf(IF pathFile = NoFile THEN EmptyStore ELSE pathFile) \in PathTables
    BY <1>3, EmptyTableType DEF LoadPaths, Sound, TablesOK, TableOf, PathTables
  <2>2. ControlOK' /\ LibrariesOK'
    BY <1>3 DEF LoadPaths, Sound, ControlOK, LibrariesOK, Places
  <2>3. TablesOK'
    BY <1>3, <2>1 DEF LoadPaths, Sound, TablesOK
  <2>. QED
    BY <2>2, <2>3 DEF Sound
<1>4. ASSUME NEW p \in Procs, Ends(p) PROVE Sound'
  <2>1. /\ pathFile' \in {pathFile} \cup Unreadable
        /\ libFile' \in {libFile} \cup Unreadable
    BY <1>4, EndsIs DEF Partly, Unreadable
  <2>. QED
    BY <1>4, <2>1, EndsIs, GoneSound DEF Sound, TablesOK, LibrariesOK
<1>5. ASSUME NEW p \in Procs, OpenPaths(p) \/ OpenLibrary(p) PROVE Sound'
  BY <1>5 DEF OpenPaths, OpenLibrary, Unreadable, Sound, ControlOK, TablesOK, LibrariesOK, Places
<1>6. ASSUME NEW p \in Procs, WritePaths(p) PROVE Sound'
  BY <1>6 DEF WritePaths, Written, Unreadable, Sound, ControlOK, TablesOK, LibrariesOK, Places, PathTables
<1>7. ASSUME NEW p \in Procs, WriteLibrary(p) PROVE Sound'
  <2>1. PICK a \in LibActiveWritten(lib[p]) : libFile' \in Written(libFile, LibDocument(lib[p], a))
    BY <1>7 DEF WriteLibrary
  <2>2. lib[p] \in SoundLibrary
    BY DEF Sound, LibrariesOK
  <2>3. LibDocument(lib[p], a) \in SoundDocuments
    BY <2>1, <2>2, ActiveWrittenType, DocumentSound
  <2>4. libFile' \in SoundDocuments \cup Unreadable
    BY <2>1, <2>3 DEF Written, Unreadable
  <2>5. Gone(p) /\ UNCHANGED <<pathFile, failed, crashes>>
    BY <1>7 DEF WriteLibrary
  <2>. QED
    BY <2>4, <2>5, GoneSound DEF Sound, ControlOK, TablesOK
<1>8. ASSUME NEW p \in Procs,
             (OpenPathsFails(p) /\ TableDumps(table[p])) \/ WritePathsFails(p)
      PROVE  Sound'
  <2>1. pathFile' \in {pathFile} \cup Unreadable
    BY <1>8, GoesOnWithout DEF Partly, Unreadable
  <2>. QED
    BY <1>8, <2>1, GoesOnWithout DEF Sound, ControlOK, TablesOK, LibrariesOK, Places
<1>. QED
  BY <1>1, <1>2, <1>3, <1>4, <1>5, <1>6, <1>7, <1>8, CommandSound, NextIs DEF Steps

\* Every reachable state of any number of processes is sound.
THEOREM AlwaysSound == Spec => []Sound
<1>. QED
  BY InitSound, NextSound, PTL DEF Spec

\* Every variable keeps its type.
THEOREM TypeCorrect == Spec => []TypeOK
<1>1. Sound => TypeOK
  BY SoundIsTyped DEF Sound, ControlOK, TablesOK, LibrariesOK, TypeOK, SoundDocuments
<1>. QED
  BY <1>1, AlwaysSound, PTL

\* However many processes interleave and die, the libraries in memory and on
\* disk have distinct names, and a process marks its non-empty collections.
THEOREM StaysWellFormed == Spec => []WellFormed
<1>1. Sound => WellFormed
  <2>. SUFFICES ASSUME Sound PROVE WellFormed
    OBVIOUS
  <2>1. libFile \notin Unreadable \cup {NoFile} => DistinctNames(libFile.libraries)
    BY DEF Sound, LibrariesOK, SoundDocuments
  <2>2. ASSUME NEW p \in Procs
        PROVE  /\ DistinctNames(lib[p].vec)
               /\ \A i \in DOMAIN lib[p].vec : Marked(lib[p].vec[i].cache)
    <3>1. lib[p] \in SoundLibrary
      BY DEF Sound, LibrariesOK
    <3>2. DistinctNames(lib[p].vec)
      BY <3>1 DEF SoundLibrary
    <3>3. ASSUME NEW i \in DOMAIN lib[p].vec PROVE Marked(lib[p].vec[i].cache)
      BY <3>1, <3>3, SoundEntries DEF MarkedEntry, MarkedCache
    <3>. QED
      BY <3>2, <3>3
  <2>. QED
    BY <2>1, <2>2 DEF WellFormed
<1>. QED
  BY <1>1, AlwaysSound, PTL

-----------------------------------------------------------------------------
(***************************************************************************)
(* Unreadable files.  A process that has read a file knows it was whole; a *)
(* process alone on the machine also knows that it still is.               *)
(***************************************************************************)
Alone == \A p, q \in Procs : p = q

HasLibrary == {"loading", "running", "writingPaths", "pathsStored"}
HasPaths   == {"running", "pathsStored", "writingLibrary"}

FilesOK ==
    /\ libFile \notin Unreadable \/ pathFile \notin Unreadable
    /\ \A p \in Procs :
          /\ pc[p] \in HasLibrary => libFile \notin Unreadable
          /\ pc[p] \in HasPaths => pathFile \notin Unreadable
          /\ pc[p] = "writingPaths" => pathFile = Emptied

\* As long as every path table has been written.
FilesInv == "paths" \notin failed => FilesOK

\* Commands and loading leave the files alone.
LEMMA CommandKeepsFiles ==
    ASSUME NEW p \in Procs, Command(p)
    PROVE  /\ UNCHANGED files
           /\ UNCHANGED pc \/ Gone(p)
<1>1. ASSUME NEW k, NEW r, NEW t, Run(p, k, r, t)
      PROVE  UNCHANGED files /\ UNCHANGED pc
  BY <1>1 DEF Run, files
<1>2. ASSUME NEW n \in Names, ValidateTerminates(p, n)
      PROVE  UNCHANGED files /\ Gone(p)
  BY <1>2 DEF ValidateTerminates, files
<1>3. (\E k, r, t : Run(p, k, r, t)) \/ \E n \in Names : ValidateTerminates(p, n)
  BY DEF Command, Create, Activate, Add, RemoveCollection, RemoveWallpaper, Rename,
         Merge, Move, Validate
<1>. QED
  BY <1>1, <1>2, <1>3

LEMMA FailedGrows == Sound /\ [Next]_vars => failed \subseteq failed'
<1>. SUFFICES ASSUME Sound, [Next]_vars PROVE failed \subseteq failed'
  OBVIOUS
<1>1. CASE UNCHANGED vars
  BY <1>1 DEF vars
<1>2. ASSUME NEW p \in Procs,
             \/ LoadLibrary(p) \/ LoadPaths(p) \/ OpenPaths(p) \/ WritePaths(p)
             \/ OpenLibrary(p) \/ WriteLibrary(p)
      PROVE  UNCHANGED failed
  BY <1>2 DEF LoadLibrary, LoadPaths, OpenPaths, WritePaths, OpenLibrary, WriteLibrary
<1>3. ASSUME NEW p \in Procs, Command(p) PROVE UNCHANGED failed
  BY <1>3 DEF Command, Create, Activate, Add, RemoveCollection, RemoveWallpaper, Rename,
              Merge, Move, Validate, ValidateTerminates, Run
<1>. QED
  BY <1>1, <1>2, <1>3, EndsIs, GoesOnWithout, NextIs DEF Steps

LEMMA FilesOKKept ==
    Alone /\ Sound /\ FilesOK /\ [Next]_vars /\ "paths" \notin failed' => FilesOK'
<1>. SUFFICES ASSUME Alone, Sound, FilesOK, [Next]_vars, "paths" \notin failed' PROVE FilesOK'
  OBVIOUS
<1>. USE ChangerAssumption DEF Unreadable, FilesOK, HasLibrary, HasPaths, Goto, files, Alone
<1>1. CASE UNCHANGED vars
  BY <1>1 DEF vars
<1>2. ASSUME NEW p \in Procs,
             UNCHANGED files, UNCHANGED pc \/ Gone(p)
      PROVE  FilesOK'
  BY <1>2 DEF Gone, Sound, ControlOK
<1>3. ASSUME NEW p \in Procs, LoadLibrary(p) \/ LoadPaths(p)
      PROVE  FilesOK'
  BY <1>3 DEF LoadLibrary, LoadPaths, Sound, ControlOK
<1>4. ASSUME NEW p \in Procs, OpenPaths(p)
      PROVE  FilesOK'
  BY <1>4 DEF OpenPaths, Sound, ControlOK
<1>5. ASSUME NEW p \in Procs, WritePaths(p)
      PROVE  FilesOK'
  <2>1. table[p].store \in Stores /\ pathFile = Emptied
    BY <1>5 DEF WritePaths, Sound, TablesOK, PathTables
  <2>2. pathFile' \notin Unreadable
    BY <1>5, <2>1, ChangerAssumption DEF WritePaths, Written
  <2>. QED
    BY <1>5, <2>2 DEF WritePaths, Sound, ControlOK
<1>6. ASSUME NEW p \in Procs, OpenLibrary(p)
      PROVE  FilesOK'
  BY <1>6 DEF OpenLibrary, Sound, ControlOK
<1>7. ASSUME NEW p \in Procs, WriteLibrary(p)
      PROVE  FilesOK'
  BY <1>7 DEF WriteLibrary, Gone, Sound, ControlOK
<1>8. ASSUME NEW p \in Procs, Ends(p)
      PROVE  FilesOK'
  <2>1. \A q \in Procs : q = p /\ pc'[q] = "off"
    BY <1>8, EndsIs DEF Gone, Sound, ControlOK
  <2>2. libFile' \notin Unreadable \/ pathFile' \notin Unreadable
    BY <1>8, EndsIs
  <2>. QED
    BY <2>1, <2>2
<1>. QED
  BY <1>1, <1>2, <1>3, <1>4, <1>5, <1>6, <1>7, <1>8, CommandKeepsFiles, GoesOnWithout, NextIs
     DEF Steps

LEMMA FilesInvInductive ==
    Alone /\ Sound /\ FilesInv /\ [Next]_vars => FilesInv'
BY FilesOKKept, FailedGrows DEF FilesInv

\* When processes never overlap, a crash at any point leaves at least one of
\* the two files whole or missing, whatever the processes before it did, as long
\* as every path table could be written.
THEOREM OneFileAlwaysSurvives == Alone => (Spec => []OneFileSurvives)
<1>. SUFFICES ASSUME Alone PROVE Spec => []OneFileSurvives
  OBVIOUS
<1>1. Init => FilesInv
  BY ChangerAssumption DEF Init, FilesInv, FilesOK, HasLibrary, HasPaths, Unreadable
<1>2. Sound /\ FilesInv /\ [Next]_vars => FilesInv'
  BY FilesInvInductive
<1>3. FilesInv => OneFileSurvives
  BY DEF FilesInv, FilesOK, OneFileSurvives
<1>. QED
  BY <1>1, <1>2, <1>3, AlwaysSound, PTL DEF Spec

-----------------------------------------------------------------------------
\* What stays true once every process is gone and a file is unreadable.
Stuck ==
    /\ NoneRuns
    /\ \/ libFile \in Unreadable /\ \A p \in Procs : pc[p] = "off"
       \/ pathFile \in Unreadable

LEMMA StuckStays == Sound /\ Stuck /\ [Next]_vars => Stuck'
<1>. SUFFICES ASSUME Sound, Stuck, [Next]_vars PROVE Stuck'
  OBVIOUS
<1>. USE DEF Stuck, NoneRuns, Goto, files
<1>1. CASE UNCHANGED vars
  BY <1>1 DEF vars
<1>2. ASSUME NEW p \in Procs, LoadLibrary(p) PROVE Stuck'
  BY <1>2 DEF LoadLibrary, Sound, ControlOK
<1>3. ASSUME NEW p \in Procs, Ends(p) PROVE Stuck'
  <2>1. pc' = [pc EXCEPT ![p] = "off"] /\ libFile' = libFile /\ pathFile' = pathFile
    BY <1>3, EndsIs DEF Gone
  <2>2. pc \in [Procs -> Places]
    BY DEF Sound, ControlOK
  <2>. QED
    BY <2>1, <2>2
<1>4. ASSUME NEW p \in Procs, Command(p) PROVE pc[p] = "running"
  BY <1>4 DEF Command, Create, Activate, Add, RemoveCollection, RemoveWallpaper, Rename,
              Merge, Move, Validate, ValidateTerminates, Run
<1>5. ASSUME NEW p \in Procs PROVE ~ LoadPaths(p)
  BY DEF LoadPaths
<1>6. ASSUME NEW p \in Procs
      PROVE  ~ \/ Command(p) \/ OpenPaths(p) \/ WritePaths(p) \/ OpenLibrary(p)
               \/ WriteLibrary(p) \/ OpenPathsFails(p) \/ WritePathsFails(p)
  BY <1>4 DEF OpenPaths, WritePaths, OpenLibrary, WriteLibrary, OpenPathsFails, WritePathsFails
<1>. QED
  BY <1>1, <1>2, <1>3, <1>5, <1>6, NextIs DEF Steps

\* However many processes run and die: once none is left and a file is unreadable,
\* no process ever runs a command again, so none ever repairs the file.
THEOREM LostStaysLost == Spec => LostForever
<1>1. Abandoned => Stuck
  BY DEF Abandoned, Stuck, NoneRuns
<1>2. Stuck => NoneRuns
  BY DEF Stuck
<1>. QED
  BY <1>1, <1>2, StuckStays, AlwaysSound, PTL DEF Spec, LostForever
-----------------------------------------------------------------------------
(***************************************************************************)
(* Locations.  No operation brings a location into a library but the one   *)
(* of the wallpaper that it inserts.                                       *)
(***************************************************************************)
CacheWithin(c, T) == \A j \in DOMAIN c.items : c.items[j].loc \in T

Within(l, T) == \A i \in DOMAIN l.vec : CacheWithin(l.vec[i].cache, T)

LEMMA WithinIs ==
    ASSUME NEW l, NEW T
    PROVE  Within(l, T) <=> ItemLocs(l) \subseteq T
<1>1. ASSUME Within(l, T), NEW loc \in ItemLocs(l) PROVE loc \in T
  <2>1. PICK i \in DOMAIN l.vec : loc \in {it.loc : it \in ToSet(l.vec[i].cache.items)}
    BY <1>1 DEF ItemLocs
  <2>. QED
    BY <1>1, <2>1 DEF Within, CacheWithin, ToSet
<1>2. ASSUME ItemLocs(l) \subseteq T, NEW i \in DOMAIN l.vec,
             NEW j \in DOMAIN l.vec[i].cache.items
      PROVE  l.vec[i].cache.items[j].loc \in T
  <2>1. l.vec[i].cache.items[j] \in ToSet(l.vec[i].cache.items)
    BY DEF ToSet
  <2>2. l.vec[i].cache.items[j].loc \in {it.loc : it \in ToSet(l.vec[i].cache.items)}
    BY <2>1
  <2>. QED
    BY <1>2, <2>2 DEF ItemLocs
<1>. QED
  BY <1>1, <1>2 DEF Within, CacheWithin

LEMMA WithinMore ==
    ASSUME NEW l, NEW T, NEW U, T \subseteq U, Within(l, T)
    PROVE  Within(l, U)
BY DEF Within, CacheWithin

LEMMA EmptyWithin == ASSUME NEW T PROVE Within(EmptyLibrary, T)
<1>1. DOMAIN EmptyLibrary.vec = {}
  BY DEF EmptyLibrary
<1>. QED
  BY <1>1 DEF Within

LEMMA AppendedWithin ==
    ASSUME NEW items \in Seq(Item), NEW item \in Item, NEW T, item.loc \in T,
           \A j \in DOMAIN items : items[j].loc \in T
    PROVE  \A j \in DOMAIN Append(items, item) : Append(items, item)[j].loc \in T
<1>. DEFINE r == Append(items, item)
<1>1. /\ r \in Seq(Item) /\ Len(r) = Len(items) + 1 /\ r[Len(items) + 1] = item
      /\ \A j \in 1..Len(items) : r[j] = items[j]
  BY AppendProperties
<1>2. /\ Len(items) \in Nat /\ DOMAIN items = 1..Len(items)
      /\ DOMAIN r = 1..(Len(items) + 1)
  BY <1>1, LenProperties
<1>. HIDE DEF r
<1>3. \A j \in DOMAIN r : j \in DOMAIN items \/ j = Len(items) + 1
  BY <1>2
<1>4. \A j \in DOMAIN r : r[j].loc \in T
  BY <1>1, <1>2, <1>3
<1>. QED
  BY <1>4 DEF r

LEMMA InsertedWithin ==
    ASSUME NEW c \in MarkedCache, NEW w \in Walls, NEW loc \in Locs, NEW T, loc \in T,
           CacheWithin(c, T)
    PROVE  CacheWithin(CacheInsert(c, w, loc), T)
<1>. DEFINE item == [value |-> w, state |-> "unused", loc |-> loc]
<1>1. item \in Item /\ item.loc \in T /\ c.items \in Seq(Item)
  BY DEF Item, States, MarkedCache, Cache
<1>2. CacheContains(c, w) \/ CacheInsert(c, w, loc).items = Append(c.items, item)
  BY DEF CacheInsert
<1>. HIDE DEF item
<1>. QED
  BY <1>1, <1>2, AppendedWithin DEF CacheWithin, CacheInsert

LEMMA InsertedElemWithin ==
    ASSUME NEW c \in MarkedCache, NEW item \in Item, NEW T, item.loc \in T, CacheWithin(c, T)
    PROVE  CacheWithin(CacheInsertElem(c, item), T)
<1>1. c.items \in Seq(Item)
  BY DEF MarkedCache, Cache
<1>2. CacheInsertElem(c, item) = c \/ CacheInsertElem(c, item).items = Append(c.items, item)
  BY DEF CacheInsertElem
<1>. QED
  BY <1>1, <1>2, AppendedWithin DEF CacheWithin

LEMMA ErasedWithin ==
    ASSUME NEW c \in MarkedCache, NEW i \in DOMAIN c.items, NEW T, CacheWithin(c, T)
    PROVE  CacheWithin(CacheErase(c, i), T)
<1>. DEFINE r == RemoveAt(c.items, i)
<1>1. c.items \in Seq(Item)
  BY DEF MarkedCache, Cache
<1>2. /\ r \in Seq(Item) /\ Len(r) = Len(c.items) - 1
      /\ \A k \in 1..(Len(c.items) - 1) : r[k] = IF k < i THEN c.items[k] ELSE c.items[k + 1]
  BY <1>1, RemoveAtProperties
<1>3. /\ Len(c.items) \in Nat /\ DOMAIN c.items = 1..Len(c.items)
      /\ DOMAIN r = 1..(Len(c.items) - 1)
  BY <1>1, <1>2, LenProperties
<1>4. CacheErase(c, i).items = r
  BY DEF CacheErase
<1>. HIDE DEF r
<1>5. ASSUME NEW k \in DOMAIN r PROVE r[k].loc \in T
  <2>1. k \in DOMAIN c.items /\ k + 1 \in DOMAIN c.items
    BY <1>3
  <2>2. r[k] = c.items[k] \/ r[k] = c.items[k + 1]
    BY <1>2, <1>3
  <2>. QED
    BY <2>1, <2>2 DEF CacheWithin
<1>. QED
  BY <1>4, <1>5 DEF CacheWithin

LEMMA TouchedWithin ==
    ASSUME NEW c \in MarkedCache, NEW T, CacheWithin(c, T)
    PROVE  CacheWithin(CacheTouch(c), T)
BY DEF CacheTouch, CacheWithin, MarkedCache, Cache

LEMMA CacheOfWithin ==
    ASSUME NEW listing, NEW loc, NEW T, loc \in T
    PROVE  CacheWithin(CacheOf(listing, loc), T)
BY DEF CacheOf, CacheWithin

LEMMA MergedWithin ==
    ASSUME NEW c1 \in MarkedCache, NEW c2 \in MarkedCache, NEW T,
           CacheWithin(c1, T), CacheWithin(c2, T)
    PROVE  CacheWithin(CacheMerge(c1, c2), T)
<1>. DEFINE c == Merged(c1.items, c2.items)
<1>1. \A k \in DOMAIN c : \/ \E i \in DOMAIN c1.items : c[k] = c1.items[i]
                          \/ \E j \in DOMAIN c2.items : c[k] = c2.items[j]
  BY MergedItems DEF MarkedCache, Cache
<1>2. CacheMerge(c1, c2).items = c
  BY DEF CacheMerge
<1>. HIDE DEF c
<1>. QED
  BY <1>1, <1>2 DEF CacheWithin

LEMMA FromJsonWithin ==
    ASSUME NEW items \in Seq(Item), NEW T, \A j \in DOMAIN items : items[j].loc \in T
    PROVE  CacheWithin(CacheFromJson(items), T)
<1>. DEFINE F == Firsts(items)
            at(k) == CHOOSE i \in F : RankIn(F, i) = k
<1>1. IsFiniteSet(F) /\ F \in SUBSET Nat /\ F \subseteq DOMAIN items
  BY SearchFinds DEF Firsts
<1>2. /\ DOMAIN Distinct(items) = 1..Cardinality(F)
      /\ \A k \in 1..Cardinality(F) : Distinct(items)[k] = items[at(k)]
  BY DEF Distinct
<1>. HIDE DEF F
<1>3. \A k \in 1..Cardinality(F) : at(k) \in DOMAIN items
  <2>. SUFFICES ASSUME NEW k \in 1..Cardinality(F) PROVE at(k) \in DOMAIN items
    OBVIOUS
  <2>1. \E i \in F : RankIn(F, i) = k
    BY <1>1, RankOnto
  <2>. QED
    BY <1>1, <2>1
<1>. HIDE DEF at
<1>4. CASE items = <<>>
  <2>1. CacheFromJson(items).items = <<>> /\ DOMAIN <<>> = {}
    BY <1>4 DEF CacheFromJson, NewCache
  <2>. QED
    BY <2>1 DEF CacheWithin
<1>5. CASE items # <<>>
  <2>1. CacheFromJson(items).items = Distinct(items)
    BY <1>5 DEF CacheFromJson
  <2>. QED
    BY <1>2, <1>3, <2>1 DEF CacheWithin
<1>. QED
  BY <1>4, <1>5

-----------------------------------------------------------------------------
\* The three ways in which the operations change the vector.
LEMMA UpdateWithin ==
    ASSUME NEW l \in SoundLibrary, NEW p \in DOMAIN l.vec, NEW c, NEW T,
           Within(l, T), CacheWithin(c, T)
    PROVE  Within([l EXCEPT !.vec[p].cache = c], T)
<1>. DEFINE r == [l EXCEPT !.vec[p].cache = c]
<1>1. DOMAIN r.vec = DOMAIN l.vec
  BY SoundEntries DEF SoundLibrary
<1>2. \A i \in DOMAIN l.vec : r.vec[i].cache = IF i = p THEN c ELSE l.vec[i].cache
  BY SoundEntries DEF SoundLibrary, MarkedEntry
<1>. HIDE DEF r
<1>3. Within(r, T)
  BY <1>1, <1>2 DEF Within
<1>. QED
  BY <1>3 DEF r

LEMMA AppendWithin ==
    ASSUME NEW l \in SoundLibrary, NEW n \in Names, NEW c \in MarkedCache, NEW T,
           Within(l, T), CacheWithin(c, T)
    PROVE  Within([l EXCEPT !.vec = Append(@, [name |-> n, cache |-> c])], T)
<1>. DEFINE e   == [name |-> n, cache |-> c]
            vec == Append(l.vec, e)
<1>1. e \in MarkedEntry /\ e.cache = c
  BY DEF MarkedEntry
<1>. HIDE DEF e
<1>2. /\ vec \in Seq(MarkedEntry) /\ Len(vec) = Len(l.vec) + 1
      /\ \A i \in 1..Len(l.vec) : vec[i] = l.vec[i]
      /\ vec[Len(l.vec) + 1] = e
  BY <1>1, SoundEntries, AppendProperties
<1>. HIDE DEF vec
<1>3. \A i \in DOMAIN vec : i \in DOMAIN l.vec \/ i = Len(l.vec) + 1
  BY <1>2, LenProperties, SoundEntries
<1>4. \A i \in DOMAIN vec : CacheWithin(vec[i].cache, T)
  BY <1>1, <1>2, <1>3, SoundEntries DEF Within
<1>5. [l EXCEPT !.vec = vec].vec = vec
  BY DEF SoundLibrary
<1>6. Within([l EXCEPT !.vec = vec], T)
  BY <1>4, <1>5 DEF Within
<1>. QED
  BY <1>6 DEF vec, e

LEMMA RemoveWithin ==
    ASSUME NEW l \in SoundLibrary, NEW n, NEW T, Within(l, T)
    PROVE  Within(LibRemove(l, n).lib, T)
<1>. DEFINE p   == LibFind(l, n)
            vec == RemoveAt(l.vec, p)
<1>1. CASE LibExists(l, n)
  <2>1. p \in DOMAIN l.vec /\ Len(l.vec) \in Nat /\ DOMAIN l.vec = 1..Len(l.vec)
    BY <1>1, LibFindFinds, SoundEntries
  <2>2. LibRemove(l, n).lib = [l EXCEPT !.vec = vec]
    BY <1>1 DEF LibRemove, Ok, Result
  <2>. HIDE DEF p
  <2>3. /\ vec \in Seq(MarkedEntry) /\ Len(vec) = Len(l.vec) - 1
        /\ \A k \in 1..(Len(l.vec) - 1) : vec[k] = IF k < p THEN l.vec[k] ELSE l.vec[k + 1]
    BY <2>1, SoundEntries, RemoveAtProperties
  <2>4. DOMAIN vec = 1..(Len(l.vec) - 1)
    BY <2>3, LenProperties
  <2>. HIDE DEF vec
  <2>5. ASSUME NEW k \in DOMAIN vec PROVE CacheWithin(vec[k].cache, T)
    <3>1. k \in DOMAIN l.vec /\ k + 1 \in DOMAIN l.vec
      BY <2>1, <2>4
    <3>2. vec[k] = l.vec[k] \/ vec[k] = l.vec[k + 1]
      BY <2>3, <2>4
    <3>. QED
      BY <3>1, <3>2 DEF Within
  <2>6. [l EXCEPT !.vec = vec].vec = vec
    BY DEF SoundLibrary
  <2>. QED
    BY <2>2, <2>5, <2>6 DEF Within
<1>2. CASE ~ LibExists(l, n)
  BY <1>2 DEF LibRemove, Result
<1>. QED
  BY <1>1, <1>2

LEMMA FoundWithin ==
    ASSUME NEW l \in SoundLibrary, NEW n, LibExists(l, n), NEW T, Within(l, T)
    PROVE  /\ LibFind(l, n) \in DOMAIN l.vec
           /\ l.vec[LibFind(l, n)].cache \in MarkedCache
           /\ CacheWithin(l.vec[LibFind(l, n)].cache, T)
<1>1. LibFind(l, n) \in DOMAIN l.vec
  BY LibFindFinds
<1>. QED
  BY <1>1, SoundEntries DEF Within, MarkedEntry

-----------------------------------------------------------------------------
\* The operations.
LEMMA InsertWithin ==
    ASSUME NEW l \in SoundLibrary, NEW n \in Names, NEW c \in MarkedCache, NEW T,
           Within(l, T), CacheWithin(c, T)
    PROVE  Within(LibInsert(l, n, c).lib, T)
BY AppendWithin DEF LibInsert, Ok, Result

LEMMA GetCacheWithin ==
    ASSUME NEW l \in SoundLibrary, NEW n \in Names, NEW T, Within(l, T)
    PROVE  Within(LibGetCache(l, n).lib, T)
<1>. DEFINE p == LibFind(l, n)
<1>1. CASE LibExists(l, n)
  <2>1. p \in DOMAIN l.vec /\ CacheWithin(CacheTouch(l.vec[p].cache), T)
    BY <1>1, FoundWithin, TouchedWithin
  <2>. HIDE DEF p
  <2>2. Within([l EXCEPT !.vec[p].cache = CacheTouch(@)], T)
    BY <2>1, UpdateWithin
  <2>. QED
    BY <1>1, <2>2 DEF LibGetCache, Ok, Result, p
<1>2. CASE ~ LibExists(l, n)
  BY <1>2 DEF LibGetCache, Result
<1>. QED
  BY <1>1, <1>2

LEMMA ChangeActiveWithin ==
    ASSUME NEW l \in SoundLibrary, NEW n \in Names, NEW T, Within(l, T)
    PROVE  Within(LibChangeActive(l, n).lib, T)
<1>1. [l EXCEPT !.active = n, !.current = LibFind(l, n) - 1].vec = l.vec
  BY DEF SoundLibrary
<1>. QED
  BY <1>1 DEF LibChangeActive, Ok, Result, Within

LEMMA RenameWithin ==
    ASSUME NEW l \in SoundLibrary, NEW from \in Names, NEW to \in Names, NEW T, Within(l, T)
    PROVE  Within(LibRename(l, from, to).lib, T)
<1>. DEFINE p   == LibFind(l, from)
            act == IF l.active = from THEN to ELSE l.active
            r   == [l EXCEPT !.vec[p].name = to, !.active = act]
<1>1. CASE from # to /\ LibExists(l, from) /\ ~ LibExists(l, to)
  <2>1. p \in DOMAIN l.vec
    BY <1>1, LibFindFinds
  <2>2. LibRename(l, from, to).lib = r
    BY <1>1 DEF LibRename, Ok, Result
  <2>. HIDE DEF p, act
  <2>3. DOMAIN r.vec = DOMAIN l.vec
    BY SoundEntries DEF SoundLibrary
  <2>4. \A i \in DOMAIN l.vec : r.vec[i].cache = l.vec[i].cache
    BY SoundEntries DEF SoundLibrary, MarkedEntry
  <2>. HIDE DEF r
  <2>. QED
    BY <2>2, <2>3, <2>4 DEF Within
<1>2. CASE ~ (from # to /\ LibExists(l, from) /\ ~ LibExists(l, to))
  BY <1>2 DEF LibRename, Result
<1>. QED
  BY <1>1, <1>2

LEMMA RemoveItemWithin ==
    ASSUME NEW l \in SoundLibrary, NEW n \in Names, NEW w \in Walls, NEW T, Within(l, T)
    PROVE  Within(LibRemoveItem(l, n, w).lib, T)
<1>. DEFINE p == LibFind(l, n)
            c == l.vec[p].cache
<1>1. CASE n # w /\ LibExists(l, n)
  <2>1. p \in DOMAIN l.vec /\ c \in MarkedCache /\ CacheWithin(c, T)
    BY <1>1, FoundWithin
  <2>. HIDE DEF p
  <2>2. Within([l EXCEPT !.vec[p].cache = CacheTouch(@)], T)
    BY <2>1, TouchedWithin, UpdateWithin
  <2>3. ASSUME CacheContains(c, w)
        PROVE  Within([l EXCEPT !.vec[p].cache = CacheErase(@, CacheFind(@, w))], T)
    <3>1. CacheFind(c, w) \in DOMAIN c.items
      BY <2>1, <2>3, CacheFindFinds DEF MarkedCache
    <3>2. CacheWithin(CacheErase(c, CacheFind(c, w)), T)
      BY <2>1, <3>1, ErasedWithin
    <3>. QED
      BY <2>1, <3>2, UpdateWithin
  <2>. QED
    BY <1>1, <2>2, <2>3 DEF LibRemoveItem, Ok, Result, p
<1>2. CASE ~ (n # w /\ LibExists(l, n))
  BY <1>2 DEF LibRemoveItem, Result
<1>. QED
  BY <1>1, <1>2

LEMMA MergeWithin ==
    ASSUME NEW l \in SoundLibrary, NEW n \in Names, NEW m \in Names, NEW T, Within(l, T)
    PROVE  Within(LibMerge(l, n, m).lib, T)
<1>1. CASE n # m /\ LibExists(l, n) /\ LibExists(l, m)
  <2>. DEFINE c1     == l.vec[LibFind(l, n)].cache
              c2     == l.vec[LibFind(l, m)].cache
              merged == CacheMerge(c1, c2)
              one    == LibRemove(l, n).lib
              rest   == LibRemove(one, m).lib
  <2>1. /\ c1 \in MarkedCache /\ CacheWithin(c1, T)
        /\ c2 \in MarkedCache /\ CacheWithin(c2, T)
    BY <1>1, FoundWithin
  <2>. HIDE DEF c1, c2
  <2>2. merged \in MarkedCache /\ CacheWithin(merged, T)
    BY <2>1, CacheMergeMarked, MergedWithin
  <2>3. one \in SoundLibrary /\ Within(one, T)
    BY RemoveSound, RemoveWithin
  <2>. HIDE DEF merged, one
  <2>4. rest \in SoundLibrary /\ Within(rest, T)
    BY <2>3, RemoveSound, RemoveWithin
  <2>. HIDE DEF rest
  <2>5. Within([rest EXCEPT !.vec = Append(@, [name |-> n, cache |-> merged])], T)
    BY <2>2, <2>4, AppendWithin
  <2>. QED
    BY <1>1, <2>5 DEF LibMerge, Ok, Result, c1, c2, merged, rest, one
<1>2. CASE ~ (n # m /\ LibExists(l, n) /\ LibExists(l, m))
  BY <1>2 DEF LibMerge, Result
<1>. QED
  BY <1>1, <1>2

LEMMA MoveWithin ==
    ASSUME NEW l \in SoundLibrary, NEW src \in Names, NEW dst \in Names, NEW w \in Walls,
           NEW T, Within(l, T)
    PROVE  Within(LibMove(l, src, dst, w).lib, T)
<1>. DEFINE s    == LibFind(l, src)
            d    == LibFind(l, dst)
            from == l.vec[s].cache
            k    == CacheFind(from, w)
            to   == CacheInsertElem(l.vec[d].cache, from.items[k])
            rest == CacheErase(from, k)
            moved == LibMove(l, src, dst, w).lib
<1>1. CASE /\ src # dst /\ dst # w /\ LibExists(l, src) /\ LibExists(l, dst)
           /\ CacheContains(from, w)
  <2>1. /\ s \in DOMAIN l.vec /\ from \in MarkedCache /\ CacheWithin(from, T)
        /\ d \in DOMAIN l.vec /\ l.vec[d].cache \in MarkedCache
        /\ CacheWithin(l.vec[d].cache, T)
    BY <1>1, FoundWithin
  <2>2. s # d
    BY <1>1, LibFindFinds
  <2>3. moved = UpdateTwice(l, d, to, s, rest)
    <3>. HIDE DEF s, d
    <3>. QED
      BY <1>1, <2>1, <2>2 DEF LibMove, Ok, Result, UpdateTwice, s, d
  <2>. HIDE DEF s, d
  <2>4. k \in DOMAIN from.items
    BY <1>1, <2>1, CacheFindFinds DEF MarkedCache
  <2>5. from.items[k] \in Item /\ from.items[k].loc \in T
    BY <2>1, <2>4, LenProperties, ElementOfSeq DEF MarkedCache, Cache, CacheWithin
  <2>6. to \in MarkedCache /\ CacheWithin(to, T) /\ CacheWithin(rest, T)
    BY <2>1, <2>4, <2>5, CacheInsertElemMarked, InsertedElemWithin, ErasedWithin
  <2>. HIDE DEF to, rest, moved
  <2>. DEFINE mid == [l EXCEPT !.vec[d].cache = to]
  <2>7. mid \in SoundLibrary /\ Within(mid, T) /\ DOMAIN mid.vec = DOMAIN l.vec
    BY <2>1, <2>6, UpdateIsSound, UpdateWithin, SoundEntries DEF SoundLibrary
  <2>8. moved = [mid EXCEPT !.vec[s].cache = rest]
    BY <2>3 DEF UpdateTwice
  <2>. HIDE DEF mid
  <2>9. Within(moved, T)
    BY <2>1, <2>6, <2>7, <2>8, UpdateWithin
  <2>. QED
    BY <2>9 DEF moved
<1>2. CASE ~ (/\ src # dst /\ dst # w /\ LibExists(l, src) /\ LibExists(l, dst)
              /\ CacheContains(from, w))
  BY <1>2 DEF LibMove, Result
<1>. QED
  BY <1>1, <1>2

LEMMA AddWithin ==
    ASSUME NEW l \in SoundLibrary, NEW n \in Names, LibExists(l, n), NEW w \in Walls,
           NEW loc \in Locs, NEW T, loc \in T, Within(l, T)
    PROVE  Within([l EXCEPT !.vec[LibFind(l, n)].cache = CacheInsert(@, w, loc)], T)
<1>. DEFINE p == LibFind(l, n)
            c == CacheInsert(l.vec[p].cache, w, loc)
<1>1. p \in DOMAIN l.vec /\ CacheWithin(c, T)
  BY FoundWithin, InsertedWithin
<1>. HIDE DEF p, c
<1>2. Within([l EXCEPT !.vec[p].cache = c], T)
  BY <1>1, UpdateWithin
<1>. QED
  BY <1>2 DEF p, c

\* Saving and loading.
DocumentWithin(doc, T) ==
    \A i \in DOMAIN doc.libraries : \A j \in DOMAIN doc.libraries[i].items :
        doc.libraries[i].items[j].loc \in T

LEMMA DocumentWithinIs ==
    ASSUME NEW doc, NEW T
    PROVE  DocumentWithin(doc, T) <=> DocumentLocs(doc) \subseteq T
<1>1. ASSUME DocumentWithin(doc, T), NEW loc \in DocumentLocs(doc) PROVE loc \in T
  <2>1. PICK i \in DOMAIN doc.libraries : loc \in {it.loc : it \in ToSet(doc.libraries[i].items)}
    BY <1>1 DEF DocumentLocs
  <2>. QED
    BY <1>1, <2>1 DEF DocumentWithin, ToSet
<1>2. ASSUME DocumentLocs(doc) \subseteq T, NEW i \in DOMAIN doc.libraries,
             NEW j \in DOMAIN doc.libraries[i].items
      PROVE  doc.libraries[i].items[j].loc \in T
  <2>1. doc.libraries[i].items[j] \in ToSet(doc.libraries[i].items)
    BY DEF ToSet
  <2>2. doc.libraries[i].items[j].loc \in {it.loc : it \in ToSet(doc.libraries[i].items)}
    BY <2>1
  <2>. QED
    BY <1>2, <2>2 DEF DocumentLocs
<1>. QED
  BY <1>1, <1>2 DEF DocumentWithin

LEMMA LoadWithin ==
    ASSUME NEW doc \in SoundDocuments, NEW T, DocumentWithin(doc, T)
    PROVE  Within(LibLoad(doc), T)
<1>1. /\ DOMAIN LibLoad(doc).vec = DOMAIN doc.libraries
      /\ \A i \in DOMAIN doc.libraries :
            LibLoad(doc).vec[i].cache = CacheFromJson(doc.libraries[i].items)
  BY DEF LibLoad
<1>2. \A i \in DOMAIN doc.libraries : doc.libraries[i].items \in Seq(Item)
  <2>1. doc.libraries \in Seq([name : Names, items : Seq(Item)])
    BY DEF SoundDocuments, Documents
  <2>2. \A i \in DOMAIN doc.libraries : doc.libraries[i] \in [name : Names, items : Seq(Item)]
    BY <2>1, LenProperties, ElementOfSeq
  <2>. QED
    BY <2>2
<1>3. \A i \in DOMAIN doc.libraries : CacheWithin(CacheFromJson(doc.libraries[i].items), T)
  BY <1>2, FromJsonWithin DEF DocumentWithin
<1>. QED
  BY <1>1, <1>3 DEF Within

LEMMA SavedWithin ==
    ASSUME NEW l, NEW a, NEW T, Within(l, T)
    PROVE  DocumentWithin(LibDocument(l, a), T)
BY DEF LibDocument, DocumentWithin, Within, CacheWithin
-----------------------------------------------------------------------------
(***************************************************************************)
(* A process alone on the machine and its directories: those of the        *)
(* library it works on are in the path table it works on, the table only   *)
(* grows, and it is on disk before the library is.                         *)
(***************************************************************************)
Known(p) == DOMAIN table[p].store

LibraryReadable == libFile \notin Unreadable \cup {NoFile}

Working == {"running", "writingPaths", "pathsStored", "writingLibrary"}

LocsOK ==
    /\ LibraryReadable /\ pathFile \notin Unreadable => DocumentWithin(libFile, StoredIds)
    /\ \A p \in Procs :
          /\ pc[p] = "loading" /\ pathFile \notin Unreadable => Within(lib[p], StoredIds)
          /\ pc[p] \in Working => Within(lib[p], Known(p))
          /\ pc[p] \in {"running", "writingPaths"} /\ LibraryReadable
                => DocumentWithin(libFile, Known(p))
          /\ pc[p] = "running" /\ ~ table[p].modified => Known(p) \subseteq StoredIds
          /\ pc[p] \in {"pathsStored", "writingLibrary"} => Known(p) \subseteq StoredIds

\* As long as every path table has been written.
LocsInv == "paths" \notin failed => LocsOK

LEMMA DocumentWithinMore ==
    ASSUME NEW doc, NEW T, NEW U, T \subseteq U, DocumentWithin(doc, T)
    PROVE  DocumentWithin(doc, U)
BY DEF DocumentWithin

LEMMA TableInsertGrows ==
    ASSUME NEW t \in PathTables, NEW d \in Dirs
    PROVE  LET u == TableInsert(t, d)
           IN  /\ DOMAIN t.store \subseteq DOMAIN u.store
               /\ Crc[d] \in DOMAIN u.store
               /\ ~ u.modified => u = t
BY DEF TableInsert, TableExists

\* A command whose library keeps to the directories of its table, which has grown
\* or is the same.
LEMMA RunKeepsLocs ==
    ASSUME Alone, Sound, LocsOK,
           NEW p \in Procs, NEW k, NEW r, NEW t, Run(p, k, r, t),
           Within(r.lib, DOMAIN t.store),
           Known(p) \subseteq DOMAIN t.store,
           ~ t.modified => t = table[p]
    PROVE  LocsOK'
<1>1. /\ pc[p] = "running" /\ UNCHANGED <<libFile, pathFile, pc>>
      /\ lib' = [lib EXCEPT ![p] = r.lib] /\ table' = [table EXCEPT ![p] = t]
  BY DEF Run, files
<1>2. lib'[p] = r.lib /\ table'[p] = t
  BY <1>1 DEF Sound, LibrariesOK, TablesOK
<1>3. /\ LibraryReadable' = LibraryReadable /\ StoredIds' = StoredIds
      /\ Known(p)' = DOMAIN t.store
  BY <1>1, <1>2 DEF LibraryReadable, StoredIds, Known
<1>4. LibraryReadable => DocumentWithin(libFile, DOMAIN t.store)
  BY <1>1, DocumentWithinMore DEF LocsOK
<1>5. ~ t.modified => DOMAIN t.store \subseteq StoredIds
  BY <1>1 DEF LocsOK, Known
<1>6. LibraryReadable /\ pathFile \notin Unreadable => DocumentWithin(libFile, StoredIds)
  BY DEF LocsOK
<1>7. \A q \in Procs : q = p
  BY DEF Alone
<1>. QED
  BY <1>1, <1>2, <1>3, <1>4, <1>5, <1>6, <1>7 DEF LocsOK

LEMMA GoneKeepsLocs ==
    ASSUME Alone, Sound, NEW p \in Procs, Gone(p),
           LibraryReadable' /\ pathFile' \notin Unreadable => DocumentWithin(libFile', StoredIds')
    PROVE  LocsOK'
<1>1. \A q \in Procs : pc'[q] = "off"
  BY DEF Alone, Gone, Sound, ControlOK
<1>. QED
  BY <1>1 DEF LocsOK, Working

LEMMA CommandKeepsLocs ==
    ASSUME Alone, Sound, LocsOK, NEW p \in Procs, Command(p)
    PROVE  LocsOK'
<1>. DEFINE l == lib[p]
            K == Known(p)
<1>1. l \in SoundLibrary /\ table[p] \in PathTables
  BY DEF Sound, LibrariesOK, TablesOK
<1>2. pc[p] = "running" => Within(l, K)
  BY DEF LocsOK, Working
<1>3. ASSUME NEW k, NEW r, Run(p, k, r, table[p]), pc[p] = "running" => Within(r.lib, K)
      PROVE  LocsOK'
  <2>1. Within(r.lib, DOMAIN table[p].store)
    BY <1>3 DEF Run, Known
  <2>. QED
    BY <1>3, <2>1, RunKeepsLocs DEF Known
<1>4. ASSUME NEW n \in Names, NEW d \in Dirs \cup {NoDir}, NEW listing \in Listings(MaxListing),
             Create(p, n, d, listing)
      PROVE  LocsOK'
  <2>. DEFINE c == IF d = NoDir THEN NewCache ELSE CacheOf(listing, Crc[d])
              t == IF d = NoDir THEN table[p] ELSE TableInsert(table[p], d)
  <2>1. d # NoDir => d \in Dirs /\ Crc[d] \in Locs
    BY ChangerAssumption DEF Ids
  <2>2. c \in MarkedCache
    BY <2>1, ChangerAssumption, NewCacheMarked, CacheOfMarked
  <2>3. K \subseteq DOMAIN t.store /\ (~ t.modified => t = table[p])
        /\ (d # NoDir => Crc[d] \in DOMAIN t.store)
    BY <1>1, <2>1, TableInsertGrows DEF Known
  <2>4. CacheWithin(c, DOMAIN t.store)
    <3>1. CASE d = NoDir
      <4>1. c.items = <<>> /\ DOMAIN <<>> = {}
        BY <3>1 DEF NewCache
      <4>. QED
        BY <4>1 DEF CacheWithin
    <3>2. CASE d # NoDir
      BY <2>3, <3>2, CacheOfWithin
    <3>. QED
      BY <3>1, <3>2
  <2>5. Run(p, CreateCmd, LibInsert(l, n, c), t)
    BY <1>4 DEF Create
  <2>6. Within(l, DOMAIN t.store)
    BY <1>2, <2>3, <2>5, WithinMore DEF Run
  <2>. HIDE DEF c, t, l
  <2>7. Within(LibInsert(l, n, c).lib, DOMAIN t.store)
    BY <1>1, <2>2, <2>4, <2>6, InsertWithin
  <2>. QED
    BY <2>3, <2>5, <2>7, RunKeepsLocs
<1>5. ASSUME NEW n \in Names, NEW w \in Walls, NEW d \in Dirs, Add(p, n, w, d)
      PROVE  LocsOK'
  <2>1. CASE LibExists(l, n)
    <3>. DEFINE t == TableInsert(table[p], d)
                r == [l EXCEPT !.vec[LibFind(l, n)].cache = CacheInsert(@, w, Crc[d])]
    <3>1. Run(p, AddCmd, Ok(r), t)
      BY <1>5, <2>1 DEF Add
    <3>2. Crc[d] \in Locs
      BY ChangerAssumption DEF Ids
    <3>3. K \subseteq DOMAIN t.store /\ (~ t.modified => t = table[p])
          /\ Crc[d] \in DOMAIN t.store
      BY <1>1, TableInsertGrows DEF Known
    <3>4. Within(l, DOMAIN t.store)
      BY <1>2, <3>1, <3>3, WithinMore DEF Run
    <3>. HIDE DEF t, l
    <3>5. Within(r, DOMAIN t.store)
      BY <1>1, <2>1, <3>2, <3>3, <3>4, AddWithin
    <3>. HIDE DEF r
    <3>6. Within(Ok(r).lib, DOMAIN t.store)
      BY <3>5 DEF Ok, Result
    <3>. QED
      BY <3>1, <3>3, <3>6, RunKeepsLocs
  <2>2. CASE ~ LibExists(l, n)
    <3>1. Run(p, AddCmd, Result("cache_does_not_exists", l), table[p])
      BY <1>5, <2>2 DEF Add
    <3>2. Result("cache_does_not_exists", l).lib = l
      BY DEF Result
    <3>. QED
      BY <1>2, <1>3, <3>1, <3>2
  <2>. QED
    BY <2>1, <2>2
<1>6. ASSUME NEW n \in Names, ValidateTerminates(p, n)
      PROVE  LocsOK'
  <2>1. Gone(p) /\ UNCHANGED <<libFile, pathFile>>
    BY <1>6 DEF ValidateTerminates, files
  <2>. QED
    BY <2>1, GoneKeepsLocs DEF LocsOK, LibraryReadable, StoredIds
<1>. HIDE DEF l, K
<1>7. ASSUME NEW n \in Names,
             Activate(p, n) \/ RemoveCollection(p, n) \/ Validate(p, n)
      PROVE  LocsOK'
  <2>1. pc[p] = "running" => /\ Within(LibChangeActive(l, n).lib, K)
                             /\ Within(LibRemove(l, n).lib, K)
                             /\ Within(LibGetCache(l, n).lib, K)
    BY <1>1, <1>2, ChangeActiveWithin, RemoveWithin, GetCacheWithin
  <2>. QED
    BY <1>3, <1>7, <2>1 DEF Activate, RemoveCollection, Validate, l
<1>8. ASSUME NEW n \in Names, NEW w \in Walls, RemoveWallpaper(p, n, w)
      PROVE  LocsOK'
  BY <1>1, <1>2, <1>3, <1>8, RemoveItemWithin DEF RemoveWallpaper, l
<1>9. ASSUME NEW n \in Names, NEW m \in Names, NEW w \in Walls, Move(p, w, n, m)
      PROVE  LocsOK'
  BY <1>1, <1>2, <1>3, <1>9, MoveWithin DEF Move, l
<1>10. ASSUME NEW n \in Names, NEW m \in Names, Rename(p, n, m) \/ Merge(p, n, m)
       PROVE  LocsOK'
  <2>1. pc[p] = "running" => Within(LibRename(l, n, m).lib, K) /\ Within(LibMerge(l, n, m).lib, K)
    BY <1>1, <1>2, RenameWithin, MergeWithin
  <2>. QED
    BY <1>3, <1>10, <2>1 DEF Rename, Merge, l
<1>. QED
  BY <1>4, <1>5, <1>6, <1>7, <1>8, <1>9, <1>10 DEF Command

LEMMA LocsOKKept ==
    Alone /\ Sound /\ FilesOK /\ LocsOK /\ [Next]_vars /\ "paths" \notin failed' => LocsOK'
<1>. SUFFICES ASSUME Alone, Sound, FilesOK, LocsOK, [Next]_vars, "paths" \notin failed'
              PROVE  LocsOK'
  OBVIOUS
<1>. USE DEF Goto, files
<1>1. CASE UNCHANGED vars
  BY <1>1 DEF vars, LocsOK, LibraryReadable, StoredIds, Known
<1>2. ASSUME NEW p \in Procs, Ends(p) PROVE LocsOK'
  <2>1. /\ pathFile' = pathFile \/ pathFile' \in Unreadable
        /\ libFile' = libFile \/ libFile' \in Unreadable
    <3>1. FilesOK => (pc[p] = "writingPaths" => pathFile = Emptied)
      BY DEF FilesOK
    <3>2. Partly(libFile) \subseteq {libFile} \cup Unreadable
      BY DEF Partly, Unreadable
    <3>3. Partly(Emptied) = {Emptied} /\ Emptied \in Unreadable
      BY DEF Partly, Unreadable
    <3>. QED
      BY <1>2, <3>1, <3>2, <3>3, EndsIs
  <2>. QED
    BY <1>2, <2>1, EndsIs, GoneKeepsLocs DEF LocsOK, LibraryReadable, StoredIds
<1>3. ASSUME NEW p \in Procs, LoadLibrary(p) PROVE LocsOK'
  <2>. DEFINE l == IF libFile = NoFile THEN EmptyLibrary ELSE LibLoad(libFile)
  <2>1. /\ libFile \notin Unreadable /\ UNCHANGED <<libFile, pathFile, table>>
        /\ lib'[p] = l /\ pc'[p] = "loading"
    BY <1>3 DEF LoadLibrary, Sound, LibrariesOK, ControlOK
  <2>2. ASSUME pathFile \notin Unreadable PROVE Within(l, StoredIds)
    <3>1. CASE libFile = NoFile
      BY <3>1, EmptyWithin
    <3>2. CASE libFile # NoFile
      <4>1. libFile \in SoundDocuments /\ DocumentWithin(libFile, StoredIds)
        BY <2>1, <2>2, <3>2 DEF LocsOK, LibraryReadable, Sound, LibrariesOK
      <4>. QED
        BY <3>2, <4>1, LoadWithin
    <3>. QED
      BY <3>1, <3>2
  <2>. HIDE DEF l
  <2>3. \A q \in Procs : q = p
    BY DEF Alone
  <2>. QED
    BY <2>1, <2>2, <2>3 DEF LocsOK, LibraryReadable, StoredIds, Working
<1>4. ASSUME NEW p \in Procs, LoadPaths(p) PROVE LocsOK'
  <2>1. /\ pathFile \notin Unreadable /\ UNCHANGED <<libFile, pathFile, lib>>
        /\ pc[p] = "loading" /\ pc'[p] = "running"
        /\ table'[p] = TableOf(IF pathFile = NoFile THEN EmptyStore ELSE pathFile)
    BY <1>4 DEF LoadPaths, Sound, TablesOK, ControlOK
  <2>2. Known(p)' = StoredIds
    BY <2>1 DEF Known, StoredIds, TableOf, EmptyStore
  <2>3. Within(lib[p], StoredIds) /\ (LibraryReadable => DocumentWithin(libFile, StoredIds))
    BY <2>1 DEF LocsOK
  <2>4. LibraryReadable' = LibraryReadable /\ StoredIds' = StoredIds
    BY <2>1 DEF LibraryReadable, StoredIds
  <2>5. \A q \in Procs : q = p
    BY DEF Alone
  <2>. QED
    BY <2>1, <2>2, <2>3, <2>4, <2>5 DEF LocsOK
<1>5. ASSUME NEW p \in Procs, OpenPaths(p) PROVE LocsOK'
  <2>1. /\ pc[p] = "running" /\ UNCHANGED <<libFile, lib, table>>
        /\ \/ table[p].modified /\ pathFile' \in Unreadable /\ pc'[p] = "writingPaths"
           \/ ~ table[p].modified /\ pathFile' = pathFile /\ pc'[p] = "pathsStored"
    BY <1>5 DEF OpenPaths, Unreadable, Sound, TablesOK, ControlOK
  <2>2. LibraryReadable' = LibraryReadable /\ Known(p)' = Known(p)
    BY <2>1 DEF LibraryReadable, Known
  <2>3. pathFile' = pathFile => StoredIds' = StoredIds
    BY DEF StoredIds
  <2>4. \A q \in Procs : q = p
    BY DEF Alone
  <2>. QED
    BY <2>1, <2>2, <2>3, <2>4 DEF LocsOK, Working
<1>6. ASSUME NEW p \in Procs, WritePaths(p) PROVE LocsOK'
  <2>1. /\ pc[p] = "writingPaths" /\ UNCHANGED <<libFile, lib, table>>
        /\ pathFile' \in Written(pathFile, table[p].store) /\ pc'[p] = "pathsStored"
    BY <1>6 DEF WritePaths, Sound, ControlOK
  <2>2. pathFile' = table[p].store
    BY <2>1 DEF FilesOK, Written
  <2>3. table[p].store \in Stores
    BY DEF Sound, TablesOK, PathTables
  <2>4. StoredIds' = Known(p) /\ Known(p)' = Known(p) /\ LibraryReadable' = LibraryReadable
    BY <2>1, <2>2, <2>3, ChangerAssumption DEF StoredIds, Known, LibraryReadable
  <2>5. \A q \in Procs : q = p
    BY DEF Alone
  <2>. QED
    BY <2>1, <2>4, <2>5 DEF LocsOK, Working
<1>7. ASSUME NEW p \in Procs, OpenLibrary(p) PROVE LocsOK'
  <2>1. /\ pc[p] = "pathsStored" /\ UNCHANGED <<pathFile, lib, table>>
        /\ libFile' \in Unreadable /\ pc'[p] = "writingLibrary"
    BY <1>7 DEF OpenLibrary, Unreadable, Sound, ControlOK
  <2>2. ~ LibraryReadable' /\ Known(p)' = Known(p) /\ StoredIds' = StoredIds
    BY <2>1 DEF LibraryReadable, Known, StoredIds, Unreadable
  <2>3. \A q \in Procs : q = p
    BY DEF Alone
  <2>. QED
    BY <2>1, <2>2, <2>3 DEF LocsOK, Working
<1>8. ASSUME NEW p \in Procs, WriteLibrary(p) PROVE LocsOK'
  <2>1. PICK a \in LibActiveWritten(lib[p]) : libFile' \in Written(libFile, LibDocument(lib[p], a))
    BY <1>8 DEF WriteLibrary
  <2>2. /\ pc[p] = "writingLibrary" /\ Gone(p) /\ UNCHANGED pathFile
        /\ Within(lib[p], Known(p)) /\ Known(p) \subseteq StoredIds
    BY <1>8 DEF WriteLibrary, LocsOK, Working
  <2>3. DocumentWithin(LibDocument(lib[p], a), StoredIds)
    BY <2>2, WithinMore, SavedWithin
  <2>4. LibraryReadable' => libFile' = LibDocument(lib[p], a)
    BY <2>1 DEF LibraryReadable, Written, Unreadable
  <2>5. StoredIds' = StoredIds
    BY <2>2 DEF StoredIds
  <2>. QED
    BY <2>2, <2>3, <2>4, <2>5, GoneKeepsLocs
<1>. QED
  BY <1>1, <1>2, <1>3, <1>4, <1>5, <1>6, <1>7, <1>8, CommandKeepsLocs, GoesOnWithout, NextIs
     DEF Steps

LEMMA LocsInvInductive ==
    Alone /\ Sound /\ FilesInv /\ LocsInv /\ [Next]_vars => LocsInv'
BY LocsOKKept, FailedGrows DEF FilesInv, LocsInv

LEMMA LocsInvAlways == Alone => (Spec => []LocsInv)
<1>. SUFFICES ASSUME Alone PROVE Spec => []LocsInv
  OBVIOUS
<1>1. Init => FilesInv
  BY ChangerAssumption DEF Init, FilesInv, FilesOK, HasLibrary, HasPaths, Unreadable
<1>2. Sound /\ FilesInv /\ [Next]_vars => FilesInv'
  BY FilesInvInductive
<1>3. Init => LocsInv
  BY DEF Init, LocsInv, LocsOK, LibraryReadable, Working
<1>4. Sound /\ FilesInv /\ LocsInv /\ [Next]_vars => LocsInv'
  BY LocsInvInductive
<1>. QED
  BY <1>1, <1>2, <1>3, <1>4, AlwaysSound, PTL DEF Spec

\* When processes never overlap, the library on disk never refers to a directory
\* that the path table on disk lacks, at whatever point the processes before died,
\* as long as every path table could be written.
THEOREM PathsStayKnownOnDisk == Alone => (Spec => []PathsKnownOnDisk)
<1>. SUFFICES ASSUME Alone PROVE Spec => []PathsKnownOnDisk
  OBVIOUS
<1>1. LocsInv => PathsKnownOnDisk
  BY DocumentWithinIs DEF LocsInv, LocsOK, PathsKnownOnDisk, LibraryReadable
<1>. QED
  BY <1>1, LocsInvAlways, PTL

\* When processes never overlap, validate finds every directory it looks up,
\* after any sequence of commands, failed ones included, as long as every path
\* table could be written.
THEOREM ValidateAlwaysAnswers == Alone => (Spec => []ValidateAnswers)
<1>. SUFFICES ASSUME Alone PROVE Spec => []ValidateAnswers
  OBVIOUS
<1>1. LocsInv => ValidateAnswers
  BY WithinIs DEF LocsInv, LocsOK, ValidateAnswers, Working, Known
<1>. QED
  BY <1>1, LocsInvAlways, PTL
-----------------------------------------------------------------------------
\* A process alone still finds the library empty that it has opened.
OpenedInv == \A p \in Procs : pc[p] = "writingLibrary" => libFile = Emptied

LEMMA OpenedInvInductive == Alone /\ Sound /\ OpenedInv /\ [Next]_vars => OpenedInv'
<1>. SUFFICES ASSUME Alone, Sound, OpenedInv, [Next]_vars PROVE OpenedInv'
  OBVIOUS
<1>. USE DEF Alone, OpenedInv, Sound, ControlOK, Goto, files
<1>1. CASE UNCHANGED vars
  BY <1>1 DEF vars
<1>2. ASSUME NEW p \in Procs, UNCHANGED libFile, UNCHANGED pc PROVE OpenedInv'
  BY <1>2
<1>3. ASSUME NEW p \in Procs, Gone(p) PROVE OpenedInv'
  BY <1>3 DEF Gone
<1>4. ASSUME NEW p \in Procs, WriteLibrary(p) \/ Ends(p) PROVE OpenedInv'
  BY <1>3, <1>4, EndsIs DEF WriteLibrary
<1>5. ASSUME NEW p \in Procs,
             \/ LoadLibrary(p) \/ LoadPaths(p) \/ OpenPaths(p) \/ WritePaths(p)
             \/ OpenLibrary(p)
      PROVE  OpenedInv'
  BY <1>5 DEF LoadLibrary, LoadPaths, OpenPaths, WritePaths, OpenLibrary
<1>6. ASSUME NEW p \in Procs, Command(p) PROVE OpenedInv'
  BY <1>2, <1>3, <1>6, CommandKeepsFiles
<1>7. ASSUME NEW p \in Procs,
             (OpenPathsFails(p) /\ TableDumps(table[p])) \/ WritePathsFails(p)
      PROVE  OpenedInv'
  BY <1>7, GoesOnWithout
<1>. QED
  BY <1>1, <1>4, <1>5, <1>6, <1>7, NextIs DEF Steps

SavedStep(p) ==
    /\ Finishes(p) /\ crashes' = crashes /\ "library" \notin failed'
    /\ TableDumps(table[p]) /\ LibraryDumps(lib[p])
    /\ HoldsWallpapers(lib[p]) /\ lib[p].current < Len(lib[p].vec)
    => libFile' \notin Unreadable \cup {NoFile} /\ libFile'.libraries = Content(lib[p])

LEMMA NextSaves ==
    ASSUME Sound, OpenedInv, [Next]_vars, NEW p \in Procs
    PROVE  SavedStep(p)
<1>. SUFFICES ASSUME Finishes(p), crashes' = crashes, "library" \notin failed',
                     TableDumps(table[p]), LibraryDumps(lib[p]),
                     HoldsWallpapers(lib[p]), lib[p].current < Len(lib[p].vec)
              PROVE  libFile' \notin Unreadable \cup {NoFile} /\ libFile'.libraries = Content(lib[p])
  BY DEF SavedStep
<1>1. lib[p] \in SoundLibrary /\ pc \in [Procs -> Places] /\ crashes \in Nat
  BY ChangerAssumption DEF Sound, LibrariesOK, ControlOK
<1>2. pc[p] \in {"writingPaths", "pathsStored", "writingLibrary"} /\ pc'[p] = "off"
  BY DEF Finishes
<1>3. LibModified(lib[p]) = {TRUE}
  BY <1>1, WallpapersAreMarked
<1>4. WriteLibrary(p)
  <2>1. PICK q \in Procs : Steps(q)
    BY <1>2, NextIs DEF vars
  <2>2. q = p
    <3>1. \E where : pc' = [pc EXCEPT ![q] = where]
      BY <1>2, <2>1, CommandKeepsFiles, EndsIs, GoesOnWithout
         DEF Steps, LoadLibrary, LoadPaths, OpenPaths, WritePaths,
             OpenLibrary, WriteLibrary, Gone, Goto
    <3>. QED
      BY <1>1, <1>2, <3>1
  <2>3. ~ Command(p)
    BY <1>2 DEF Command, Create, Activate, Add, RemoveCollection, RemoveWallpaper, Rename,
                Merge, Move, Validate, ValidateTerminates, Run
  <2>4. ~ Ends(p)
    <3>1. ~ (lib[p].current >= Len(lib[p].vec))
      BY <1>1, SoundEntries
    <3>2. ~ CannotStart(p) /\ ~ CreateTerminates(p) /\ ~ OpenPathsFails(p)
      BY <1>2 DEF CannotStart, CreateTerminates, OpenPathsFails
    <3>3. ~ ExitUnsaved(p) /\ ~ ActiveNameFails(p)
      BY <1>3, <3>1 DEF ExitUnsaved, ActiveNameFails
    <3>4. ~ OpenLibraryFails(p) /\ ~ WriteLibraryFails(p)
      BY DEF OpenLibraryFails, WriteLibraryFails, Fails
    <3>5. ~ DumpPathsThrows(p) /\ ~ DumpLibraryThrows(p)
      BY <3>1 DEF DumpPathsThrows, DumpLibraryThrows
    <3>6. ~ Kill(p)
      BY <1>1 DEF Kill
    <3>. QED
      BY <3>2, <3>3, <3>4, <3>5, <3>6 DEF Ends
  <2>5. ~ \/ LoadLibrary(p) \/ LoadPaths(p) \/ OpenPaths(p) \/ WritePaths(p) \/ OpenLibrary(p)
          \/ (OpenPathsFails(p) /\ TableDumps(table[p])) \/ WritePathsFails(p)
    BY <1>1, <1>2, GoesOnWithout
       DEF LoadLibrary, LoadPaths, OpenPaths, WritePaths, OpenLibrary, Goto
  <2>. QED
    BY <2>1, <2>2, <2>3, <2>4, <2>5 DEF Steps
<1>5. PICK a \in LibActiveWritten(lib[p]) : libFile' \in Written(libFile, LibDocument(lib[p], a))
  BY <1>4 DEF WriteLibrary
<1>6. libFile' = LibDocument(lib[p], a)
  BY <1>4, <1>5 DEF WriteLibrary, OpenedInv, Written
<1>7. LibDocument(lib[p], a) \in Documents
  BY <1>1, <1>5, ActiveWrittenType, DocumentSound DEF SoundDocuments
<1>. QED
  BY <1>6, <1>7, ChangerAssumption DEF Unreadable, LibDocument, Content

\* When processes never overlap, a run that gets as far as storing, with a wallpaper
\* in some collection, and is not killed, has stored its collections when it ends,
\* unless writing libraries.json failed, a string is not UTF-8 or m_current is stale.
THEOREM AlwaysSaved == Alone => (Spec => SavedUnlessEmpty)
<1>. SUFFICES ASSUME Alone PROVE Spec => SavedUnlessEmpty
  OBVIOUS
<1>1. Init => OpenedInv
  BY DEF Init, OpenedInv
<1>2. Sound /\ OpenedInv /\ [Next]_vars => OpenedInv'
  BY OpenedInvInductive
<1>3. Sound /\ OpenedInv /\ [Next]_vars
        => [\A p \in Procs :
              /\ Finishes(p) /\ crashes' = crashes /\ "library" \notin failed'
              /\ TableDumps(table[p]) /\ LibraryDumps(lib[p])
              /\ HoldsWallpapers(lib[p]) /\ lib[p].current < Len(lib[p].vec)
              => libFile' \notin Unreadable \cup {NoFile} /\ libFile'.libraries = Content(lib[p])]_vars
  BY NextSaves DEF SavedStep
<1>. QED
  BY <1>1, <1>2, <1>3, AlwaysSound, PTL DEF Spec, SavedUnlessEmpty
-----------------------------------------------------------------------------
(***************************************************************************)
(* What becomes of the wallpapers, through commands, saves and loads, when *)
(* any number of processes run at the same time.                           *)
(***************************************************************************)
DocumentWallpapers(doc) == UNION {Values(doc.libraries[i].items) : i \in DOMAIN doc.libraries}

StoredWallpapers == IF libFile = NoFile THEN {} ELSE DocumentWallpapers(libFile)

Loses(p) == ~ (Wallpapers(lib[p]) \subseteq Wallpapers(lib'[p]))
Gains(p) == ~ (Wallpapers(lib'[p]) \subseteq Wallpapers(lib[p]))

\* Process p starts with what is stored, loses wallpapers only by a removal, and
\* has others only by a creation or an addition.
CarriesOver(p) ==
    /\ pc[p] = "off" /\ pc'[p] = "loading" => Wallpapers(lib'[p]) = StoredWallpapers
    /\ pc[p] # "off" /\ pc'[p] # "off" /\ Loses(p) => phase[p] < RemoveCmd /\ phase'[p] = RemoveCmd
    /\ pc[p] # "off" /\ pc'[p] # "off" /\ Gains(p) => phase[p] < phase'[p] /\ phase'[p] \in {CreateCmd, AddCmd}

\* What is stored is what some process had when it wrote the library.
StoresOwn ==
    libFile' # libFile /\ libFile' \notin Unreadable =>
        \E p \in Procs : /\ pc[p] = "writingLibrary" /\ pc'[p] = "off"
                         /\ StoredWallpapers' = Wallpapers(lib[p])

OnlyRemovalLoses == [][(\A p \in Procs : CarriesOver(p)) /\ StoresOwn]_vars

LEMMA WallpapersInVec ==
    ASSUME NEW l \in SoundLibrary
    PROVE  Wallpapers(l) = UNION {Values(l.vec[i].cache.items) : i \in DOMAIN l.vec}
<1>1. \A i \in DOMAIN l.vec : /\ l.vec[i].name \in LibNames(l)
                              /\ Held(l)[l.vec[i].name] = Values(l.vec[i].cache.items)
  BY HeldAt
<1>2. \A n \in LibNames(l) : \E i \in DOMAIN l.vec : n = l.vec[i].name
  BY DEF LibNames
<1>3. ASSUME NEW w
      PROVE  w \in Wallpapers(l) <=> \E i \in DOMAIN l.vec : w \in Values(l.vec[i].cache.items)
  BY <1>1, <1>2, WallpapersAre
<1>. QED
  BY <1>3

LEMMA LoadedWallpapers ==
    ASSUME NEW doc \in SoundDocuments
    PROVE  Wallpapers(LibLoad(doc)) = DocumentWallpapers(doc)
<1>. DEFINE l == LibLoad(doc)
<1>1. l \in SoundLibrary
  BY LoadSound
<1>2. DOMAIN l.vec = DOMAIN doc.libraries
  BY DEF LibLoad
<1>3. ASSUME NEW i \in DOMAIN doc.libraries
      PROVE  Values(l.vec[i].cache.items) = Values(doc.libraries[i].items)
  <2>. DEFINE items == doc.libraries[i].items
  <2>1. items \in Seq(Item)
    <3>1. doc.libraries \in Seq([name : Names, items : Seq(Item)])
      BY DEF SoundDocuments, Documents
    <3>2. doc.libraries[i] \in [name : Names, items : Seq(Item)]
      BY <3>1, LenProperties, ElementOfSeq
    <3>. QED
      BY <3>2
  <2>2. l.vec[i].cache = CacheFromJson(items)
    BY DEF LibLoad
  <2>. HIDE DEF items, l
  <2>3. CASE items = <<>>
    BY <2>2, <2>3 DEF CacheFromJson, NewCache, items
  <2>4. CASE items # <<>>
    <3>1. l.vec[i].cache.items = Distinct(items)
      BY <2>2, <2>4 DEF CacheFromJson
    <3>. QED
      BY <2>1, <3>1, DistinctValues DEF items
  <2>. QED
    BY <2>3, <2>4
<1>. HIDE DEF l
<1>4. Wallpapers(l) = UNION {Values(l.vec[i].cache.items) : i \in DOMAIN l.vec}
  BY <1>1, WallpapersInVec
<1>. QED
  BY <1>2, <1>3, <1>4 DEF DocumentWallpapers, l

LEMMA SavedWallpapers ==
    ASSUME NEW l \in SoundLibrary, NEW a
    PROVE  DocumentWallpapers(LibDocument(l, a)) = Wallpapers(l)
<1>1. /\ DOMAIN LibDocument(l, a).libraries = DOMAIN l.vec
      /\ \A i \in DOMAIN l.vec : LibDocument(l, a).libraries[i].items = l.vec[i].cache.items
  BY DEF LibDocument
<1>. QED
  BY <1>1, WallpapersInVec DEF DocumentWallpapers

\* Command number k with the result r on the library l: a removal that succeeds
\* takes wallpapers away, a creation or an addition that succeeds brings some.
Spares(k, r, l) ==
    /\ Wallpapers(l) \subseteq Wallpapers(r.lib) \/ (k = RemoveCmd /\ r.err = "Success")
    /\ Wallpapers(r.lib) \subseteq Wallpapers(l) \/ (k \in {CreateCmd, AddCmd} /\ r.err = "Success")

LEMMA RunCarries ==
    ASSUME Sound, NEW p \in Procs, NEW k \in 0..LastCmd, NEW r, NEW t,
           Run(p, k, r, t), Spares(k, r, lib[p]), NEW q \in Procs
    PROVE  CarriesOver(q)
<1>1. pc' = pc /\ lib'[q] = (IF q = p THEN r.lib ELSE lib[q])
  BY DEF Run, Sound, LibrariesOK
<1>2. phase[p] < k /\ phase'[p] = IF r.err = "Success" THEN k ELSE LastCmd
  BY DEF Run, Sound, ControlOK
<1>3. CASE q # p
  BY <1>1, <1>3 DEF CarriesOver, Loses, Gains
<1>4. CASE q = p
  BY <1>1, <1>2, <1>4 DEF CarriesOver, Loses, Gains, Spares
<1>. QED
  BY <1>3, <1>4

LEMMA GoneCarries ==
    ASSUME Sound, NEW p \in Procs, Gone(p), NEW q \in Procs
    PROVE  CarriesOver(q)
<1>1. pc'[p] = "off" /\ (q # p => pc'[q] = pc[q] /\ lib'[q] = lib[q])
  BY DEF Gone, Blank, Sound, ControlOK, LibrariesOK
<1>. QED
  BY <1>1 DEF CarriesOver, Loses, Gains

LEMMA CommandCarries ==
    ASSUME Sound, NEW p \in Procs, Command(p), NEW q \in Procs
    PROVE  CarriesOver(q)
<1>. DEFINE l == lib[p]
<1>1. l \in SoundLibrary
  BY DEF Sound, LibrariesOK
<1>2. ASSUME NEW k \in 0..LastCmd, NEW r, NEW t, Run(p, k, r, t), Held(r.lib) = Held(l)
      PROVE  CarriesOver(q)
  <2>1. Spares(k, r, l)
    BY <1>2, StaysKeeps DEF Spares
  <2>. QED
    BY <1>2, <2>1, RunCarries
<1>. HIDE DEF l
<1>3. ASSUME NEW n \in Names, NEW d \in Dirs \cup {NoDir}, NEW listing \in Listings(MaxListing),
             Create(p, n, d, listing)
      PROVE  CarriesOver(q)
  <2>. DEFINE c == IF d = NoDir THEN NewCache ELSE CacheOf(listing, Crc[d])
              t == IF d = NoDir THEN table[p] ELSE TableInsert(table[p], d)
              r == LibInsert(l, n, c)
  <2>1. d # NoDir => d \in Dirs /\ Crc[d] \in Locs
    BY ChangerAssumption DEF Ids
  <2>2. c \in MarkedCache
    BY <2>1, ChangerAssumption, NewCacheMarked, CacheOfMarked
  <2>3. Run(p, CreateCmd, r, t)
    BY <1>3 DEF Create, l
  <2>4. r.err = "Success" \/ r.lib = l
    BY DEF LibInsert, Ok, Result
  <2>. HIDE DEF c, t
  <2>5. Stays(l, r.lib) \/ Creates(l, r.lib, n, Values(c.items))
    BY <1>1, <2>2, InsertHeld
  <2>. HIDE DEF r
  <2>6. CASE r.err # "Success" \/ Stays(l, r.lib)
    BY <1>2, <2>3, <2>4, <2>6, CommandConstants DEF Stays
  <2>7. CASE r.err = "Success" /\ Creates(l, r.lib, n, Values(c.items))
    <3>1. Spares(CreateCmd, r, l)
      BY <2>7, CreatesAdds DEF Spares
    <3>. QED
      BY <2>3, <3>1, RunCarries, CommandConstants DEF l
  <2>. QED
    BY <2>5, <2>6, <2>7
<1>4. ASSUME NEW n \in Names, NEW w \in Walls, NEW d \in Dirs, Add(p, n, w, d)
      PROVE  CarriesOver(q)
  <2>1. CASE LibExists(l, n)
    <3>. DEFINE u == [l EXCEPT !.vec[LibFind(l, n)].cache = CacheInsert(@, w, Crc[d])]
    <3>1. Run(p, AddCmd, Ok(u), TableInsert(table[p], d))
      BY <1>4, <2>1 DEF Add, l
    <3>2. Crc[d] \in Locs
      BY ChangerAssumption DEF Ids
    <3>3. Puts(l, u, n, w)
      BY <1>1, <2>1, <3>2, AddHeld
    <3>. HIDE DEF u
    <3>4. Spares(AddCmd, Ok(u), l)
      BY <3>3, PutsAdds DEF Spares, Ok, Result
    <3>. QED
      BY <3>1, <3>4, RunCarries, CommandConstants DEF l
  <2>2. CASE ~ LibExists(l, n)
    <3>1. Run(p, AddCmd, Result("cache_does_not_exists", l), table[p])
      BY <1>4, <2>2 DEF Add, l
    <3>2. Result("cache_does_not_exists", l).lib = l
      BY DEF Result
    <3>. QED
      BY <1>2, <3>1, <3>2, CommandConstants
  <2>. QED
    BY <2>1, <2>2
<1>5. ASSUME NEW n \in Names, RemoveCollection(p, n)
      PROVE  CarriesOver(q)
  <2>. DEFINE r == LibRemove(l, n)
  <2>1. Run(p, RemoveCmd, r, table[p])
    BY <1>5 DEF RemoveCollection, l
  <2>2. r.err = "Success" \/ r.lib = l
    BY DEF LibRemove, Ok, Result
  <2>3. Stays(l, r.lib) \/ Drops(l, r.lib, n)
    BY <1>1, RemoveHeld
  <2>. HIDE DEF r
  <2>4. CASE r.err # "Success" \/ Stays(l, r.lib)
    BY <1>2, <2>1, <2>2, <2>4, CommandConstants DEF Stays
  <2>5. CASE r.err = "Success" /\ Drops(l, r.lib, n)
    <3>1. Spares(RemoveCmd, r, l)
      BY <2>5, DropsTakes DEF Spares
    <3>. QED
      BY <2>1, <3>1, RunCarries, CommandConstants DEF l
  <2>. QED
    BY <2>3, <2>4, <2>5
<1>6. ASSUME NEW n \in Names, NEW w \in Walls, RemoveWallpaper(p, n, w)
      PROVE  CarriesOver(q)
  <2>. DEFINE r == LibRemoveItem(l, n, w)
  <2>1. Run(p, RemoveCmd, r, table[p])
    BY <1>6 DEF RemoveWallpaper, l
  <2>2. r.err = "Success" \/ r.lib = l \/ r.lib = LibGetCache(l, n).lib
    BY DEF LibRemoveItem, LibGetCache, Ok, Result
  <2>3. Stays(l, LibGetCache(l, n).lib)
    BY <1>1, GetCacheHeld
  <2>4. Stays(l, r.lib) \/ Discards(l, r.lib, n, w)
    BY <1>1, RemoveItemHeld
  <2>. HIDE DEF r
  <2>5. CASE r.err # "Success" \/ Stays(l, r.lib)
    BY <1>2, <2>1, <2>2, <2>3, <2>5, CommandConstants DEF Stays
  <2>6. CASE r.err = "Success" /\ Discards(l, r.lib, n, w)
    <3>1. Spares(RemoveCmd, r, l)
      BY <2>6, DiscardsTakes DEF Spares
    <3>. QED
      BY <2>1, <3>1, RunCarries, CommandConstants DEF l
  <2>. QED
    BY <2>4, <2>5, <2>6
<1>7. ASSUME NEW n \in Names, Activate(p, n) \/ Validate(p, n)
      PROVE  CarriesOver(q)
  <2>1. Held(LibChangeActive(l, n).lib) = Held(l) /\ Held(LibGetCache(l, n).lib) = Held(l)
    BY <1>1, ChangeActiveHeld, GetCacheHeld DEF Stays, Activates
  <2>. QED
    BY <1>2, <1>7, <2>1, CommandConstants DEF Activate, Validate, l
<1>8. ASSUME NEW n \in Names, ValidateTerminates(p, n)
      PROVE  CarriesOver(q)
  BY <1>8, GoneCarries DEF ValidateTerminates
<1>9. ASSUME NEW k \in 0..LastCmd, NEW r, Run(p, k, r, table[p]),
             Wallpapers(r.lib) = Wallpapers(l)
      PROVE  CarriesOver(q)
  <2>1. Spares(k, r, l)
    BY <1>9 DEF Spares
  <2>. QED
    BY <1>9, <2>1, RunCarries DEF l
<1>10. ASSUME NEW n \in Names, NEW m \in Names, Rename(p, n, m) \/ Merge(p, n, m)
       PROVE  CarriesOver(q)
  <2>1. Wallpapers(LibRename(l, n, m).lib) = Wallpapers(l)
    BY <1>1, RenameHeld, RenamesKeeps, StaysKeeps DEF Stays
  <2>2. Wallpapers(LibMerge(l, n, m).lib) = Wallpapers(l)
    BY <1>1, MergeHeld, MergesKeeps, StaysKeeps DEF Stays
  <2>. QED
    BY <1>9, <1>10, <2>1, <2>2, CommandConstants DEF Rename, Merge, l
<1>11. ASSUME NEW n \in Names, NEW m \in Names, NEW w \in Walls, Move(p, w, n, m)
       PROVE  CarriesOver(q)
  <2>1. Wallpapers(LibMove(l, n, m, w).lib) = Wallpapers(l)
    BY <1>1, MoveHeld, MovesKeeps, StaysKeeps DEF Stays
  <2>. QED
    BY <1>9, <1>11, <2>1, CommandConstants DEF Move, l
<1>. QED
  BY <1>3, <1>4, <1>5, <1>6, <1>7, <1>8, <1>10, <1>11 DEF Command

LEMMA NextCarries ==
    ASSUME Sound, [Next]_vars, NEW q \in Procs
    PROVE  CarriesOver(q)
<1>1. CASE UNCHANGED vars
  BY <1>1 DEF vars, CarriesOver, Loses, Gains
<1>2. ASSUME NEW p \in Procs, LoadLibrary(p) PROVE CarriesOver(q)
  <2>1. pc[p] = "off" /\ (q # p => pc'[q] = pc[q] /\ lib'[q] = lib[q])
    BY <1>2 DEF LoadLibrary, Goto, Sound, ControlOK, LibrariesOK
  <2>2. lib'[p] = IF libFile = NoFile THEN EmptyLibrary ELSE LibLoad(libFile)
    BY <1>2 DEF LoadLibrary, Sound, LibrariesOK
  <2>3. Wallpapers(EmptyLibrary) = {}
    <3>1. DOMAIN EmptyLibrary.vec = {}
      BY DEF EmptyLibrary
    <3>. QED
      BY <3>1 DEF Wallpapers, LibNames
  <2>4. libFile # NoFile => libFile \in SoundDocuments
    BY <1>2 DEF LoadLibrary, Sound, LibrariesOK
  <2>5. Wallpapers(lib'[p]) = StoredWallpapers
    BY <2>2, <2>3, <2>4, LoadedWallpapers DEF StoredWallpapers
  <2>. QED
    BY <2>1, <2>5 DEF CarriesOver, Loses, Gains
<1>3. ASSUME NEW p \in Procs,
             \/ LoadPaths(p) \/ OpenPaths(p) \/ WritePaths(p) \/ OpenLibrary(p)
             \/ (OpenPathsFails(p) /\ TableDumps(table[p])) \/ WritePathsFails(p)
      PROVE  CarriesOver(q)
  <2>1. lib' = lib /\ pc'[q] \in {pc[q]} \cup (Places \ {"off", "loading"})
    BY <1>3, GoesOnWithout
       DEF LoadPaths, OpenPaths, WritePaths, OpenLibrary, Goto, Places, Sound, ControlOK
  <2>. QED
    BY <2>1 DEF CarriesOver, Loses, Gains
<1>4. ASSUME NEW p \in Procs, WriteLibrary(p) \/ Ends(p) PROVE CarriesOver(q)
  <2>1. Gone(p)
    BY <1>4, EndsIs DEF WriteLibrary
  <2>. QED
    BY <2>1, GoneCarries
<1>. QED
  BY <1>1, <1>2, <1>3, <1>4, CommandCarries, NextIs DEF Steps

LEMMA NextStoresOwn ==
    ASSUME Sound, [Next]_vars
    PROVE  StoresOwn
<1>1. CASE UNCHANGED vars
  BY <1>1 DEF vars, StoresOwn
<1>2. ASSUME NEW p \in Procs,
             \/ LoadLibrary(p) \/ LoadPaths(p) \/ OpenPaths(p) \/ WritePaths(p)
             \/ (OpenPathsFails(p) /\ TableDumps(table[p])) \/ WritePathsFails(p) \/ Ends(p)
      PROVE  StoresOwn
  <2>1. libFile' \in {libFile} \cup Unreadable
    BY <1>2, GoesOnWithout, EndsIs
       DEF LoadLibrary, LoadPaths, OpenPaths, WritePaths, Partly, Unreadable, files
  <2>. QED
    BY <2>1 DEF StoresOwn
<1>3. ASSUME NEW p \in Procs, OpenLibrary(p) PROVE StoresOwn
  BY <1>3 DEF OpenLibrary, StoresOwn, Unreadable
<1>4. ASSUME NEW p \in Procs, WriteLibrary(p) PROVE StoresOwn
  <2>1. PICK a \in LibActiveWritten(lib[p]) : libFile' \in Written(libFile, LibDocument(lib[p], a))
    BY <1>4 DEF WriteLibrary
  <2>2. lib[p] \in SoundLibrary
    BY DEF Sound, LibrariesOK
  <2>3. LibDocument(lib[p], a) \in SoundDocuments
    BY <2>1, <2>2, ActiveWrittenType, DocumentSound
  <2>4. libFile' \notin Unreadable => libFile' = LibDocument(lib[p], a) /\ libFile' # NoFile
    BY <2>1, <2>3, ChangerAssumption DEF Written, Unreadable, SoundDocuments
  <2>5. libFile' \notin Unreadable => StoredWallpapers' = Wallpapers(lib[p])
    BY <2>2, <2>4, SavedWallpapers DEF StoredWallpapers
  <2>6. pc[p] = "writingLibrary" /\ pc'[p] = "off"
    BY <1>4 DEF WriteLibrary, Gone, Sound, ControlOK
  <2>. QED
    BY <2>5, <2>6 DEF StoresOwn
<1>5. ASSUME NEW p \in Procs, Command(p) PROVE StoresOwn
  BY <1>5, CommandKeepsFiles DEF StoresOwn, files
<1>. QED
  BY <1>1, <1>2, <1>3, <1>4, <1>5, NextIs DEF Steps

\* However many processes run the commands of wall_cmds at the same time and
\* die, none of them loses a wallpaper but by a removal that succeeds, and none
\* comes out of nowhere: renaming, merging and moving, a command that fails,
\* Manager::store and the constructor of Manager keep all of them.
THEOREM OnlyRemovalsLose == Spec => OnlyRemovalLoses
<1>1. Sound /\ [Next]_vars => (\A p \in Procs : CarriesOver(p)) /\ StoresOwn
  BY NextCarries, NextStoresOwn
<1>. QED
  BY <1>1, AlwaysSound, PTL DEF Spec, OnlyRemovalLoses
=============================================================================
