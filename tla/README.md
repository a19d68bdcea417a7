# A verification project for wallchanger

TLA+ models, TLC checks and TLAPS proofs for `wallchanger`, a program that keeps
collections of wallpapers (`change_lib`, `change_app`) and, in an unfinished
part, serves them over a socket (`change_lib/net`, `change_service`).
Paths below are relative to the repository; `wall_cache_library.cpp:150` means
line 150 of that file.

## 1. Inventory

| component | state | operations | what is hard |
|---|---|---|---|
| `cache` (`change_lib/wall_cache.hpp`) | list of items (file name, state, CRC of the directory), `m_modified` | `insert`, `insert_elem`, `erase`, `clear`, accessors that mark as a side effect | what is marked, what duplicates are |
| JSON round trip (`json_helper.hpp`) | - | `to_json`, `from_json` | an empty cache becomes `null`; loading drops identical items and marks the cache |
| `cache_lib` (`wall_cache_library.*`) | `m_cache_vec`, `m_current`, `m_active_name` | `insert`, `get_cache`, `change_active`, `rename_store`, `remove`, `remove_cache_item`, `merge_cache`, `move_cache_item`, `get_current`, `modified`, `serialize`, `deserialize` | an index and a name that must agree, long sequences of operations, reads behind the vector, a merge of unsorted lists |
| `path_table` (`path_table.*`) | pairs (CRC32, directory), `m_modified` | `insert`, `get`, `exists`, load, `store` | CRC collisions, agreement with the library |
| `Manager` (`change_app/wall_manager.*`) | a library, a path table, the history `m_previous` | one per command, `store`; `next_wall`, `previous_wall`, `mark_favorate` | two files, partial failure, `noexcept` functions that throw |
| `application` (`wall_app.*`, `main.cpp`) | the parsed options, a `Manager` | load, run the commands in a fixed order, stop at the first failure, store | crash between and inside the two writes, files that cannot be opened or written, overlapping processes |
| `connect_queue` (`net/connect_queue.hpp`) | a deque, two mutexes, a condition variable | `push_back`, `pop_front`, `empty`, `wait` | lost wake-ups, nested locks, a test and an action under separate locks |
| `connection` (`net/connection.hpp`, with `client_interface.hpp`, `server_interface.hpp`) | socket, `m_connected`, `m_outbound`, `m_temp_in`, the pending read and write | connect, accept, `send_message`, `disconnect`, the handlers of completed reads and writes | two threads at each end, messages in two parts, either direction may fail at any time |
| `change_server`, `change_client` | the connections, `m_incomming`, a `state` | one handler per message | requests without an answer, answers for clients that have left, `update` on a queue that goes on filling |
| `state` (`change_service/change_state.*`) | as `Manager` | as `Manager` | works on copies; not in the build, and written against an older interface |
| Windows service (`platform/win32/service.*`, `change_service.hpp`) | `SvcStatus`, the stop event, `m_stop`, `m_exec` | start, report, stop, the control handler | the control handler, the main routine and the update loop are three threads |
| background handlers, known folders, logging, timers | none that matters here | calls of the system | - |

How they interact: a run of `changer` builds a `Manager`, which loads
`libraries.json` into a `cache_lib` and `path_table.json` into a `path_table`.
Every command is a call of one `Manager` function, which calls `cache_lib` and,
when it meets a directory, `path_table`.  `application::run` stores the path
table and then the library.  Between runs, and between processes that run at
the same time, the two files are the only shared state; nothing locks them.
In the networked part a client's connection sends one request; the I/O thread of
the server puts it into `m_incomming`, from where the thread that calls `update`
hands it to `change_server`, which calls its `state` and answers over the same
connection.  The Windows service starts that server and stops it from its control
handler.  `change_service` is commented out of the build (`CMakeLists.txt:101`).

What makes each component correct:

- `cache`, `cache_lib`: distinct names; a non-empty collection is always marked;
  `get_current()` shows the collection called `active_cache_name()`; every operation
  has its own effect on the wallpapers and no other; what is loaded is what was saved.
- `path_table`: every `loc` in a library has an entry, in memory and on disk.
- the program: what a run did is on disk when it ends, if the files can be written;
  a crash costs as little as possible; overlapping processes do not corrupt a library.
- the rotation: what is shown is a wallpaper that was entered, with the directory it
  was entered from, once per entry; a draw ends.
- `net`: a message that was queued is handled, in order; each direction of a
  connection delivers the messages that were sent, one by one, with their own
  bodies; an end that can find out that the other has gone closes too.
- `change_server`: an answer belongs to the request its client waits for; a
  success means that the change was made; what is not answered is known.
- the service: a stop ends it when the clients are quiet, the state is stored after
  the last request, and the stop is reported.

## 2. Modules

| module | models | proved about in |
|---|---|---|
| `WallCache` | `cache` and its JSON form, as pure operators on records | `CacheLemmas` |
| `CacheLibrary` | `cache_lib`, as pure operators that give an error and a library | `CacheLemmas` |
| `CacheLib` | the life of one `cache_lib` object: one action per public operation | `CacheLibProofs` |
| `Effects` | what an operation on a library is meant to do, as relations between the library before and after it | `CacheLemmas` |
| `Shelf` | abstract specification of `cache_lib`: a function from names to sets of wallpapers, an active name, and the last request | `CacheLibProofs` |
| `MergeLoop` | the loops of `std::ranges::merge` and of `from_json`, step by step | `CacheLibProofs` |
| `PathTable` | `path_table`, as pure operators | `ChangerProofs`, `RotationProofs` |
| `Changer` | processes, their commands, the two files, crashes, files that cannot be written | `ChangerProofs` |
| `Rotation` | `next_wall`, `previous_wall`, `mark_favorate` and the history, between the operations on collections | `RotationProofs` |
| `ConnectQueue` | the queue, its locks, the pushing threads and the popping one | `ConnectQueueProofs` |
| `Channel` | abstract specification of one direction of a connection | `ConnectionProofs` |
| `Connection` | the connection objects at both ends, their I/O threads and user threads, the network | `ConnectionProofs` |
| `ChangeServer` | the server process, its `state`, its clients | `ChangeServerProofs` |
| `ServiceControl` | the three threads of the Windows service and the service manager | `ServiceControlProofs` |
| `MC...` | the instances for TLC, one per module with runs | |

How they are composed.  `CacheLib`, `Changer`, `Rotation` and `ChangeServer` all use
the operators of `CacheLibrary`; `Changer` and `Rotation` compose them with
`PathTable`.  The lemmas of `CacheLemmas` are about those operators and serve
`CacheLibProofs`, `ChangerProofs`, `RotationProofs` and `ChangeServerProofs`.
`Effects` says in the words of the user what an operation does; `ChangeServer` states
with it what a success means, and `CacheLemmas` that each operation has its effect.
The network is split along its interfaces: `ConnectQueue` shows that the queue
between the I/O thread and `update` is a FIFO, `Connection` that each direction of
a connection is a `Channel`, and `ChangeServer` takes both for granted: a request
goes from its client to the queue in one step.

Correspondence with the code:

- A library is the record `[vec, current, active]` of `m_cache_vec`, `m_current`
  (0-based, as in the code) and `m_active_name`.  `LibRename`, `LibMerge`, ... are
  the functions of the same name; the record they return holds the error code and
  the library as it is *after* the error, because some failing operations mark a
  collection (`remove_cache_item`, `wall_cache_library.cpp:117-119`).
- `modified` flags follow the code's accessors: the non-const `data()` and
  `begin()` mark a cache even if the caller only reads (`wall_cache.hpp:84-98`).
- Strings are natural numbers, their ranks in the lexicographic order, because
  the merge compares items; 0 is the empty string, the name in a
  default-constructed item.
- `Merged` is a closed form of `std::ranges::merge` that is right for unsorted
  inputs too.  It is what makes the merge usable in proofs, without recursion;
  `MergeLoop` checks it against the loop.  `CacheFromJson` is treated alike.
- Undefined behaviour is a choice.  `modified()` reads behind the vector when no
  collection is marked (`:150`), so `LibModified` is then `BOOLEAN`.  `serialize()`
  with a stale `m_current` reads a string behind the vector (`:227`), so
  `LibActiveWritten` is then any string, and in `Changer` the read may also end
  the process (`ActiveNameFails`).  `get_current()` has no check; `WriteCurrent` is
  restricted to the states in which the access is inside the vector.
- `Shelf` has one step for each operation, which names the operation and its arguments
  (`asked`): a merge is allowed to do what a merge does and nothing else, and when the
  collections are not as it needs them, nothing.  `CacheLib` has the same label, so the
  refinement compares each operation with its own step.
- In `Changer` a process goes through the places `off`, `loading`, `running`,
  `writingPaths`, `pathsStored`, `writingLibrary`.  `phase` is the number of the last
  command looked for: `m_collection_cmds` looks for the commands in one fixed
  order, and a failure skips the rest (`Run`).  `list` changes nothing and is left
  out.  A `noexcept` function that throws, and an exception that leaves `main`,
  end the process without storing (`Gone`).
- A file is missing, a document, `Emptied` (opened for writing, the text not yet
  there) or `Garbled` (blocks of two writers' texts alternate).  Opening for writing
  empties it, writing makes it whole.  If another process wrote in between, the new
  text goes over the old one from the start; the file is then whole or `Garbled`
  (`Written`).  A longer old text that leaves its tail behind the new one does no
  harm, since `operator>>` of the JSON library stops at the end of the document.  A
  writer that is killed or fails half way leaves a file that cannot be read, or the
  text of another process (`Partly`).
- A file may not open or not take its text, as when nothing has created the data
  directory; `path_table::store` does not look at its stream, `serialize` skips the write,
  and the program goes on and exits with 0 (`OpenPathsFails`, `OpenLibraryFails`,
  `WritePathsFails`, `WriteLibraryFails`).  `failed` remembers which file it was, which
  the program does not.  `dump()` throws on a text that is not UTF-8 (`NotUtf8`), after
  the file has been emptied (`DumpPathsThrows`, `DumpLibraryThrows`).
- In `Rotation` the process lives on between commands, as the history, which is
  never read from `history.json`, makes sense for one process only.  The index is
  the code's: drawn from 1 to the size, used from 0.  An access behind the span or
  the vector is a choice of its outcomes: the process dies, or what was read passes
  for something.  A wallpaper is its file name, as in the code, and may be entered from
  several directories (`wall_cache.hpp:56`).  A recursive creation enters the files of
  the subdirectories under the root (`wall_manager.cpp:135`), the first of each name: it
  is a listing of the root like any other.  `entered`, `added` and `shown` remember what
  was entered from where, and count entries and draws; the program does not have them.
- In `ConnectQueue` a place of `pc` is a point between two operations on a mutex or
  the condition variable.  `notify_one` reaches a sleeper only, wake-ups may be
  spurious, and `condition_variable::wait` gives up its mutex and sleeps in one
  step.  `waits` is the argument of `update`: both of its callers in the repository
  poll, `wait` is there for a caller that does not.
- In `Connection` an end's I/O thread runs one handler at a time, so a handler is a
  step.  `writing` is the sequence of the writes that are pending, which complete in the
  order in which they were started; `reading` is the pending read.  `send_message` is
  two steps: the test of `is_connected()` and the post.  A pending operation may fail once
  the link is down or an end is closed, and what was written may still arrive or be
  lost.  When the link is down nothing *must* fail: no keepalive or timeout is set, and
  an end may stay half open for ever.  The client's `disconnect` releases the connection
  without closing it (`client_interface.hpp:53`), so its socket is `abandoned` until the
  process exits.  `Accept` sends the greeting through the same test as every message; the
  denied branch and an address that cannot be asked for are actions of their own
  (`Deny`, `AcceptFails`).  A message carries the number of its sending, which the
  program does not have; number 0 is `Client_Accepted`.  Two bodies with one CRC32 are
  outside the assumption of the instance, where `Hash` is one-to-one.
- In `ChangeServer` a request is the type of the message and the names it carries;
  `m_process` is a disjunction over the types.  A message that `validate()` rejects is
  dropped (`Corrupted`); one that is not CBOR throws out of `update` and `main`
  (`Undecodable`).  What a `noexcept` function throws ends the server (`Terminates`).
  `auto c = ....get()` copies a collection: the marks that `state` sets there are lost,
  and the model loses them.  `answer` is what has arrived in the queue of the client.
  After `MaxRequests` requests clients may go on for ever with pings, since `update(-1)`
  tests the live queue after each message.  `StoreState` has the outcomes of `serialize`
  one by one: nothing is `modified()`, the library is written, the file cannot be
  written, `dump()` throws (also on what was read behind the vector for a stale
  `m_current`), or the process ends before it opens the file.
- In `ServiceControl` a report is two steps, filling the shared `SvcStatus` and
  handing it over, since two threads do it without a lock.  The service manager
  sends STOP only to a service that accepts it, once, and listens until it has
  heard STOPPED.  Requests arrive while the server runs, `update(-1)` returns only when
  the queue is empty, and what a request or the storing throws ends the process
  (`Terminates`).  What is stored, and whether it can be, is `ChangeServer`'s matter;
  `unstored` says only that a request was served after `store_state()` was called.
- Mutants: an operator whose comment starts with "Mutant of" is a deliberately
  wrong variant of the definition it names; putting it in that definition's place
  must break the property it is listed with.  No specification uses them.

## 3. What the runs show

| run | instance | result |
|---|---|---|
| `cache_lib` | 3 collection names, 2 wallpapers (one has the name of a collection), 1 location, at most 2 items, listings up to 2 | holds, 25 680 states |
| `merge_loop` | item lists of up to 3 items over 2 names and 2 locations, in any order | holds, 91 970 states |
| `changer_one` | processes one after the other, 2 names, 2 directories, at most 2 items, 1 crash, both files may fail | holds, 1 205 776 states |
| `changer_two` | 2 overlapping processes, 1 name, 2 directories, 1 item, a wallpaper and a directory that are not UTF-8, both files may fail, no crash | holds, 1 027 203 states |
| `rotation` | 2 names, 2 wallpapers from either of 2 directories, 2 entries, a history of 2 | holds, 483 805 states |
| `queue` | 3 pushers, 7 pushes, `max_msg` 2, polling and waiting | holds, 3 738 states |
| `connection` | a body and the empty one, 2 messages to the server and 1 to the client | holds, 171 485 states |
| `server` | 2 clients, 2 requests of every kind and any number of pings, an empty library or one of two collections, a name that is not UTF-8 | holds, 271 924 states |
| `service_stop` | any number of requests, 2 of them waiting, one STOP at any time | holds, 792 states |
| `current_is_active`, `overlap_validate`, `stop_unreported` | the same instances, one property each | violated: the findings of section 5 |

Properties of `cache_lib`:

- `NamesUnique`, `NonEmptyIsMarked`: the two invariants that the lookups and
  `modified()` rely on.
- `AgreementKept` (action property): `get_current()` and `active_cache_name()` part
  only in a step that erases a collection stored at or before `m_current`, that
  is in `remove()` and `merge_cache()`.  Renaming, moving, loading keep them
  together.
- `ImplementsShelf`: with `held[n]` the set of wallpapers of collection `n`, every
  operation is the step of `Shelf` that has its name and its arguments: a merge is the
  union, a move takes from one collection and gives to the other, an operation whose
  collections are missing does nothing, saving and reloading change nothing
  (up to an active name that was read behind the vector).  A merge that drops an item
  cannot pass for a removal.  This is a safety property of long sequences: the merge of unsorted lists, the blank items the
  new store is filled with, and the removal of duplicates on loading all have to
  fit together.

Properties of `changer_one` and `changer_two`:

- `PathsKnownOnDisk`, `ValidateAnswers`: the library never refers to a directory the
  path table lacks, on disk after any crash, and in memory whatever commands
  failed.  They rest on the order of the two stores and hold for one process at
  a time only (finding `overlap_validate`).
  When the path table could not be written both may fail, since nothing looks at its
  stream; the properties say so (`failed`).
- `OneFileSurvives`: a crash costs at most one file.  `LostForever`: but that file is
  lost for good, as no later process gets past loading it.
- `SavedUnlessEmpty`: a run that ends with a wallpaper in some collection has
  stored exactly its collections.  The exceptions are explicit: no wallpaper at
  all (section 5), a kill, a stale `m_current`, a library that could not be opened or
  written, a text that is not UTF-8.  A path table that could not be written is none.
- `WellFormed`: overlapping processes lose updates and garble files, but every
  document that can be read has distinct names.

Properties of `rotation`:

- `ShownOncePerEntry`: however collections are merged, moved, renamed and marked in
  between, a wallpaper is drawn at most as often as it was entered.  The state of an
  item travels with it through every operation.
- `UsedWereShown`: nothing is used or a favourite that was not shown, although
  `mark_favorate` looks in another collection than `next_wall` drew from.
- `ShownIsThere`, `DrawNeverThrows`: a wallpaper is given with a directory that it was
  entered from, or with one of the same CRC32 (section 5), and that directory is always
  in the table, so that `value()` does not throw.  Whether the file lies in that
  directory or, after a recursive creation, below it, the code does not keep.
- `FoundAtLast`: a draw ends when an unused wallpaper other than the first is left.

Properties of `queue`:

- `PopsSomething`, `HandledInOrder`: although `update` tests and pops under separate
  locks, it never pops an empty queue, and nothing is lost, doubled or overtaken
  from one `update` to the next.
- `PushReturns`: locking one mutex inside the other never blocks for good.
- `PushedIsHandled`: a thread that polls handles every element.  A thread that waits
  need not: the test and the sleep of `wait()` are under different mutexes, and a push
  in between wakes nobody.  `NextPushWakes` says what remains true: the next push
  wakes it, and then everything is handled.

Properties of `connection`:

- `OneWriteAtATime`: no two `async_write` are pending on one socket, and no message
  waits for a write that nobody starts, although messages are posted from another
  thread.
- `FramesMatch`, `AcceptedIsSent`: whatever fails half way, a header is never read as
  a body, and a message that validates is the one that was sent.  Those that do not
  validate are exactly the empty messages after one that was not empty.
- `NeverGreeted`: the client never receives `Client_Accepted`: `send_message` tests
  `is_connected()` before `connect_to_client` has set it.
- `ClosedAtLast`: an end that has disconnected, or whose operation failed, closes; so does
  an end that the other one has left, unless the link fails first.
- `IsChannel`: each direction implements `Channel`, with its liveness: as long as
  nothing has failed and nobody has left, the next message arrives.

Properties of `server`:

- `AnswerFits`: a client gets only answers to the request it waits for, whatever
  connections it had before, and a failure only for `Get_Previous_Wallpaper`.
- `SuccessMeansDone` (action property): the step that answers with a success has
  made exactly the change that the request names, a creation with exactly the files of
  its directory.  For `Remove_Wallpaper` and `Mark_Favorate` it states what the code does
  instead: they answer with a success and change nothing (section 5).
- `StoppedIsStored`: when the server ends in order, with a wallpaper in some collection,
  exactly its collections are in the file.  A server whose file cannot be written ends
  `unsaved`, and one that a text that is not UTF-8 or a stale `m_current` ends while it
  stores has `crashed`; neither promises anything.
- `AnsweredUnlessRefused`: a request is answered or its connection is closed, except
  for a refused change of the library.
- `StopEnds`: once the clients are quiet, a server that is told to stop ends, and no
  client waits for it.  Without the hypothesis (`QuietAtLast`) the property fails: a
  client that goes on asking keeps `update` from returning, and the flag is not tested.

Properties of `service_stop`:

- `OnlyStopAccepted`: the branches of the control handler for the other controls are
  dead.
- `StoringComesLast`: when the stop event is set, the update thread has ended and
  `store_state()` was called after the last request that it served, unless STOP came
  before `m_exec` was assigned.
- `StopEnds`: a STOP at any time, even while the server starts or fails to start,
  ends the service, once the clients are quiet.

Why the bounds are enough: the operations look at no more than two collections at
a time, and three names leave one that is neither, before or after them in the
vector; two items give a collection with two copies of a wallpaper, by a merge or a
move, and `MergeLoop` merges up to three and three items; two wallpapers suffice for
an item that is and one that is not in a collection.  One crash in `changer_one` can be followed by any number of
further runs; a second crash adds no new kind of file.  In `rotation` two entries
are one wallpaper in two collections or two in one, and two draws.  In `queue` seven pushes of three
threads fill the queue beyond two calls of `update`, with pushes left to come while
the popper tests, falls asleep or wakes; in `connection` two messages in one direction
are what it takes to have one waiting behind a write and an empty one behind a full
one; in `server` the second request meets everything the first can leave behind, two
clients are one that leaves and one that stays, and pings at an empty queue
(`MaxBacklog` 0) are enough for requests that never end.  The bounds are conjuncts of
guards: `MaxItems` (items in a library), `MaxListing` (files in a directory),
`MaxCrashes`, `MaxLength`, `MaxAdds` (wallpapers entered), `MaxHistory`, `MaxPushes`,
`MaxSends` (messages of each end), `MaxRequests` (requests before there are only pings),
`MaxBacklog` and `MaxQueue` (requests that wait in the server and in the service).  `MaxMsg` is no bound but the
argument of `update`.  Theorems hold for all values.

Fairness, and why the code justifies it:

- `ConnectQueue`: a thread that can run runs at last (weak fairness), and who waits for
  a mutex gets it at last when it is free again and again (strong fairness: the mutexes
  of the platform do not starve a thread for ever).  Nothing forces a push, nor a
  spurious wake-up.
- `Connection`: the I/O threads run every handler that is ready and every posted
  function, and an operation fails at last when its own socket is closed or, over a link
  that works, the peer's is (`FindsOut`); a process that has abandoned its socket exits.
  Nothing forces an operation to fail on a broken link, a user to send or to disconnect,
  or the link to break.  `Channel` promises that a message arrives under weak fairness, while healthy.
- `ChangeServer`: the main thread and the clients run; nothing forces anybody to ask, to
  leave, or to stop the server.
- `ServiceControl`: each thread runs; `update` returns when it finds the queue empty, and
  nothing forces the clients to be quiet (`QuietAtLast` is a hypothesis of the
  properties), nor the service manager to send STOP.
- `Rotation`: draws are random, so an index that can be drawn for ever is drawn.
- `CacheLib` and `Changer` have no loop that could wait, and no fairness.

The deadlock check is off in three runs: `merge_loop` is a terminating loop, a
connection is over when both sockets are closed, and in `rotation` a process that
has crashed takes no further step.

## 4. What is proved

For every set of names, wallpapers, locations, directories, processes, clients and
threads, every hash function and every bound (assumptions: names and wallpapers are
numbers, location 0 exists, the values that stand for missing and unreadable files
are not documents, nobody is no thread and no client, what the server starts with
is a document with distinct names, a message has a body or none):

| module | theorems |
|---|---|
| `CacheLemmas` | `MergeKeepsItems`: a merge holds the items of both lists and no other |
| `CacheLibProofs` | `TypeCorrect`, `NamesStayUnique`, `NonEmptyStaysMarked`, `AgreementStaysKept`; `LibraryIsShelf`: `cache_lib` implements `Shelf`; `MergeTypeCorrect`, `ClosedFormIsTheLoop`, `MergeOrder`, `LoadingIsTheLoop`: `MergeLoop` for lists of any length |
| `ChangerProofs` | `TypeCorrect`, `StaysWellFormed`, `LostStaysLost`, `OnlyRemovalsLose` for any number of processes and crashes; `OneFileAlwaysSurvives`, `PathsStayKnownOnDisk`, `ValidateAlwaysAnswers`, `AlwaysSaved` for processes that do not overlap (`Alone`: any two processes are equal) |
| `ConnectQueueProofs` | `TypeCorrect`, `LocksAreOwned`, `PopsAreSafe`, `OrderIsKept`, `NeverCircular` |
| `ConnectionProofs` | `TypeSafe`, `WritesOneAtATime`, `NoGreeting`, `FramesAgree`, `ArrivesInOrder` for any hash; `Validated` for a hash that no body shares with the empty one; `EndsAreChannels`: both directions implement the safety part of `Channel` |
| `RotationProofs` | `TypeSafe`, `FindsTheDirectory`, `MarkedWereShown`, `EntriesComeUpOnce`, `ShownWithItsHash` for any hash; `ShownWhereItIs` for directories with different hashes |
| `ChangeServerProofs` | `TypeCorrect`, `AnswersFit`, `StoppedStaysStored`, `SuccessIsDone`, `NothingIsUnasked`, `OnlyRemoveLoses` |
| `ServiceControlProofs` | `TypeCorrect`, `OnlyStopIsAccepted`, `StoringCameLast`, `StopNeverHangs` |

The arguments.

*The library.*  Typing is not inductive by itself: `Min` of an empty set is no
number, so an operation keeps the type only because its lookup succeeds, and
`LibLoad` gives back marked collections only from items that are typed.  The
inductive invariant of `CacheLib` is `lib \in SoundLibrary`: the type, distinct
names, and every collection marked unless empty.  Distinct names are what makes
"the first match" well behaved: replacing the cache of one entry (`UpdateIsSound`),
appending (`AppendIsSound`) and erasing (`EraseIsSound`) preserve soundness, and
each operation is a combination of the three.  That `Distinct` is a sequence of items
rests on `RankOnto` (in a finite set of naturals every rank up to the cardinality is
taken).

*The merge.*  `Merged` puts every item at its own position plus the number of items
of the other list that come before it.  These numbers never decrease, so the two
maps interleave (`Interleaving`): the positions taken from one list are exactly those
that the other one leaves free (`PositionsDiffer`, `PositionsFill`), and every
position of the result holds an item of one of the lists.

*The loops.*  That `Merged` is what the loop of `std::ranges::merge` writes needs an
invariant of the two cursors (`Cursors`): each item of the right before its cursor is
written before the item at the left cursor, and no item of the left before its cursor
is written after the item at the right one.  With it the position of the next item is
the place that the loop writes to (`LeftMoves`, `RightMoves`; that the larger of two
items exists is `ItemOrder`, the total order of the defaulted `<=>`).  Once the vector
is `Merged`, its order is a fact about positions (`PositionsOrdered`), sorted or not.
The insertion loop has loaded, after n items, the first occurrences among them
(`Taken`), which grows exactly when `insert_elem` inserts (`TakenGrows`) and ends as
`Distinct`.  The inductive invariant is `MergeInv`.

*What an operation does.*  `CacheLemmas` has one lemma per operation of `cache_lib`
that says which wallpapers the collections hold afterwards (`Held`): the operation
leaves them as they are (`Stays`), or has one effect out of eight (`Creates`, `Puts`,
`Merges`, `Moves`, ...).  The merge is `MergeKeepsItems`, saving and loading are the
lemma that `Distinct` drops no item.  Three results are drawn from these lemmas.
`LibraryIsShelf`: each effect is an action of `Shelf`.  `OnlyRemovalsLose`: of the
commands of `Changer` only a removal that succeeds makes the set of all wallpapers
smaller, and only a creation or an addition makes it larger (`Spares`); writing the
library stores the set that the process has (`SavedWallpapers`) and loading gives it
back (`LoadedWallpapers`).  A process that overlaps with another one may still store
over what that one has stored; it stores what it had itself.  `NothingIsUnasked`: in
`ChangeServer` the effect is the one that the kind of the request names, and its
client is told (`AskedFor`, `TellsOfSuccess`), which needs the invariant of the server;
`OnlyRemoveLoses` follows.

*The program.*  `Changer` uses the same lemmas once per process; its invariant `Sound`
adds `SoundDocuments` on disk.  The two theorems about unreadable files use invariants
over the places of the processes: `FilesInv` (who is past loading a file knows it is
whole) and `Stuck` (an unreadable file keeps everybody from passing the loading).
`LocsInv` follows the directories of a process alone: those of its library are in its
path table, the table only grows, what is in an unmarked table is on disk, and after
the path table is stored so is all the library refers to.  That no operation brings
in a directory by itself is one lemma each (`MergeWithin` rests on `MergedItems`).
`AlwaysSaved` combines `OpenedInv` (the library is still empty when its text is
written) with `WallpapersAreMarked` (`modified()` has one answer).

*The queue.*  The inductive invariant is the type, `LocksMatch` (who owns a mutex is
inside it) and the two properties; `PopsSomething` needs that only the popper removes.
`NeverCircular` follows from `LocksMatch`: who owns `m_blocking_mutex` waits for no
mutex, and who owns `m_queue_mutex` for no other than that one.

*The connection.*  The inductive invariant speaks of each end for itself (what its two
threads can be doing, `OneWriteAtATime`) and of each direction as a whole: from the
reader's buffer over the network to the queue of the writer there is one unbroken
series of headers and bodies, which starts with what the reader waits for
(`ReaderAt`) and ends with what the writer still has to write (`QueuedFrom`, `WriterAt`).
`FramesMatch` is its first link.  What has arrived has the headers that were sent, in
their order, and the bodies too, but for an empty message behind one that is not: that
one has the body before it (`Arrived`, `ArrivesInOrder`).  Such a message fails the
validation unless its hash, that of the empty body, is the hash of that body; so
`Validated` has the hypothesis `NoCollision`, which says that no body has the CRC32 of
the empty one, as in the instance.  For `EndsAreChannels` the mapping takes what was
sent from the numbers of the messages, and every step appends at most one message.

*The rotation.*  Every item of every collection is good: it was entered from a directory
that the table has, and it has been shown if it is used or a favourite.  An operation on
the library keeps that, because each item comes from an item that was there (`Comes`:
an injection from the places after the operation to those before it, but for the places
that were newly filled).  The same injections count: of the items that can still be
drawn for a wallpaper none multiplies, an entry adds one and a draw takes one away,
so that those shown and those to come are never more than the entries
(`ShownOncePerEntry` is inductive with the rest).  Good also means that the item's number
is the CRC32 of a directory that the wallpaper was entered from, which merging and moving
keep since they take the number along (`ShownWithItsHash`).  That what is shown was entered
from the very directory given with it needs that no two directories have one CRC32
(`ShownWhereItIs`).

*The service.*  `StoringComesLast` needs to know, for each place of `service_main` and of
the handler, which flags are set and whether the update thread can still run; that
joining waits for the thread is used once, and so is that a store comes after it.
`StopNeverHangs` is the safety half of `StopEnds` (`WaitInv`): the event exists before
the service manager can send STOP, so that nobody resets it once it is set, and the
thread that is joined or waited for has been created.

*The server.*  The invariant consists of soundness of the library, what the main thread
and the stop flag allow, at most one request of a client in the queue (`Pending`),
`AnswerFits` and `Stored`.  `AnswerFits` is not inductive without `Pending`: an answer
to a queued request needs that the queued request is the one its client waits for.
`SuccessIsDone` follows from the invariant and the effect of each operation: one that
reports a success has the effect that the request names (`Done`, `ServeDone`); only the
main thread gives answers (`OthersAreSilent`).  `StoppedStaysStored` combines `Stored`
with the fact that a library with a wallpaper has a marked collection, so that
`modified()` has one answer.  `NothingIsUnasked` is its converse.

Only model-checked: all liveness, since the prover does not reason about fairness
(the liveness of `Channel` included).  Every safety invariant and every action property
of a passing run is a theorem.  The five theorems `OnlyRemovalsLose`, `NothingIsUnasked`,
`OnlyRemoveLoses`, `NeverCircular` and `StopNeverHangs` state properties of their own,
which are defined next to them in the proof modules.

## 5. Findings

Shown by a run:

1. `current_is_active`: `remove()` and `merge_cache()` leave `m_current` behind.
   `tests/test_cache_library.cpp:66-67` expects the activated collection.
2. `overlap_validate`: two overlapping runs leave a library and a path table that
   do not fit, and `validate` then terminates the program.
3. `stop_unreported`: the control handler fills the shared status again after it has
   set the stop event, and may overwrite the STOPPED that `service_main` is about to
   report (`service.cpp:94`).

Read in the code while modelling; the models do what the code does, and the
properties above are stated so as to hold of it:

- Library: inserting an existing name reports `cache_does_not_exists`
  (`wall_cache_library.cpp:48`).  The removal of the only collection is never saved,
  as `modified()` is false for an empty library (`:147`).  With only empty collections
  `modified()` reads behind the vector (`:150`), and a created one may not be saved.
- Saving: a file that cannot be opened for writing is skipped (`wall_cache_library.cpp:231`)
  or written to unchecked (`path_table.cpp:54`), so a first run without a data directory
  stores nothing and ends like one that did.  `dump()` throws on text that is not UTF-8
  when the file is already empty (`wall_cache_library.cpp:232`).
- Rotation: `next_wall` never shows the first wallpaper and can read behind the last
  (`wall_manager.cpp:54`); it loops for ever when every wallpaper it can draw is
  used (`:59`).  `previous_wall` returns the wallpaper that is shown now (`:81`), and
  `mark_favorate` looks in the collection at `m_current` (`:29-31`).  Two directories
  with one CRC32 share an entry of the table (`path_table.cpp:28`).
  A recursive creation enters the files of subdirectories under the hash of the root
  (`wall_manager.cpp:135`), where they are not.
- Connection: an empty message is queued with the body of the message before it
  (`connection.hpp:91`) and reported as "Message Corrupted".  `Client_Accepted` is
  dropped (`server_interface.hpp:63`).  `wait()` can sleep on a queue that is not empty
  (`connect_queue.hpp:69`).  Pulling a value from a message leaves its hash
  (`net_message.hpp:60`), so that a second pull is refused.
  No keepalive and no timeout is set, so a read on a half-open link may wait for ever;
  `disconnect()` of a client posts the close, stops the context and releases the
  connection, so that the close may never run (`client_interface.hpp:45-53`).
- Server: a request that fails is mostly not answered and its client polls for ever
  (`change_server.hpp:122`).  `Get_Current` draws another wallpaper (`:108`).  Used and
  favourite marks are set in copies (`change_state.cpp:23`, `:38`), and a removal of a
  wallpaper removes nothing and reports a success (`:194`).
  `update(-1)` tests the live queue again after every message (`server_interface.hpp:122`),
  so requests that keep coming keep the stop flag from being tested.  A client that is
  gone before `remote_endpoint()` (`server_interface.hpp:56`), or a body that is not CBOR
  (`change_server.hpp:75`), throws where nothing catches.
- Service: RUNNING is reported before the server starts, and stays if it does not
  (`service.cpp:38`).  The controls accepted at first are replaced (`:127`, comment at
  `:66`), so the branches for pause, continue and shutdown are never entered.  A STOP
  before `m_exec` is assigned stores the state while requests are still served
  (`change_service.hpp:33`).  `is_installed` finds nothing when the listing succeeds
  at once (`service.cpp:346`).

## 6. Not modelled, and the plan

Not modelled:

- parsing and printing (`wall_cmds.hpp`, `wall_app.cpp`), logging, timers, setting the
  wallpaper (`background_handler`), and the directories and strings of the platform
  (`helper.*`, `KnownFolders`): calls of the system, or pure, without state that the
  rest depends on;
- installing, deleting, listing and querying the service (`service_helper`): a call
  of the service manager each, with no state of the program between two of them;
- packing values into a message (`operator<<`, `operator>>`): a request is modelled by
  the values it carries, and the hash by its being equal or not;
- `message_client`, `message_all_client` and the operations of `connect_queue` that
  nothing in the repository calls;
- `history.json`, which is written and never read.

Left for later: the lemmas of `ChangerProofs` about locations (`Within`) and those of
`RotationProofs` (`Comes`) follow the same operations and could share one form, as the
lemmas about `Held` do.
