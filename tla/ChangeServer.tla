---------------------------- MODULE ChangeServer ----------------------------
(***************************************************************************)
(* The server process (change_service/service_main.cpp, change_server.hpp, *)
(* change_state.cpp) and its clients (change_app/change_client.hpp).  The  *)
(* server's I/O thread queues the requests of all connections; its main    *)
(* thread serves them one by one until it is told to stop, and then stores *)
(* its state.  A client sends one request over a connection of its own and *)
(* polls until it has an answer or loses the connection.                   *)
(*                                                                         *)
(* The code is written against an interface in which cache_lib hands out   *)
(* references to collections: `auto c = ....get()' copies the collection.  *)
(***************************************************************************)
EXTENDS Effects

CONSTANTS Clients,
          Start,         \* contents of libraries.json when the server starts
          NotUtf8,       \* names and wallpapers whose text dump() throws on
          MaxListing,    \* bound: files in a directory
          MaxRequests,   \* bound: requests, before clients only ping
          MaxBacklog     \* bound: requests in the queue when another ping comes

ASSUME ServerAssumption ==
    /\ \A doc \in Start : doc \in Documents /\ DistinctNames(doc.libraries)
    /\ NoString \notin Walls \cup Names
    /\ "nobody" \notin Clients
    /\ {MaxListing, MaxRequests, MaxBacklog} \subseteq Nat

VARIABLES server,        \* what the main thread does
          stop,          \* stop_server, set by the signal handler
          lib,           \* m_cache
          history,       \* m_previous: the wallpapers answered
          saved,         \* what libraries.json holds: a text, or none that is readable
          queue,         \* m_incomming
          client,        \* the request each client waits for, or "off"
          answer,        \* what has arrived for each client
          requests       \* requests so far, up to the bound

vars == <<server, stop, lib, history, saved, queue, client, answer, requests>>

state   == <<lib, history, saved>>
control == <<server, stop>>

(***************************************************************************)
(* Messages.  MessageType with the data of the request: two names of       *)
(* collections or one, a wallpaper, the files that the iterator finds in   *)
(* or below a directory.  Remove and List_Collections have two forms each. *)
(* The types that m_process ignores are one kind; so are the messages that *)
(* do not pass validate(), and those that pass but are not CBOR.           *)
(***************************************************************************)
NextKinds   == {"Get_Next_Wallpaper", "Get_Current"}
PlainKinds  == NextKinds \cup {"Get_Previous_Wallpaper", "Mark_Favorate", "List_Names",
                "List_Current", "Server_GetStatus", "Server_GetPing", "Client_Accepted",
                "Corrupted", "Undecodable"}
NamedKinds  == {"Change_Active_Collection", "Create_Empty", "Create_Collection", "Remove"}
PairKinds   == {"Rename_Collection", "Merge_Collection"}
WallKinds   == {"Add_To_Collection", "Remove_Wallpaper"}
Kinds       == PlainKinds \cup NamedKinds \cup PairKinds \cup WallKinds \cup {"Move"}

Request == [kind : Kinds, col : Strings, to : Strings, wall : Walls \cup {NoString},
            files : Listings(MaxListing)]

Requests ==
    {r \in Request :
        /\ (r.col = NoString) = (r.kind \in PlainKinds)
        /\ (r.to = NoString) = (r.kind \notin PairKinds \cup {"Move"})
        /\ (r.wall = NoString) = (r.kind \notin WallKinds \cup {"Move"})
        /\ r.kind # "Create_Collection" => r.files = <<>>}

Answer   == [type : Kinds \cup {"Status_Success", "Status_Failure"},
             wall : Walls \cup {NoString}]
NoAnswer == [type |-> "none", wall |-> NoString]

Content(l) == [i \in DOMAIN l.vec |-> [name |-> l.vec[i].name, items |-> l.vec[i].cache.items]]

Init ==
    /\ server = "starting" /\ stop = FALSE
    /\ \E doc \in Start : lib = LibLoad(doc)
    /\ history = <<>> /\ saved = <<Content(lib)>>
    /\ queue = <<>> /\ requests = 0
    /\ client = [c \in Clients |-> "off"]
    /\ answer = [c \in Clients |-> NoAnswer]

Up == server \in {"testing", "updating", "storing"}

-----------------------------------------------------------------------------
\* A client connects and asks; its request is queued with its connection.
\* After MaxRequests requests clients may still ask for ever, with pings.
Ask(c, r) ==
    /\ Up /\ client[c] = "off"
    /\ \/ requests < MaxRequests /\ requests' = requests + 1
       \/ /\ requests = MaxRequests /\ r.kind = "Server_GetPing"
          /\ Len(queue) <= MaxBacklog
          /\ UNCHANGED requests
    /\ client' = [client EXCEPT ![c] = r.kind]
    /\ queue' = Append(queue, [from |-> c, req |-> r])
    /\ UNCHANGED <<control, state, answer>>

\* Mutant of Orphaned: an answer goes to the next connection of that client.
OrphanedNot(c) == queue

\* What a connection that is closed has sent is served all the same.
Orphaned(c) ==
    [i \in DOMAIN queue |->
        IF queue[i].from = c THEN [queue[i] EXCEPT !.from = "nobody"] ELSE queue[i]]

Ends(c) ==
    /\ client' = [client EXCEPT ![c] = "off"]
    /\ answer' = [answer EXCEPT ![c] = NoAnswer]
    /\ UNCHANGED <<control, state, requests>>

\* Every type that the server answers with ends run().
Receive(c) ==
    /\ answer[c] # NoAnswer
    /\ Ends(c)
    /\ UNCHANGED queue

\* The user interrupts a client that waits.
Leave(c) ==
    /\ client[c] # "off"
    /\ Ends(c)
    /\ queue' = Orphaned(c)

\* run() sees that the connection is gone, also when an answer is in its queue.
GivesUp(c) ==
    /\ client[c] # "off" /\ ~ Up
    /\ Ends(c)
    /\ UNCHANGED queue

-----------------------------------------------------------------------------
\* The request at the head of the queue has been served.
Served(l, h) ==
    /\ lib' = l /\ history' = h
    /\ queue' = Tail(queue)
    /\ UNCHANGED <<control, saved, client, requests>>

\* send_message drops what goes to a closed connection.
Reply(type, wall, l, h) ==
    /\ Served(l, h)
    /\ answer' = LET c == Head(queue).from
                 IN  IF c = "nobody" THEN answer
                     ELSE [answer EXCEPT ![c] = [type |-> type, wall |-> wall]]

NoReply(l) == Served(l, history) /\ UNCHANGED answer

\* A noexcept function throws, or behaves in an undefined way.
Terminates ==
    /\ server' = "crashed"
    /\ queue' = <<>>
    /\ UNCHANGED <<stop, state, client, answer, requests>>

\* Mutant of Changed: every request is a success.
ChangedAlways(r) == Reply("Status_Success", NoString, r.lib, history)

\* Only a success is answered.
Changed(r) ==
    IF r.err = "Success" THEN Reply("Status_Success", NoString, r.lib, history)
                         ELSE NoReply(r.lib)

-----------------------------------------------------------------------------
(***************************************************************************)
(* The state: what its operations on the library report and leave.         *)
(***************************************************************************)
ActiveItems == lib.vec[LibFind(lib, lib.active)].cache.items

\* The wallpapers that get_next_wallpaper can draw.  The state is changed in a
\* copy of the collection, so that it stays unused.
NextWallpapers ==
    IF LibExists(lib, lib.active)
      THEN {ActiveItems[i].value :
               i \in {j \in 2..Len(ActiveItems) : ActiveItems[j].state = "unused"}}
      ELSE {}

RecentIsCurrent ==
    /\ history # <<>> /\ lib.current < Len(lib.vec)
    /\ CacheContains(lib.vec[lib.current + 1].cache, history[Len(history)])

ChangeActive(m)     == LibChangeActive(lib, m.col)
RenameCollection(m) == LibRename(lib, m.col, m.to)
MergeCollection(m)  == LibMerge(lib, m.col, m.to)
MoveCollection(m)   == LibMove(lib, m.col, m.to, m.wall)

CreateCollection(m) == LibInsert(lib, m.col, CacheOf(m.files, 0))

AddToCollection(m) ==
    IF LibExists(lib, m.col)
      THEN Ok([lib EXCEPT !.vec[LibFind(lib, m.col)].cache = CacheInsert(@, m.wall, 0)])
      ELSE Result("cache_does_not_exists", lib)

\* A wallpaper is not removed, only its collection looked up.
RemoveCollection(m) ==
    IF m.kind = "Remove_Wallpaper" THEN LibGetCache(lib, m.col) ELSE LibRemove(lib, m.col)

-----------------------------------------------------------------------------
(***************************************************************************)
(* m_process.                                                              *)
(***************************************************************************)
\* An index behind the last wallpaper throws, which ends the process; so does a
\* missing active collection, for which nothing is returned.
ServeNext(m) ==
    /\ m.kind \in NextKinds
    /\ \/ Terminates
       \/ \E w \in NextWallpapers :
             Reply(m.kind, w, LibGetCache(lib, lib.active).lib, Append(history, w))

\* Mutant of ServePrevious: without a history there is no answer.
ServePreviousSilent(m) ==
    /\ m.kind = "Get_Previous_Wallpaper"
    /\ IF history = <<>> THEN NoReply(lib)
       ELSE Reply(m.kind, history[Len(history)], lib, SubSeq(history, 1, Len(history) - 1))

ServePrevious(m) ==
    /\ m.kind = "Get_Previous_Wallpaper"
    /\ IF history = <<>> THEN Reply("Status_Failure", NoString, lib, history)
       ELSE Reply(m.kind, history[Len(history)], lib, SubSeq(history, 1, Len(history) - 1))

\* The favourite is marked in a copy as well.  Without a history, or when the
\* wallpaper is not in the current collection, what is written does not exist.
ServeFavorate(m) ==
    /\ m.kind = "Mark_Favorate"
    /\ \/ history # <<>> /\ Reply("Status_Success", NoString, lib, history)
       \/ ~ RecentIsCurrent /\ Terminates

\* The names, or the current collection.
ServeList(m) ==
    \/ m.kind = "List_Names" /\ Reply(m.kind, NoString, lib, history)
    \/ /\ m.kind = "List_Current"
       /\ IF lib.current < Len(lib.vec) THEN Reply(m.kind, NoString, lib, history)
          ELSE Terminates

ServeActivate(m) == m.kind = "Change_Active_Collection" /\ Changed(ChangeActive(m))
ServeAdd(m)      == m.kind = "Add_To_Collection" /\ Changed(AddToCollection(m))
ServeRename(m)   == m.kind = "Rename_Collection" /\ Changed(RenameCollection(m))
ServeMerge(m)    == m.kind = "Merge_Collection" /\ Changed(MergeCollection(m))
ServeMove(m)     == m.kind = "Move" /\ Changed(MoveCollection(m))
ServeRemove(m)   == m.kind \in {"Remove", "Remove_Wallpaper"} /\ Changed(RemoveCollection(m))

\* The iterator throws when there is no such directory.
ServeCreate(m) ==
    \/ m.kind \in {"Create_Empty", "Create_Collection"} /\ Changed(CreateCollection(m))
    \/ m.kind = "Create_Collection" /\ Terminates

ServeStatus(m) ==
    m.kind \in {"Server_GetStatus", "Server_GetPing"} /\ Reply(m.kind, NoString, lib, history)

ServeIgnored(m) == m.kind = "Client_Accepted" /\ NoReply(lib)

\* on_message drops what validate() rejects.  What from_cbor throws leaves
\* m_process, update() and main.
ServeCorrupted(m)   == m.kind = "Corrupted" /\ NoReply(lib)
ServeUndecodable(m) == m.kind = "Undecodable" /\ Terminates

Serve ==
    /\ server = "updating" /\ queue # <<>>
    /\ LET m == Head(queue).req
       IN  \/ ServeNext(m) \/ ServePrevious(m) \/ ServeFavorate(m) \/ ServeList(m)
           \/ ServeActivate(m) \/ ServeCreate(m) \/ ServeAdd(m) \/ ServeRename(m)
           \/ ServeRemove(m) \/ ServeMerge(m) \/ ServeMove(m)
           \/ ServeStatus(m) \/ ServeIgnored(m) \/ ServeCorrupted(m) \/ ServeUndecodable(m)

-----------------------------------------------------------------------------
Goto(from, to) ==
    /\ server = from
    /\ server' = to
    /\ UNCHANGED <<stop, state, queue, client, answer, requests>>

StartServer == Goto("starting", "testing")
StartFails  == Goto("starting", "down")

\* Mutant of UpdateReturns: update() does not return before there is a message.
UpdateWaits == queue # <<>> /\ Goto("updating", "testing")

UpdateReturns == queue = <<>> /\ Goto("updating", "testing")

TestStop == Goto("testing", IF stop THEN "storing" ELSE "updating")

\* The signal handler.
Interrupt ==
    /\ Up /\ ~ stop
    /\ stop' = TRUE
    /\ UNCHANGED <<server, state, queue, client, answer, requests>>

(***************************************************************************)
(* store_state() writes the history and the path table, which no server    *)
(* reads back, and then the library, by opening its file anew; then main   *)
(* returns.                                                                *)
(***************************************************************************)
Leaves(to, file) ==
    /\ server = "storing"
    /\ server' = to
    /\ saved' = file
    /\ queue' = <<>>
    /\ UNCHANGED <<stop, lib, history, client, answer, requests>>

\* serialize() writes only if modified().
StoreNothing == FALSE \in LibModified(lib) /\ Leaves("down", saved)

LibraryText == LibNames(lib) \cup UNION {Held(lib)[n] : n \in LibNames(lib)}

Current(l) == l.current < Len(l.vec)

\* With a stale m_current some text is read behind the vector as the active name.
StoreLibrary ==
    /\ TRUE \in LibModified(lib) /\ LibraryText \cap NotUtf8 = {}
    /\ Leaves("down", <<Content(lib)>>)

\* The file cannot be opened, or not be written; nobody hears of it.
StoreFails ==
    /\ TRUE \in LibModified(lib)
    /\ \E file \in {saved, <<>>} : Leaves("unsaved", file)

\* dump() throws after the file has been emptied, and store_state() is noexcept.
\* What is read behind the vector need not be text either.
StoreThrows ==
    /\ TRUE \in LibModified(lib)
    /\ LibraryText \cap NotUtf8 # {} \/ ~ Current(lib)
    /\ Leaves("crashed", <<>>)

\* The process ends before it opens the library: by the read behind the vector,
\* or by a text of the history or a directory (which the model leaves out) that
\* is not UTF-8.
StoreEndsEarly == Leaves("crashed", saved)

StoreState ==
    StoreNothing \/ StoreLibrary \/ StoreFails \/ StoreThrows \/ StoreEndsEarly

ServerStep == Serve \/ UpdateReturns \/ TestStop \/ StoreState

\* The environment: clients and the user of the server.
AllOver == ~ Up /\ server # "starting" /\ (\A c \in Clients : client[c] = "off")

Terminated == AllOver /\ UNCHANGED vars

Next ==
    \/ StartServer \/ StartFails
    \/ ServerStep
    \/ Interrupt \/ Terminated
    \/ \E c \in Clients :
          \/ \E r \in Requests : Ask(c, r)
          \/ Receive(c) \/ Leave(c) \/ GivesUp(c)

\* The main thread runs, and so do the clients; nothing forces anybody to ask,
\* to leave or to stop the server.
Fairness ==
    /\ WF_vars(ServerStep)
    /\ \A c \in Clients : WF_vars(Receive(c)) /\ WF_vars(GivesUp(c))

Spec     == Init /\ [][Next]_vars
LiveSpec == Spec /\ Fairness

-----------------------------------------------------------------------------
TypeOK ==
    /\ server \in {"starting", "testing", "updating", "storing", "down", "unsaved", "crashed"}
    /\ stop \in BOOLEAN
    /\ lib \in Library /\ history \in Seq(Walls \cup {NoString})
    /\ saved \in {<<>>} \cup {<<text>> : text \in Seq([name : Names, items : Seq(Item)])}
    /\ queue \in Seq([from : Clients \cup {"nobody"}, req : Request])
    /\ client \in [Clients -> Kinds \cup {"off"}]
    /\ answer \in [Clients -> Answer \cup {NoAnswer}]
    /\ requests \in 0..MaxRequests

\* A client only ever gets an answer to the request it waits for, whatever other
\* connections it had before.
AnswerFits ==
    \A c \in Clients :
        answer[c] # NoAnswer =>
            /\ client[c] # "off"
            /\ answer[c].type \in {client[c], "Status_Success", "Status_Failure"}
            /\ answer[c].type = "Status_Failure" => client[c] = "Get_Previous_Wallpaper"

\* The library goes from l to r by the whole effect of the request m on the
\* wallpapers of every collection, and by nothing else.
AskedFor(m, l, r) ==
    \/ m.kind = "Change_Active_Collection" /\ Activates(l, r, m.col)
    \/ /\ m.kind \in {"Create_Empty", "Create_Collection"}
       /\ Creates(l, r, m.col, {m.files[i] : i \in DOMAIN m.files})
    \/ m.kind = "Add_To_Collection" /\ Puts(l, r, m.col, m.wall)
    \/ m.kind = "Remove" /\ Drops(l, r, m.col)
    \/ m.kind = "Rename_Collection" /\ Renames(l, r, m.col, m.to)
    \/ m.kind = "Merge_Collection" /\ Merges(l, r, m.col, m.to)
    \/ m.kind = "Move" /\ Moves(l, r, m.col, m.to, m.wall)

\* Requests that are answered with a success and never carried out.
NeverDone == {"Remove_Wallpaper", "Mark_Favorate"}

\* The step that gives client c its answer.
AnswersTo(c) == answer[c] = NoAnswer /\ answer'[c] # NoAnswer

\* A client that is told of a success knows what has become of the library: each
\* collection holds what the request asks for, and nothing else has changed.  Told
\* of a Remove_Wallpaper or a Mark_Favorate it knows that nothing was done.
SuccessMeansDone ==
    [][\A c \in Clients :
          AnswersTo(c) /\ answer'[c].type = "Status_Success" =>
             LET m == Head(queue).req
             IN  IF m.kind \in NeverDone THEN Stays(lib, lib') ELSE AskedFor(m, lib, lib')]_vars

\* When the server has stopped and its files could be opened and written, every
\* wallpaper it had is in libraries.json: modified() does not miss one.
StoppedIsStored ==
    server = "down" /\ HoldsWallpapers(lib) => saved = <<Content(lib)>>

\* What fails in these requests is answered, or ends the server.
AlwaysAnswered ==
    NextKinds \cup {"Get_Previous_Wallpaper", "Mark_Favorate", "List_Names", "List_Current",
                    "Server_GetStatus", "Server_GetPing", "Undecodable"}

Queued(c)  == \E i \in DOMAIN queue : queue[i].from = c
Refused(c) ==
    /\ client[c] \notin AlwaysAnswered \cup {"off"}
    /\ answer[c] = NoAnswer /\ ~ Queued(c)

\* A request is answered or the connection is closed, but for a request to change
\* the library, which may be refused without a word, and for what is dropped.
AnsweredUnlessRefused ==
    \A c \in Clients : (client[c] # "off" /\ Queued(c)) ~> client[c] = "off" \/ Refused(c)

\* A server that is told to stop ends, and then no client waits any more, once the
\* clients are quiet: as long as they ask, if only with pings, update(-1) finds its
\* queue filled and need not return to the loop that tests stop_server.
QuietAtLast == <>[][\A c \in Clients : client[c] = "off" => client'[c] = "off"]_client

StopEnds == QuietAtLast => (stop ~> AllOver)
=============================================================================
