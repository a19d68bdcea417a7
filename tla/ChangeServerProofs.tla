-------------------------- MODULE ChangeServerProofs --------------------------
(***************************************************************************)
(* Properties of the server for any number of clients and requests: every  *)
(* answer goes to the client that asked, a success says what has been      *)
(* changed, and a server that stops without a fault has stored its         *)
(* wallpapers.  The library is sound throughout, which is what makes       *)
(* modified() say yes as soon as there is a wallpaper to store.            *)
(***************************************************************************)
EXTENDS ChangeServer, CacheLemmas

QueueEntry == [from : Clients \cup {"nobody"}, req : Requests]

\* What the main thread has.
StateOK ==
    /\ lib \in SoundLibrary
    /\ history \in Seq(Walls \cup {NoString})
    /\ saved \in {<<>>} \cup {<<text>> : text \in Seq([name : Names, items : Seq(Item)])}

\* What the threads share, and what the clients have.
ControlOK ==
    /\ server \in {"starting", "testing", "updating", "storing", "down", "unsaved", "crashed"}
    /\ stop \in BOOLEAN
    /\ queue \in Seq(QueueEntry)
    /\ client \in [Clients -> Kinds \cup {"off"}]
    /\ answer \in [Clients -> Answer \cup {NoAnswer}]
    /\ requests \in 0..MaxRequests

\* While the server is up, a queued request is the one that its client waits for,
\* has no answer yet and is the only one of that client.
Asked(i) ==
    queue[i].from # "nobody" =>
        /\ client[queue[i].from] = queue[i].req.kind
        /\ answer[queue[i].from] = NoAnswer

AskedOnce ==
    \A i, j \in DOMAIN queue :
        queue[i].from = queue[j].from /\ queue[i].from # "nobody" => i = j

Pending ==
    /\ server = "starting" => queue = <<>>
    /\ Up => AskedOnce /\ \A i \in DOMAIN queue : Asked(i)

\* The file agrees with the library before the server runs and after it has stored
\* it without a fault.
Stored ==
    /\ server = "starting" => saved = <<Content(lib)>>
    /\ StoppedIsStored

Inv == StateOK /\ ControlOK /\ Pending /\ AnswerFits /\ Stored

-----------------------------------------------------------------------------
LEMMA ContentType ==
    ASSUME NEW l \in SoundLibrary
    PROVE  Content(l) \in Seq([name : Names, items : Seq(Item)])
<1>1. \A i \in DOMAIN l.vec : Content(l)[i] \in [name : Names, items : Seq(Item)]
  BY SoundEntries DEF Content, MarkedEntry, MarkedCache, Cache
<1>2. DOMAIN Content(l) = 1..Len(l.vec) /\ Len(l.vec) \in Nat
  BY SoundEntries DEF Content
<1>3. Content(l) \in [1..Len(l.vec) -> [name : Names, items : Seq(Item)]]
  BY <1>1, <1>2, SoundEntries DEF Content
<1>. QED
  BY <1>2, <1>3, FunctionIsSeq

LEMMA RequestTypes ==
    ASSUME NEW r \in Requests
    PROVE  /\ r.kind \in Kinds /\ r.kind # "off"
           /\ r.kind \notin PlainKinds => r.col \in Names
           /\ r.kind \in PairKinds \cup {"Move"} => r.to \in Names
           /\ r.kind \in WallKinds \cup {"Move"} => r.wall \in Walls
<1>1. r \in Request
  BY DEF Requests
<1>2. r.kind \in Kinds /\ "off" \notin Kinds
  BY <1>1 DEF Request, Kinds, PlainKinds, NextKinds, NamedKinds, PairKinds, WallKinds
<1>. QED
  BY <1>1, <1>2 DEF Requests, Request, Strings

LEMMA NoAnswerIsNone == NoAnswer \notin Answer /\ "none" \notin Kinds
<1>1. "none" \notin Kinds
  BY DEF Kinds, PlainKinds, NextKinds, NamedKinds, PairKinds, WallKinds
<1>. QED
  BY <1>1 DEF NoAnswer, Answer

LEMMA InitInv == Init => Inv
<1> SUFFICES ASSUME Init PROVE Inv
  OBVIOUS
<1>1. lib \in SoundLibrary
  BY ServerAssumption, LoadSound DEF Init, SoundDocuments
<1>2. StateOK
  BY <1>1, ContentType, EmptySeq DEF Init, StateOK
<1>3. ControlOK
  <2>1. 0 \in 0..MaxRequests
    BY ServerAssumption
  <2>2. queue \in Seq(QueueEntry)
    BY EmptySeq DEF Init
  <2>. QED
    BY <2>1, <2>2 DEF Init, ControlOK
<1>4. Pending /\ AnswerFits /\ Stored
  BY DEF Init, Pending, AnswerFits, Stored, StoppedIsStored, Up
<1>. QED
  BY <1>2, <1>3, <1>4 DEF Inv

-----------------------------------------------------------------------------
(***************************************************************************)
(* The clients.                                                            *)
(***************************************************************************)
LEMMA QueueFacts ==
    ASSUME ControlOK
    PROVE  /\ Len(queue) \in Nat /\ DOMAIN queue = 1..Len(queue)
           /\ \A i \in DOMAIN queue : queue[i] \in QueueEntry
BY LenProperties, ElementOfSeq DEF ControlOK

\* Nothing that a client does touches the main thread.
LEMMA ClientKeepsStored ==
    ASSUME Inv, UNCHANGED <<control, state>>
    PROVE  StateOK' /\ Stored'
BY DEF Inv, StateOK, Stored, StoppedIsStored, Content, HoldsWallpapers, control, state

LEMMA AskInv ==
    ASSUME Inv, NEW c \in Clients, NEW r \in Requests, Ask(c, r)
    PROVE  Inv'
<1>. DEFINE e == [from |-> c, req |-> r]
<1>1. /\ Up /\ client[c] = "off"
      /\ client' = [client EXCEPT ![c] = r.kind]
      /\ queue' = Append(queue, e)
      /\ (requests < MaxRequests /\ requests' = requests + 1) \/ requests' = requests
      /\ server' = server /\ stop' = stop /\ UNCHANGED state /\ answer' = answer
  BY DEF Ask, control
<1>2. StateOK' /\ Stored'
  BY <1>1, ClientKeepsStored DEF control
<1>3. r.kind \in Kinds /\ r.kind # "off"
  BY RequestTypes
<1>4. e \in QueueEntry /\ e.from = c /\ e.req = r
  BY DEF QueueEntry
<1>. HIDE DEF e
<1>5. /\ queue' \in Seq(QueueEntry) /\ Len(queue') = Len(queue) + 1
      /\ \A i \in 1..Len(queue) : queue'[i] = queue[i]
      /\ queue'[Len(queue) + 1] = e
  BY <1>1, <1>4, AppendProperties DEF Inv, ControlOK
<1>6. ControlOK'
  BY <1>1, <1>3, <1>5, ServerAssumption DEF Inv, ControlOK
<1>7. answer[c] = NoAnswer
  BY <1>1 DEF Inv, AnswerFits
<1>8. \A i \in DOMAIN queue : queue[i].from # c
  BY <1>1, <1>3, QueueFacts, RequestTypes, ServerAssumption DEF Inv, Pending, Asked, QueueEntry
<1>9. DOMAIN queue' = 1..(Len(queue) + 1) /\ Len(queue) \in Nat /\ DOMAIN queue = 1..Len(queue)
  BY <1>5, LenProperties, QueueFacts DEF Inv
<1>10. \A i \in DOMAIN queue' : (i \in DOMAIN queue /\ queue'[i] = queue[i])
                              \/ (i = Len(queue) + 1 /\ queue'[i] = e)
  BY <1>5, <1>9
<1>11. AskedOnce'
  BY <1>1, <1>4, <1>8, <1>10 DEF Inv, Pending, AskedOnce
<1>12. \A i \in DOMAIN queue' : Asked(i)'
  <2>. SUFFICES ASSUME NEW i \in DOMAIN queue' PROVE Asked(i)'
    OBVIOUS
  <2>1. CASE i \in DOMAIN queue /\ queue'[i] = queue[i]
    <3>1. Asked(i)
      BY <1>1, <2>1 DEF Inv, Pending
    <3>2. queue[i].from # c
      BY <1>8, <2>1
    <3>3. client \in [Clients -> Kinds \cup {"off"}]
      BY DEF Inv, ControlOK
    <3>4. queue[i].from \in Clients \cup {"nobody"}
      BY <2>1, QueueFacts DEF Inv, QueueEntry
    <3>. QED
      BY <1>1, <2>1, <3>1, <3>2, <3>3, <3>4 DEF Asked
  <2>2. CASE i = Len(queue) + 1 /\ queue'[i] = e
    BY <1>1, <1>4, <1>7, <2>2 DEF Asked, Inv, ControlOK
  <2>. QED
    BY <1>10, <2>1, <2>2
<1>13. Pending'
  BY <1>1, <1>11, <1>12 DEF Pending, Up
<1>14. AnswerFits'
  BY <1>1, <1>7 DEF Inv, ControlOK, AnswerFits
<1>. QED
  BY <1>2, <1>6, <1>13, <1>14 DEF Inv

LEMMA EndsFits ==
    ASSUME Inv, NEW c \in Clients, Ends(c)
    PROVE  /\ StateOK' /\ Stored' /\ AnswerFits'
           /\ server' = server /\ stop' = stop /\ requests' = requests
           /\ client' \in [Clients -> Kinds \cup {"off"}]
           /\ answer' \in [Clients -> Answer \cup {NoAnswer}]
           /\ \A d \in Clients \ {c} : client'[d] = client[d] /\ answer'[d] = answer[d]
<1>1. UNCHANGED <<control, state>> /\ requests' = requests
  BY DEF Ends
<1>2. StateOK' /\ Stored'
  BY <1>1, ClientKeepsStored
<1>. QED
  BY <1>1, <1>2 DEF Ends, Inv, ControlOK, AnswerFits, control

\* An answered client has nothing in the queue any more.
LEMMA ReceiveInv ==
    ASSUME Inv, NEW c \in Clients, Receive(c)
    PROVE  Inv'
<1>1. answer[c] # NoAnswer /\ queue' = queue /\ Ends(c)
  BY DEF Receive
<1>. USE EndsFits, <1>1
<1>2. Up => \A i \in DOMAIN queue : queue[i].from # c
  BY ServerAssumption DEF Inv, Pending, Asked
<1>3. \A i \in DOMAIN queue : queue[i].from \in Clients \cup {"nobody"}
  BY QueueFacts DEF Inv, QueueEntry
<1>4. Pending'
  BY <1>2, <1>3 DEF Inv, Pending, AskedOnce, Asked, Up
<1>5. ControlOK'
  BY DEF Inv, ControlOK
<1>. QED
  BY <1>4, <1>5 DEF Inv

LEMMA LeaveInv ==
    ASSUME Inv, NEW c \in Clients, Leave(c)
    PROVE  Inv'
<1>1. queue' = Orphaned(c) /\ Ends(c)
  BY DEF Leave
<1>. USE EndsFits, <1>1
<1>2. /\ DOMAIN queue' = DOMAIN queue
      /\ \A i \in DOMAIN queue :
            /\ queue'[i] \in QueueEntry
            /\ queue[i].from = c => queue'[i].from = "nobody"
            /\ queue[i].from # c => queue'[i] = queue[i]
  BY QueueFacts DEF Orphaned, Inv, QueueEntry
<1>3. queue' \in Seq(QueueEntry)
  <2>1. queue' \in [1..Len(queue) -> QueueEntry] /\ Len(queue) \in Nat
    BY <1>2, QueueFacts DEF Orphaned, Inv
  <2>. QED
    BY <2>1, FunctionIsSeq
<1>4. \A i \in DOMAIN queue : queue[i].from \in Clients \cup {"nobody"}
  BY QueueFacts DEF Inv, QueueEntry
<1>5. server = "starting" => queue' = <<>>
  BY DEF Inv, Pending, Orphaned
<1>6. Pending'
  BY <1>2, <1>4, <1>5 DEF Inv, Pending, AskedOnce, Asked, Up
<1>7. ControlOK'
  BY <1>3 DEF Inv, ControlOK
<1>. QED
  BY <1>6, <1>7 DEF Inv

LEMMA GivesUpInv ==
    ASSUME Inv, NEW c \in Clients, GivesUp(c)
    PROVE  Inv'
<1>1. ~ Up /\ queue' = queue /\ Ends(c)
  BY DEF GivesUp
<1>. USE EndsFits, <1>1
<1>2. Pending'
  BY DEF Inv, Pending, Up
<1>3. ControlOK'
  BY DEF Inv, ControlOK
<1>. QED
  BY <1>2, <1>3 DEF Inv

-----------------------------------------------------------------------------
(***************************************************************************)
(* The main thread.  What every handler comes to: the process ends, or the *)
(* request is taken off the queue and answered in kind or not at all, with *)
(* a sound library left behind.                                            *)
(***************************************************************************)
Types(kind) ==
    {kind, "Status_Success"} \cup {t \in {"Status_Failure"} : kind = "Get_Previous_Wallpaper"}

Handled(m) ==
    /\ lib' \in SoundLibrary /\ history' \in Seq(Walls \cup {NoString})
    /\ queue' = Tail(queue)
    /\ UNCHANGED <<control, saved, client, requests>>
    /\ \/ UNCHANGED answer
       \/ \E type \in Types(m.kind), wall \in Walls \cup {NoString} :
             LET c == Head(queue).from
             IN  answer' = IF c = "nobody" THEN answer
                           ELSE [answer EXCEPT ![c] = [type |-> type, wall |-> wall]]

LEMMA ReplyHandles ==
    ASSUME NEW m, NEW type \in Types(m.kind), NEW wall \in Walls \cup {NoString},
           NEW l \in SoundLibrary, NEW h \in Seq(Walls \cup {NoString}),
           Reply(type, wall, l, h)
    PROVE  Handled(m)
BY DEF Reply, Served, Handled

LEMMA NoReplyHandles ==
    ASSUME NEW m, NEW l \in SoundLibrary, history \in Seq(Walls \cup {NoString}), NoReply(l)
    PROVE  Handled(m)
BY DEF NoReply, Served, Handled

LEMMA ChangedHandles ==
    ASSUME NEW m, NEW r, r.lib \in SoundLibrary, StateOK, Changed(r)
    PROVE  Handled(m)
<1>1. "Status_Success" \in Types(m.kind)
  BY DEF Types
<1>. QED
  BY <1>1, ReplyHandles, NoReplyHandles DEF Changed, StateOK

LEMMA ServeNextHandles ==
    ASSUME StateOK, NEW m \in Requests, ServeNext(m)
    PROVE  Terminates \/ Handled(m)
<1> SUFFICES ASSUME NEW w \in NextWallpapers,
                    Reply(m.kind, w, LibGetCache(lib, lib.active).lib, Append(history, w))
             PROVE  Handled(m)
  BY DEF ServeNext
<1>. DEFINE p == LibFind(lib, lib.active)
<1>1. LibExists(lib, lib.active) /\ w \in {ActiveItems[i].value : i \in 2..Len(ActiveItems)}
  BY DEF NextWallpapers
<1>2. p \in DOMAIN lib.vec /\ lib.vec[p].cache \in MarkedCache /\ lib.active \in Names
  BY <1>1, LibFindFinds, SoundEntries DEF StateOK, MarkedEntry
<1>3. ActiveItems \in Seq(Item)
  BY <1>2 DEF ActiveItems, MarkedCache, Cache
<1>4. \A i \in 2..Len(ActiveItems) : ActiveItems[i] \in Item
  BY <1>3, LenProperties, ElementOfSeq
<1>5. w \in Walls \cup {NoString}
  BY <1>1, <1>4 DEF Item
<1>6. Append(history, w) \in Seq(Walls \cup {NoString})
  BY <1>5, AppendProperties DEF StateOK
<1>7. LibGetCache(lib, lib.active).lib \in SoundLibrary
  BY <1>2, GetCacheSound DEF StateOK
<1>8. m.kind \in Types(m.kind)
  BY DEF Types
<1>. QED
  BY <1>5, <1>6, <1>7, <1>8, ReplyHandles

LEMMA ServePreviousHandles ==
    ASSUME StateOK, NEW m \in Requests, ServePrevious(m)
    PROVE  Handled(m)
<1>1. m.kind \in Types(m.kind) /\ "Status_Failure" \in Types(m.kind)
  BY DEF Types, ServePrevious
<1>2. Len(history) \in Nat /\ \A i \in 1..Len(history) : history[i] \in Walls \cup {NoString}
  BY LenProperties, ElementOfSeq DEF StateOK
<1>3. CASE history = <<>>
  BY <1>1, <1>3, ReplyHandles DEF ServePrevious, StateOK
<1>4. CASE history # <<>>
  <2>1. Len(history) \in Nat \ {0}
    BY <1>4, EmptySeq DEF StateOK
  <2>2. SubSeq(history, 1, Len(history) - 1) \in Seq(Walls \cup {NoString})
    BY <1>2, <2>1, SubSeqProperties
  <2>3. history[Len(history)] \in Walls \cup {NoString}
    BY <1>2, <2>1
  <2>. QED
    BY <1>1, <1>4, <2>2, <2>3, ReplyHandles DEF ServePrevious, StateOK
<1>. QED
  BY <1>3, <1>4

LEMMA AddToSound ==
    ASSUME StateOK, NEW m \in Requests, m.kind = "Add_To_Collection"
    PROVE  AddToCollection(m).lib \in SoundLibrary
<1>1. m.col \in Names /\ m.wall \in Walls
  BY RequestTypes DEF PlainKinds, NextKinds, WallKinds
<1>2. CASE LibExists(lib, m.col)
  BY <1>1, <1>2, AddSound, LocsAssumption DEF StateOK, AddToCollection, Ok, Result
<1>3. CASE ~ LibExists(lib, m.col)
  BY <1>3 DEF StateOK, AddToCollection, Result
<1>. QED
  BY <1>2, <1>3

LEMMA ServeChangesHandle ==
    ASSUME StateOK, NEW m \in Requests,
           \/ ServeActivate(m) \/ ServeAdd(m) \/ ServeRename(m) \/ ServeMerge(m)
           \/ ServeMove(m) \/ ServeRemove(m)
    PROVE  Handled(m)
<1>. USE DEF StateOK
<1>1. CASE ServeActivate(m)
  <2>1. m.col \in Names
    BY <1>1, RequestTypes DEF ServeActivate, PlainKinds, NextKinds
  <2>. QED
    BY <1>1, <2>1, ChangeActiveSound, ChangedHandles DEF ServeActivate, ChangeActive
<1>2. CASE ServeAdd(m)
  BY <1>2, AddToSound, ChangedHandles DEF ServeAdd
<1>3. CASE ServeRename(m)
  <2>1. m.col \in Names /\ m.to \in Names
    BY <1>3, RequestTypes DEF ServeRename, PlainKinds, NextKinds, PairKinds
  <2>. QED
    BY <1>3, <2>1, RenameSound, ChangedHandles DEF ServeRename, RenameCollection
<1>4. CASE ServeMerge(m)
  <2>1. m.col \in Names /\ m.to \in Names
    BY <1>4, RequestTypes DEF ServeMerge, PlainKinds, NextKinds, PairKinds
  <2>. QED
    BY <1>4, <2>1, MergeSound, ChangedHandles DEF ServeMerge, MergeCollection
<1>5. CASE ServeMove(m)
  <2>1. m.col \in Names /\ m.to \in Names /\ m.wall \in Walls
    BY <1>5, RequestTypes DEF ServeMove, PlainKinds, NextKinds
  <2>. QED
    BY <1>5, <2>1, MoveSound, ChangedHandles DEF ServeMove, MoveCollection
<1>6. CASE ServeRemove(m)
  <2>1. m.col \in Names
    BY <1>6, RequestTypes DEF ServeRemove, PlainKinds, NextKinds
  <2>2. RemoveCollection(m).lib \in SoundLibrary
    BY <2>1, RemoveSound, GetCacheSound DEF RemoveCollection
  <2>. QED
    BY <1>6, <2>2, ChangedHandles DEF ServeRemove
<1>. QED
  BY <1>1, <1>2, <1>3, <1>4, <1>5, <1>6

LEMMA ServeCreateHandles ==
    ASSUME StateOK, NEW m \in Requests, ServeCreate(m)
    PROVE  Terminates \/ Handled(m)
<1>1. m.col \in Names /\ m.files \in Listings(MaxListing)
  BY RequestTypes DEF ServeCreate, PlainKinds, NextKinds, Requests, Request
<1>2. CacheOf(m.files, 0) \in MarkedCache
  BY <1>1, LocsAssumption, ServerAssumption, CacheOfMarked
<1>3. CreateCollection(m).lib \in SoundLibrary
  BY <1>1, <1>2, InsertSound DEF StateOK, CreateCollection
<1>. QED
  BY <1>3, ChangedHandles DEF ServeCreate

LEMMA ServeHandles ==
    ASSUME Inv, Serve
    PROVE  /\ server = "updating" /\ queue # <<>> /\ Head(queue) \in QueueEntry
           /\ Terminates \/ Handled(Head(queue).req)
<1>. DEFINE m == Head(queue).req
<1>1. server = "updating" /\ queue # <<>> /\ Head(queue) \in QueueEntry
  BY HeadTailProperties DEF Serve, Inv, ControlOK
<1>2. m \in Requests /\ StateOK
  BY <1>1 DEF QueueEntry, Inv
<1>3. /\ lib \in SoundLibrary /\ history \in Seq(Walls \cup {NoString})
      /\ m.kind \in Types(m.kind) /\ "Status_Success" \in Types(m.kind)
  BY <1>2 DEF StateOK, Types
<1>. HIDE DEF m
<1>4. ServeFavorate(m) => Terminates \/ Handled(m)
  BY <1>3, ReplyHandles DEF ServeFavorate
<1>5. ServeList(m) => Terminates \/ Handled(m)
  BY <1>3, ReplyHandles DEF ServeList
<1>6. ServeStatus(m) => Handled(m)
  BY <1>3, ReplyHandles DEF ServeStatus
<1>7. ServeIgnored(m) \/ ServeCorrupted(m) => Handled(m)
  BY <1>3, NoReplyHandles DEF ServeIgnored, ServeCorrupted
<1>8. Terminates \/ Handled(m)
  BY <1>2, <1>4, <1>5, <1>6, <1>7, ServeNextHandles, ServePreviousHandles,
     ServeChangesHandle, ServeCreateHandles DEF Serve, ServeUndecodable, m
<1>. QED
  BY <1>1, <1>8 DEF m

LEMMA TerminatesInv ==
    ASSUME Inv, Terminates
    PROVE  Inv'
<1>1. <<>> \in Seq(QueueEntry)
  BY EmptySeq
<1>. QED
  BY <1>1 DEF Terminates, state, Inv, StateOK, ControlOK, Pending, AskedOnce, Asked, Up,
        AnswerFits, Stored, StoppedIsStored

LEMMA HandledInv ==
    ASSUME Inv, server = "updating", queue # <<>>, Head(queue) \in QueueEntry,
           Handled(Head(queue).req)
    PROVE  Inv'
<1>. DEFINE c == Head(queue).from
            m == Head(queue).req
<1>1. /\ queue' = Tail(queue) /\ queue' \in Seq(QueueEntry)
      /\ Len(queue') = Len(queue) - 1 /\ \A i \in 1..Len(queue') : queue'[i] = queue[i + 1]
      /\ Len(queue) \in Nat \ {0} /\ DOMAIN queue' = 1..Len(queue')
  BY HeadTailProperties, EmptySeq, LenProperties DEF Inv, ControlOK, Handled
<1>2. /\ 1 \in DOMAIN queue /\ Head(queue) = queue[1]
      /\ \A i \in DOMAIN queue' : i + 1 \in DOMAIN queue /\ i + 1 # 1
                                 /\ queue'[i] = queue[i + 1]
  BY <1>1, QueueFacts DEF Inv
<1>3. /\ server' = server /\ stop' = stop /\ saved' = saved
      /\ client' = client /\ requests' = requests
  BY DEF Handled, control
<1>4. StateOK'
  BY <1>3 DEF Handled, Inv, StateOK
<1>5. Stored'
  BY <1>3 DEF Stored, StoppedIsStored
<1>6. /\ c \in Clients \cup {"nobody"} /\ m.kind \in Kinds /\ m.kind # "off"
      /\ c # "nobody" => client[c] = m.kind
  BY <1>2, RequestTypes DEF QueueEntry, Inv, Pending, Asked, Up
<1>7. /\ answer' \in [Clients -> Answer \cup {NoAnswer}]
      /\ \A d \in Clients : d # c => answer'[d] = answer[d]
      /\ c # "nobody" => \/ answer'[c] = answer[c]
                         \/ \E type \in Types(m.kind) : answer'[c].type = type
  <2>1. CASE UNCHANGED answer
    BY <2>1 DEF Inv, ControlOK
  <2>2. CASE c = "nobody" /\ answer' = answer
    BY <2>2 DEF Inv, ControlOK
  <2>3. ASSUME NEW type \in Types(m.kind), NEW wall \in Walls \cup {NoString},
               c # "nobody", answer' = [answer EXCEPT ![c] = [type |-> type, wall |-> wall]]
        PROVE  <1>7!1 /\ <1>7!2 /\ <1>7!3
    <3>. DEFINE a == [type |-> type, wall |-> wall]
    <3>1. a \in Answer /\ a.type = type
      BY <1>6 DEF Answer, Types
    <3>. HIDE DEF a
    <3>. QED
      BY <1>6, <2>3, <3>1 DEF Inv, ControlOK, a
  <2>. QED
    BY <2>1, <2>2, <2>3 DEF Handled
<1>8. ControlOK'
  BY <1>1, <1>3, <1>7 DEF Inv, ControlOK
<1>9. Up /\ server # "starting"
  BY DEF Up
<1>. HIDE DEF c, m
<1>10. Pending'
  <2>1. AskedOnce'
    BY <1>1, <1>2, <1>9 DEF Inv, Pending, AskedOnce
  <2>2. ASSUME NEW i \in DOMAIN queue'
        PROVE  Asked(i)'
    <3>1. Asked(i + 1) /\ (queue[i + 1].from # "nobody" => queue[i + 1].from # c)
      BY <1>2, <1>9 DEF Inv, Pending, AskedOnce, c
    <3>2. queue'[i].from \in Clients \cup {"nobody"}
      BY <1>2, QueueFacts DEF Inv, QueueEntry
    <3>. QED
      BY <1>2, <1>3, <1>7, <3>1, <3>2 DEF Asked
  <2>. QED
    BY <1>3, <1>9, <2>1, <2>2 DEF Pending, Up
<1>11. AnswerFits'
  <2> SUFFICES ASSUME NEW d \in Clients, answer'[d] # NoAnswer
               PROVE  /\ client[d] # "off"
                      /\ answer'[d].type \in {client[d], "Status_Success", "Status_Failure"}
                      /\ answer'[d].type = "Status_Failure" => client[d] = "Get_Previous_Wallpaper"
    BY <1>3 DEF AnswerFits
  <2>1. CASE answer'[d] = answer[d]
    BY <2>1 DEF Inv, AnswerFits
  <2>2. CASE answer'[d] # answer[d]
    <3>1. d = c /\ c # "nobody"
      BY <1>7, <2>2, ServerAssumption
    <3>2. \E type \in Types(m.kind) : answer'[c].type = type
      BY <1>7, <2>2, <3>1
    <3>3. "Status_Failure" \notin Kinds
      BY DEF Kinds, PlainKinds, NextKinds, NamedKinds, PairKinds, WallKinds
    <3>. QED
      BY <1>6, <3>1, <3>2, <3>3 DEF Types
  <2>. QED
    BY <2>1, <2>2
<1>. QED
  BY <1>4, <1>5, <1>8, <1>10, <1>11 DEF Inv

LEMMA GotoInv ==
    ASSUME Inv, NEW from \in {"starting", "testing", "updating"},
           NEW to \in {"testing", "updating", "storing", "down"}, Goto(from, to),
           from = "starting" => to \in {"testing", "down"},
           to = "down" => from = "starting"
    PROVE  Inv'
<1>1. /\ server = from /\ server' = to /\ stop' = stop /\ UNCHANGED state
      /\ queue' = queue /\ client' = client /\ answer' = answer /\ requests' = requests
  BY DEF Goto
<1>2. StateOK' /\ ControlOK' /\ AnswerFits'
  BY <1>1 DEF Inv, StateOK, ControlOK, AnswerFits, state
<1>3. Stored'
  BY <1>1 DEF Inv, Stored, StoppedIsStored, state, Content, HoldsWallpapers
<1>4. Pending'
  <2>1. CASE from = "starting"
    <3>1. queue' = <<>> /\ DOMAIN queue' = {}
      BY <1>1, <2>1 DEF Inv, Pending
    <3>. QED
      BY <1>1, <3>1 DEF Pending, AskedOnce
  <2>2. CASE from # "starting"
    BY <1>1, <2>2 DEF Inv, Pending, AskedOnce, Asked, Up
  <2>. QED
    BY <2>1, <2>2
<1>. QED
  BY <1>2, <1>3, <1>4 DEF Inv

\* However storing ends, the file is not touched unless the library is marked.
LEMMA StoreInv ==
    ASSUME Inv, StoreState
    PROVE  Inv'
<1>1. /\ UNCHANGED <<stop, lib, history, client, answer, requests>> /\ queue' = <<>>
      /\ server' \in {"down", "unsaved", "crashed"}
      /\ saved' \in {saved, <<>>, <<Content(lib)>>}
      /\ server' = "down" /\ HoldsWallpapers(lib) => saved' = <<Content(lib)>>
  <2>1. HoldsWallpapers(lib) => FALSE \notin LibModified(lib)
    BY WallpapersAreMarked DEF Inv, StateOK
  <2>2. CASE StoreNothing
    BY <2>1, <2>2 DEF StoreNothing, Leaves
  <2>3. CASE StoreLibrary
    BY <2>3 DEF StoreLibrary, Leaves
  <2>4. CASE StoreFails \/ StoreThrows \/ StoreEndsEarly
    BY <2>4 DEF StoreFails, StoreThrows, StoreEndsEarly, Leaves
  <2>. QED
    BY <2>2, <2>3, <2>4 DEF StoreState
<1>2. Stored'
  BY <1>1 DEF Stored, StoppedIsStored, Content, HoldsWallpapers
<1>3. StateOK'
  BY <1>1, ContentType DEF Inv, StateOK
<1>4. <<>> \in Seq(QueueEntry)
  BY EmptySeq
<1>5. ControlOK' /\ Pending' /\ AnswerFits'
  BY <1>1, <1>4 DEF Inv, ControlOK, Pending, Up, AnswerFits
<1>. QED
  BY <1>2, <1>3, <1>5 DEF Inv

LEMMA NextInv == Inv /\ [Next]_vars => Inv'
<1> SUFFICES ASSUME Inv, [Next]_vars PROVE Inv'
  OBVIOUS
<1>1. CASE StartServer
  BY <1>1, GotoInv DEF StartServer
<1>2. CASE StartFails
  BY <1>2, GotoInv DEF StartFails
<1>3. CASE Serve
  BY <1>3, ServeHandles, TerminatesInv, HandledInv
<1>4. CASE UpdateReturns
  BY <1>4, GotoInv DEF UpdateReturns
<1>5. CASE TestStop
  BY <1>5, GotoInv DEF TestStop
<1>6. CASE StoreState
  BY <1>6, StoreInv
<1>7. CASE Interrupt
  <2>1. /\ stop' = TRUE /\ server' = server /\ UNCHANGED state
        /\ queue' = queue /\ client' = client /\ answer' = answer /\ requests' = requests
    BY <1>7 DEF Interrupt
  <2>2. StateOK' /\ ControlOK' /\ Pending' /\ AnswerFits'
    BY <2>1 DEF Inv, StateOK, ControlOK, AnswerFits, Pending, AskedOnce, Asked, Up, state
  <2>3. Stored'
    BY <2>1 DEF Inv, Stored, StoppedIsStored, state, Content, HoldsWallpapers
  <2>. QED
    BY <2>2, <2>3 DEF Inv
<1>8. CASE UNCHANGED vars
  <2>1. UNCHANGED <<server, stop, lib, history, saved, queue, client, answer, requests>>
    BY <1>8 DEF vars
  <2>2. StateOK' /\ ControlOK' /\ Pending' /\ AnswerFits'
    BY <2>1 DEF Inv, StateOK, ControlOK, AnswerFits, Pending, AskedOnce, Asked, Up
  <2>3. Stored'
    BY <2>1 DEF Inv, Stored, StoppedIsStored, Content, HoldsWallpapers
  <2>. QED
    BY <2>2, <2>3 DEF Inv
<1>9. ASSUME NEW c \in Clients, NEW r \in Requests, Ask(c, r)
      PROVE  Inv'
  BY <1>9, AskInv
<1>10. ASSUME NEW c \in Clients, Receive(c) \/ Leave(c) \/ GivesUp(c)
       PROVE  Inv'
  BY <1>10, ReceiveInv, LeaveInv, GivesUpInv
<1>. QED
  BY <1>1, <1>2, <1>3, <1>4, <1>5, <1>6, <1>7, <1>8, <1>9, <1>10
  DEF Next, ServerStep, Terminated

-----------------------------------------------------------------------------
(***************************************************************************)
(* What m_process does to the library: what the request at the head of the *)
(* queue asks for, told of by a success, or nothing.                       *)
(***************************************************************************)
\* The client that asked, unless it has gone, is told so in the same step.
TellsOfSuccess ==
    LET c == Head(queue).from
    IN  c # "nobody" => answer[c] = NoAnswer /\ answer'[c].type = "Status_Success"

ChangesAsAsked ==
    \/ Stays(lib, lib')
    \/ /\ queue # <<>> /\ queue' = Tail(queue)
       /\ AskedFor(Head(queue).req, lib, lib')
       /\ TellsOfSuccess

NothingUnasked == [][ChangesAsAsked]_vars

\* What a success for the request m says of the step from l to r.
Done(m, l, r) == IF m.kind \in NeverDone THEN Stays(l, r) ELSE AskedFor(m, l, r)

\* A result of the request m: no change, or a success and what it says.
Fits(m, r) == IF r.err = "Success" THEN Done(m, lib, r.lib) ELSE Stays(lib, r.lib)

\* Nothing is changed, and a success is told only for a Mark_Favorate.
Idles(m) ==
    /\ Stays(lib, lib')
    /\ \A c \in Clients :
          AnswersTo(c) /\ answer'[c].type = "Status_Success" => m.kind = "Mark_Favorate"

LEMMA ChangedAsAsked ==
    ASSUME Inv, Serve, NEW r, Changed(r), Fits(Head(queue).req, r)
    PROVE  ChangesAsAsked
<1>1. queue # <<>> /\ Head(queue) \in QueueEntry /\ server = "updating"
  BY ServeHandles
<1>2. lib' = r.lib /\ queue' = Tail(queue)
  BY DEF Changed, Reply, NoReply, Served
<1>3. CASE Stays(lib, r.lib)
  BY <1>2, <1>3 DEF ChangesAsAsked
<1>4. CASE r.err = "Success" /\ AskedFor(Head(queue).req, lib, r.lib)
  <2>. DEFINE c == Head(queue).from
  <2>1. ASSUME c # "nobody"
        PROVE  answer[c] = NoAnswer /\ answer'[c].type = "Status_Success"
    <3>1. c \in Clients
      BY <1>1, <2>1 DEF QueueEntry
    <3>2. 1 \in DOMAIN queue /\ queue[1] = Head(queue)
      BY <1>1, QueueFacts DEF Inv, ControlOK
    <3>3. Up
      BY <1>1 DEF Up
    <3>4. answer[c] = NoAnswer
      BY <2>1, <3>2, <3>3 DEF Inv, Pending, Asked
    <3>5. answer' = [answer EXCEPT ![c] = [type |-> "Status_Success", wall |-> NoString]]
      BY <1>4, <2>1 DEF Changed, Reply
    <3>. QED
      BY <3>1, <3>4, <3>5 DEF Inv, ControlOK
  <2>. QED
    BY <1>1, <1>2, <1>4, <2>1 DEF ChangesAsAsked, TellsOfSuccess
<1>. QED
  BY <1>3, <1>4 DEF Fits, Done

LEMMA ChangesFit ==
    ASSUME StateOK, NEW m \in Requests
    PROVE  /\ m.kind = "Change_Active_Collection" => Fits(m, ChangeActive(m))
           /\ m.kind = "Add_To_Collection" => Fits(m, AddToCollection(m))
           /\ m.kind = "Rename_Collection" => Fits(m, RenameCollection(m))
           /\ m.kind = "Merge_Collection" => Fits(m, MergeCollection(m))
           /\ m.kind = "Move" => Fits(m, MoveCollection(m))
           /\ m.kind \in {"Remove", "Remove_Wallpaper"} => Fits(m, RemoveCollection(m))
<1>1. lib \in SoundLibrary
  BY DEF StateOK
<1>2. ASSUME NEW r, NEW guard, r.err = "Success" <=> guard, m.kind \notin NeverDone,
             IF guard THEN AskedFor(m, lib, r.lib) ELSE Stays(lib, r.lib)
      PROVE  Fits(m, r)
  BY <1>2, Zenon DEF Fits, Done
<1>3. ASSUME m.kind = "Change_Active_Collection" PROVE Fits(m, ChangeActive(m))
  <2>. DEFINE r == LibChangeActive(lib, m.col)
              guard == m.col \in LibNames(lib)
  <2>1. m.col \in Names
    BY <1>3, RequestTypes DEF PlainKinds, NextKinds
  <2>2. r.err = "Success" <=> guard
    BY NamesAre DEF LibChangeActive, Ok, Result
  <2>3. IF guard THEN Activates(lib, r.lib, m.col) ELSE Stays(lib, r.lib)
    BY <1>1, <2>1, ChangeActiveHeld
  <2>. HIDE DEF r, guard
  <2>4. Fits(m, r)
    BY <1>2, <1>3, <2>2, <2>3 DEF AskedFor, NeverDone
  <2>. QED
    BY <2>4 DEF ChangeActive, r
<1>4. ASSUME m.kind = "Add_To_Collection" PROVE Fits(m, AddToCollection(m))
  <2>1. m.col \in Names /\ m.wall \in Walls
    BY <1>4, RequestTypes DEF PlainKinds, NextKinds, WallKinds
  <2>2. CASE LibExists(lib, m.col)
    <3>. DEFINE u == [lib EXCEPT !.vec[LibFind(lib, m.col)].cache = CacheInsert(@, m.wall, 0)]
    <3>1. Puts(lib, u, m.col, m.wall)
      BY <1>1, <2>1, <2>2, LocsAssumption, AddHeld
    <3>2. AddToCollection(m) = Ok(u)
      BY <2>2 DEF AddToCollection
    <3>. HIDE DEF u
    <3>. QED
      BY <1>4, <3>1, <3>2 DEF Fits, Done, NeverDone, AskedFor, Ok, Result
  <2>3. CASE ~ LibExists(lib, m.col)
    BY <2>3 DEF AddToCollection, Result, Fits, Stays
  <2>. QED
    BY <2>2, <2>3
<1>5. ASSUME m.kind = "Rename_Collection" PROVE Fits(m, RenameCollection(m))
  <2>. DEFINE r == LibRename(lib, m.col, m.to)
              guard == m.col \in LibNames(lib) /\ m.to \notin LibNames(lib)
  <2>1. m.col \in Names /\ m.to \in Names
    BY <1>5, RequestTypes DEF PlainKinds, NextKinds, PairKinds
  <2>2. r.err = "Success" <=> guard
    BY NamesAre DEF LibRename, Ok, Result
  <2>3. IF guard THEN Renames(lib, r.lib, m.col, m.to) ELSE Stays(lib, r.lib)
    BY <1>1, <2>1, RenameHeld
  <2>. HIDE DEF r, guard
  <2>4. Fits(m, r)
    BY <1>2, <1>5, <2>2, <2>3 DEF AskedFor, NeverDone
  <2>. QED
    BY <2>4 DEF RenameCollection, r
<1>6. ASSUME m.kind = "Merge_Collection" PROVE Fits(m, MergeCollection(m))
  <2>. DEFINE r == LibMerge(lib, m.col, m.to)
              guard == m.col # m.to /\ {m.col, m.to} \subseteq LibNames(lib)
  <2>1. m.col \in Names /\ m.to \in Names
    BY <1>6, RequestTypes DEF PlainKinds, NextKinds, PairKinds
  <2>2. r.err = "Success" <=> guard
    BY NamesAre DEF LibMerge, Ok, Result
  <2>3. IF guard THEN Merges(lib, r.lib, m.col, m.to) ELSE Stays(lib, r.lib)
    BY <1>1, <2>1, MergeHeld
  <2>. HIDE DEF r, guard
  <2>4. Fits(m, r)
    BY <1>2, <1>6, <2>2, <2>3 DEF AskedFor, NeverDone
  <2>. QED
    BY <2>4 DEF MergeCollection, r
<1>7. ASSUME m.kind = "Move" PROVE Fits(m, MoveCollection(m))
  <2>. DEFINE r == LibMove(lib, m.col, m.to, m.wall)
              names == {m.col, m.to} \subseteq LibNames(lib)
              guard == /\ m.col # m.to /\ m.to # m.wall /\ {m.col, m.to} \subseteq LibNames(lib)
                       /\ m.wall \in Held(lib)[m.col]
  <2>1. m.col \in Names /\ m.to \in Names /\ m.wall \in Walls
    BY <1>7, RequestTypes DEF PlainKinds, NextKinds
  <2>2. names <=> LibExists(lib, m.col) /\ LibExists(lib, m.to)
    BY NamesAre
  <2>3. names => (m.wall \in Held(lib)[m.col]
                     <=> CacheContains(lib.vec[LibFind(lib, m.col)].cache, m.wall))
    BY <1>1, ContainsIsHeld
  <2>4. r.err = "Success" <=> guard
    BY <2>2, <2>3 DEF LibMove, Ok, Result
  <2>5. IF guard THEN Moves(lib, r.lib, m.col, m.to, m.wall) ELSE Stays(lib, r.lib)
    BY <1>1, <2>1, MoveHeld
  <2>. HIDE DEF r, guard
  <2>6. Fits(m, r)
    BY <1>2, <1>7, <2>4, <2>5 DEF AskedFor, NeverDone
  <2>. QED
    BY <2>6 DEF MoveCollection, r
<1>8. ASSUME m.kind \in {"Remove", "Remove_Wallpaper"} PROVE Fits(m, RemoveCollection(m))
  <2>. DEFINE r == LibRemove(lib, m.col)
              guard == m.col \in LibNames(lib)
  <2>1. m.col \in Names
    BY <1>8, RequestTypes DEF PlainKinds, NextKinds
  <2>2. r.err = "Success" <=> guard
    BY NamesAre DEF LibRemove, Ok, Result
  <2>3. IF guard THEN Drops(lib, r.lib, m.col) ELSE Stays(lib, r.lib)
    BY <1>1, <2>1, RemoveHeld
  <2>. HIDE DEF r, guard
  <2>4. m.kind = "Remove" => Fits(m, r)
    BY <1>2, <2>2, <2>3 DEF AskedFor, NeverDone
  <2>5. m.kind = "Remove_Wallpaper" => Fits(m, LibGetCache(lib, m.col))
    BY <1>1, <2>1, GetCacheHeld DEF Fits, Done, NeverDone
  <2>. QED
    BY <1>8, <2>4, <2>5 DEF RemoveCollection, r
<1>. QED
  BY <1>3, <1>4, <1>5, <1>6, <1>7, <1>8

\* A collection is created with the files of the request, each of them once.
LEMMA CreateFits ==
    ASSUME StateOK, NEW m \in Requests, m.kind \in {"Create_Empty", "Create_Collection"}
    PROVE  Fits(m, CreateCollection(m))
<1>. DEFINE c == CacheOf(m.files, 0)
            r == LibInsert(lib, m.col, c)
<1>1. m.col \in Names /\ m.files \in Listings(MaxListing) /\ m.kind \notin NeverDone
  BY RequestTypes DEF PlainKinds, NextKinds, NeverDone, Requests, Request
<1>2. c \in MarkedCache
  BY <1>1, LocsAssumption, ServerAssumption, CacheOfMarked
<1>3. Values(c.items) = {m.files[i] : i \in DOMAIN m.files}
  <2>1. /\ DOMAIN c.items = DOMAIN m.files
        /\ \A i \in DOMAIN m.files : c.items[i].value = m.files[i]
    BY DEF CacheOf
  <2>. QED
    BY <2>1, ValuesAre
<1>. HIDE DEF c
<1>4. IF m.col \in LibNames(lib) THEN Stays(lib, r.lib)
      ELSE Creates(lib, r.lib, m.col, Values(c.items))
  BY <1>1, <1>2, InsertHeld DEF StateOK
<1>5. r.err = "Success" <=> m.col \notin LibNames(lib)
  BY NamesAre DEF LibInsert, Ok, Result
<1>. HIDE DEF r
<1>6. Fits(m, r)
  BY <1>1, <1>3, <1>4, <1>5 DEF Fits, Done, AskedFor
<1>. QED
  BY <1>6 DEF CreateCollection, r, c

LEMMA ReplyIdles ==
    ASSUME Inv, Serve, NEW m, NEW type, NEW wall, NEW l, NEW h, Reply(type, wall, l, h),
           Stays(lib, l), type = "Status_Success" => m.kind = "Mark_Favorate"
    PROVE  Idles(m)
<1>1. lib' = l
  BY DEF Reply, Served
<1>2. ASSUME NEW c \in Clients, AnswersTo(c) PROVE answer'[c].type = type
  BY <1>2 DEF Reply, AnswersTo, Inv, ControlOK
<1>. QED
  BY <1>1, <1>2 DEF Idles

LEMMA QuietIdles ==
    ASSUME NEW m, lib' = lib, answer' = answer
    PROVE  Idles(m)
BY DEF Idles, AnswersTo, Stays

LEMMA ServeIdlesOrChanges ==
    ASSUME Inv, Serve, NEW m \in Requests, m = Head(queue).req
    PROVE  Idles(m) \/ \E r : Changed(r) /\ Fits(m, r)
<1>1. StateOK
  BY DEF Inv
<1>2. Terminates \/ NoReply(lib) => Idles(m)
  BY QuietIdles DEF Terminates, NoReply, Served, state
<1>3. ASSUME NEW type, NEW wall, NEW h, Reply(type, wall, lib, h),
             type = "Status_Success" => m.kind = "Mark_Favorate"
      PROVE  Idles(m)
  BY <1>3, ReplyIdles DEF Stays
<1>4. CASE ServeNext(m)
  <2>1. ASSUME NEW w \in NextWallpapers,
               Reply(m.kind, w, LibGetCache(lib, lib.active).lib, Append(history, w))
        PROVE  Idles(m)
    <3>1. LibExists(lib, lib.active) /\ lib \in SoundLibrary
      BY <1>1, <2>1 DEF NextWallpapers, StateOK
    <3>2. lib.active \in Names
      BY <3>1, SoundEntries DEF LibExists, MarkedEntry
    <3>3. Stays(lib, LibGetCache(lib, lib.active).lib)
      BY <3>1, <3>2, GetCacheHeld
    <3>4. m.kind # "Status_Success"
      BY <1>4 DEF ServeNext, NextKinds
    <3>. QED
      BY <2>1, <3>3, <3>4, ReplyIdles
  <2>. QED
    BY <1>2, <1>4, <2>1 DEF ServeNext
<1>5. CASE ServePrevious(m)
  BY <1>3, <1>5 DEF ServePrevious
<1>6. CASE ServeFavorate(m)
  BY <1>2, <1>3, <1>6 DEF ServeFavorate
<1>7. CASE ServeList(m) \/ ServeStatus(m)
  BY <1>2, <1>3, <1>7 DEF ServeList, ServeStatus
<1>8. CASE ServeIgnored(m) \/ ServeCorrupted(m) \/ ServeUndecodable(m)
  BY <1>2, <1>8 DEF ServeIgnored, ServeCorrupted, ServeUndecodable
<1>9. CASE ServeActivate(m) \/ ServeAdd(m) \/ ServeRename(m) \/ ServeMerge(m)
           \/ ServeMove(m) \/ ServeRemove(m)
  BY <1>1, <1>9, ChangesFit
  DEF ServeActivate, ServeAdd, ServeRename, ServeMerge, ServeMove, ServeRemove
<1>10. CASE ServeCreate(m)
  BY <1>1, <1>2, <1>10, CreateFits DEF ServeCreate
<1>. QED
  BY <1>4, <1>5, <1>6, <1>7, <1>8, <1>9, <1>10 DEF Serve

LEMMA ServeAsAsked ==
    ASSUME Inv, Serve
    PROVE  ChangesAsAsked
<1>1. Head(queue).req \in Requests
  BY ServeHandles DEF QueueEntry
<1>. QED
  BY <1>1, ServeIdlesOrChanges, ChangedAsAsked DEF Idles, ChangesAsAsked

LEMMA ServeDone ==
    ASSUME Inv, Serve, NEW c \in Clients, AnswersTo(c), answer'[c].type = "Status_Success"
    PROVE  Done(Head(queue).req, lib, lib')
<1>. DEFINE m == Head(queue).req
<1>1. m \in Requests
  BY ServeHandles DEF QueueEntry
<1>2. CASE Idles(m)
  BY <1>2 DEF Idles, Done, NeverDone
<1>3. ASSUME NEW r, Changed(r), Fits(m, r) PROVE Done(m, lib, lib')
  <2>1. CASE r.err = "Success"
    BY <1>3, <2>1 DEF Changed, Reply, Served, Fits
  <2>2. CASE r.err # "Success"
    BY <1>3, <2>2 DEF Changed, NoReply, AnswersTo
  <2>. QED
    BY <2>1, <2>2
<1>. QED
  BY <1>1, <1>2, <1>3, ServeIdlesOrChanges

\* Only the main thread gives answers; a client that ends takes its own away.
LEMMA OthersAreSilent ==
    ASSUME Inv, [Next]_vars, NEW c \in Clients, AnswersTo(c)
    PROVE  Serve
<1>. SUFFICES ASSUME ~ Serve PROVE FALSE
  OBVIOUS
<1>1. ASSUME NEW d \in Clients, Receive(d) \/ Leave(d) \/ GivesUp(d)
      PROVE  FALSE
  <2>1. Ends(d)
    BY <1>1 DEF Receive, Leave, GivesUp
  <2>2. answer' = [answer EXCEPT ![d] = NoAnswer] /\ answer \in [Clients -> Answer \cup {NoAnswer}]
    BY <2>1 DEF Ends, Inv, ControlOK
  <2>. QED
    BY <2>2 DEF AnswersTo
<1>2. answer' # answer
  BY DEF AnswersTo
<1>3. ~ (\E d \in Clients : \E r \in Requests : Ask(d, r))
  BY <1>2 DEF Ask
<1>4. ~ (StartServer \/ StartFails \/ UpdateReturns \/ TestStop)
  BY <1>2 DEF StartServer, StartFails, UpdateReturns, TestStop, Goto
<1>5. ~ (StoreState \/ Interrupt \/ Terminated) /\ ~ UNCHANGED vars
  BY <1>2 DEF StoreState, StoreNothing, StoreLibrary, StoreFails, StoreThrows, StoreEndsEarly,
              Leaves, Interrupt, Terminated, vars
<1>. QED
  BY <1>1, <1>3, <1>4, <1>5 DEF Next, ServerStep

-----------------------------------------------------------------------------
\* The inductive invariant holds throughout.
THEOREM AlwaysInOrder == Spec => []Inv
<1>1. Init => Inv
  BY InitInv
<1>2. Inv /\ [Next]_vars => Inv'
  BY NextInv
<1>. QED
  BY <1>1, <1>2, PTL DEF Spec

\* Whatever clients come, leave and come back, no client gets an answer that
\* was meant for another request: m_process answers in kind to the connection
\* that the request came from, which is its own.
THEOREM AnswersFit == Spec => []AnswerFits
<1>1. Inv => AnswerFits
  BY DEF Inv
<1>. QED
  BY <1>1, AlwaysInOrder, PTL

\* A server that has stopped, by start() failing or by the signal, has every
\* wallpaper it knows in libraries.json, unless the file could not be opened or
\* written or storing has terminated the process.
THEOREM StoppedStaysStored == Spec => []StoppedIsStored
<1>1. Inv => StoppedIsStored
  BY DEF Inv, Stored
<1>. QED
  BY <1>1, AlwaysInOrder, PTL

\* The library, the queue and the answers keep their types.
THEOREM TypeCorrect == Spec => []TypeOK
<1>1. Inv => TypeOK
  <2> SUFFICES ASSUME Inv PROVE TypeOK
    OBVIOUS
  <2>1. lib \in Library
    BY SoundIsTyped DEF Inv, StateOK
  <2>2. QueueEntry \subseteq [from : Clients \cup {"nobody"}, req : Request]
    BY DEF QueueEntry, Requests
  <2>3. queue \in Seq([from : Clients \cup {"nobody"}, req : Request])
    BY <2>2, SeqMonotonic DEF Inv, ControlOK
  <2>. QED
    BY <2>1, <2>3 DEF Inv, StateOK, ControlOK, TypeOK
<1>. QED
  BY <1>1, AlwaysInOrder, PTL

\* A client that is told Status_Success knows the whole change of the library in
\* the step that answers it: for each kind of request the contents of every
\* collection and the active name, and for two kinds that nothing was done.
THEOREM SuccessIsDone == Spec => SuccessMeansDone
<1>1. Inv /\ [Next]_vars
         => [\A c \in Clients :
                AnswersTo(c) /\ answer'[c].type = "Status_Success" =>
                   LET m == Head(queue).req
                   IN  IF m.kind \in NeverDone THEN Stays(lib, lib')
                       ELSE AskedFor(m, lib, lib')]_vars
  BY OthersAreSilent, ServeDone DEF Done
<1>. QED
  BY <1>1, AlwaysInOrder, PTL DEF Spec, SuccessMeansDone
LEMMA NextAsAsked == Inv /\ [Next]_vars => ChangesAsAsked
<1>. SUFFICES ASSUME Inv, [Next]_vars, ~ Serve PROVE lib' = lib
  BY ServeAsAsked DEF ChangesAsAsked, Stays
<1>1. ASSUME NEW c \in Clients, (\E r \in Requests : Ask(c, r)) \/ Receive(c) \/ Leave(c) \/ GivesUp(c)
      PROVE  lib' = lib
  BY <1>1 DEF Ask, Receive, Leave, GivesUp, Ends, state
<1>2. CASE StartServer \/ StartFails \/ UpdateReturns \/ TestStop \/ StoreState
           \/ Interrupt \/ Terminated \/ UNCHANGED vars
  BY <1>2 DEF StartServer, StartFails, UpdateReturns, TestStop, StoreState, StoreNothing,
              StoreLibrary, StoreFails, StoreThrows, StoreEndsEarly, Leaves, Interrupt,
              Terminated, Goto, vars, state
<1>. QED
  BY <1>1, <1>2 DEF Next, ServerStep

\* m_process changes the wallpapers of a collection or the active name only by
\* the whole effect of the request at the head of the queue, on the collections
\* it names and no other, and then tells the client that asked: a client that
\* hears nothing, or of a failure, has changed nothing.
THEOREM NothingIsUnasked == Spec => NothingUnasked
<1>. QED
  BY NextAsAsked, AlwaysInOrder, PTL DEF Spec, NothingUnasked

\* The request at the head of the queue takes a whole collection away.
RemovalAsked == queue # <<>> /\ Head(queue).req.kind = "Remove"

LosesOnlyByRemove == [][Wallpapers(lib) \subseteq Wallpapers(lib') \/ RemovalAsked]_vars

LEMMA AskedForKeeps ==
    ASSUME NEW m, NEW l, NEW r, AskedFor(m, l, r), m.kind # "Remove"
    PROVE  Wallpapers(l) \subseteq Wallpapers(r)
<1>1. CASE m.kind = "Change_Active_Collection" /\ Activates(l, r, m.col)
  BY <1>1, StaysKeeps DEF Activates
<1>2. ASSUME NEW ws, Creates(l, r, m.col, ws) PROVE Wallpapers(l) \subseteq Wallpapers(r)
  BY <1>2, CreatesAdds
<1>3. CASE Puts(l, r, m.col, m.wall)
  BY <1>3, PutsAdds
<1>4. CASE Renames(l, r, m.col, m.to)
  BY <1>4, RenamesKeeps
<1>5. CASE Merges(l, r, m.col, m.to)
  BY <1>5, MergesKeeps
<1>6. CASE Moves(l, r, m.col, m.to, m.wall)
  BY <1>6, MovesKeeps
<1>. QED
  BY <1>1, <1>2, <1>3, <1>4, <1>5, <1>6 DEF AskedFor

\* No request but Remove takes a wallpaper out of the server's library: not
\* Remove_Wallpaper, which only looks the collection up, and not one that fails.
THEOREM OnlyRemoveLoses == Spec => LosesOnlyByRemove
<1>1. ChangesAsAsked => Wallpapers(lib) \subseteq Wallpapers(lib') \/ RemovalAsked
  BY AskedForKeeps, StaysKeeps DEF ChangesAsAsked, Stays, RemovalAsked
<1>. QED
  BY <1>1, NextAsAsked, AlwaysInOrder, PTL DEF Spec, LosesOnlyByRemove
=============================================================================
