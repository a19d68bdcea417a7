--------------------------- MODULE ConnectionProofs ---------------------------
(***************************************************************************)
(* The safety properties of Connection, for any bodies, any hash and any   *)
(* number of messages.  The invariant follows each message through the     *)
(* stages of its direction: accepted by send_message (sent), posted,       *)
(* queued, on the wire as one frame or two, and given to the receiver.     *)
(***************************************************************************)
EXTENDS Connection, SequenceTheorems, TLAPS

(***************************************************************************)
(* A place in the frames of the messages s: the header or the body of      *)
(* message n; the frame there, and the place after it.                     *)
(***************************************************************************)
Places == [number : Nat \ {0}, part : {"header", "body"}]

Place(n, part) == [number |-> n, part |-> part]

IsFrame(s, x) ==
    /\ x.number \in 1..Len(s)
    /\ x.part = "body" => s[x.number].body # NoBody

Frame(s, x) == IF x.part = "header" THEN Header(s[x.number]) ELSE s[x.number].body

After(s, x) ==
    IF x.part = "header" /\ s[x.number].body # NoBody
      THEN Place(x.number, "body")
      ELSE Place(x.number + 1, "header")

\* The sequence w consists of the frames of s from place x up to place y.
Framed(w, s, x, y) ==
    \E at \in [1..(Len(w) + 1) -> Places] :
        /\ at[1] = x /\ at[Len(w) + 1] = y
        /\ \A i \in 1..Len(w) : /\ IsFrame(s, at[i])
                                /\ w[i] = Frame(s, at[i])
                                /\ at[i + 1] = After(s, at[i])

Parts == Headers \cup AllBodies

LEMMA AfterType ==
    ASSUME NEW s, NEW x \in Places
    PROVE  After(s, x) \in Places
BY DEF Places, Place, After

LEMMA FramedNothing ==
    ASSUME NEW s, NEW x \in Places
    PROVE  Framed(<<>>, s, x, x)
<1>. DEFINE at == [i \in 1..1 |-> x]
<1>1. at \in [1..1 -> Places] /\ at[1] = x
  OBVIOUS
<1>2. Len(<<>>) = 0 /\ 0 + 1 = 1 /\ 1..0 = {}
  OBVIOUS
<1>. HIDE DEF at
<1>. QED
  BY <1>1, <1>2 DEF Framed

\* The writer adds the frame at the place it has come to.
LEMMA FramedAppend ==
    ASSUME NEW w \in Seq(Parts), NEW s, NEW x \in Places, NEW y \in Places,
           Framed(w, s, x, y), IsFrame(s, y), Frame(s, y) \in Parts
    PROVE  Framed(Append(w, Frame(s, y)), s, x, After(s, y))
<1>. DEFINE n == Len(w)
            v == Append(w, Frame(s, y))
<1>1. PICK at \in [1..(n + 1) -> Places] :
        /\ at[1] = x /\ at[n + 1] = y
        /\ \A i \in 1..n : IsFrame(s, at[i]) /\ w[i] = Frame(s, at[i]) /\ at[i + 1] = After(s, at[i])
  BY DEF Framed
<1>2. n \in Nat /\ Len(v) = n + 1 /\ v[n + 1] = Frame(s, y) /\ \A i \in 1..n : v[i] = w[i]
  BY AppendProperties, LenProperties
<1>. HIDE DEF n, v
<1>. DEFINE to == [i \in 1..(n + 2) |-> IF i = n + 2 THEN After(s, y) ELSE at[i]]
<1>3. to \in [1..(n + 2) -> Places]
  BY <1>1, <1>2, AfterType
<1>4. to[1] = x /\ to[n + 2] = After(s, y) /\ \A i \in 1..(n + 1) : to[i] = at[i]
  BY <1>1, <1>2
<1>. HIDE DEF to
<1>5. ASSUME NEW i \in 1..(n + 1)
      PROVE  IsFrame(s, to[i]) /\ v[i] = Frame(s, to[i]) /\ to[i + 1] = After(s, to[i])
  <2>1. CASE i = n + 1
    <3>1. to[i] = y /\ to[i + 1] = After(s, y)
      BY <1>1, <1>2, <1>4, <2>1
    <3>. QED
      BY <1>2, <2>1, <3>1
  <2>2. CASE i \in 1..n
    <3>1. to[i] = at[i] /\ to[i + 1] = at[i + 1] /\ v[i] = w[i]
      BY <1>2, <1>4, <2>2
    <3>. QED
      BY <1>1, <2>2, <3>1
  <2>. QED
    BY <1>2, <2>1, <2>2
<1>6. Len(v) + 1 = n + 2
  BY <1>2
<1>. QED
  BY <1>2, <1>3, <1>4, <1>5, <1>6 DEF Framed, v

\* The reader takes the frame at the place it has come to.
LEMMA FramedTail ==
    ASSUME NEW w \in Seq(Parts), w # <<>>, NEW s, NEW x \in Places, NEW y \in Places,
           Framed(w, s, x, y)
    PROVE  IsFrame(s, x) /\ Head(w) = Frame(s, x) /\ Framed(Tail(w), s, After(s, x), y)
<1>. DEFINE n == Len(w)
            v == Tail(w)
<1>1. PICK at \in [1..(n + 1) -> Places] :
        /\ at[1] = x /\ at[n + 1] = y
        /\ \A i \in 1..n : IsFrame(s, at[i]) /\ w[i] = Frame(s, at[i]) /\ at[i + 1] = After(s, at[i])
  BY DEF Framed
<1>2. n \in Nat /\ n >= 1 /\ Len(v) = n - 1 /\ \A i \in 1..(n - 1) : v[i] = w[i + 1]
  BY HeadTailProperties, EmptySeq, LenProperties
<1>3. Head(w) = w[1]
  OBVIOUS
<1>. HIDE DEF n, v
<1>4. IsFrame(s, x) /\ w[1] = Frame(s, x) /\ at[2] = After(s, x)
  <2>1. 1 \in 1..n /\ 1 + 1 = 2
    BY <1>2
  <2>. QED
    BY <1>1, <2>1
<1>. DEFINE to == [i \in 1..n |-> at[i + 1]]
<1>5. to \in [1..n -> Places] /\ \A i \in 1..n : to[i] = at[i + 1]
  BY <1>1, <1>2
<1>6. to[1] = After(s, x) /\ to[n] = y
  BY <1>1, <1>2, <1>4, <1>5
<1>. HIDE DEF to
<1>7. ASSUME NEW i \in 1..(n - 1)
      PROVE  IsFrame(s, to[i]) /\ v[i] = Frame(s, to[i]) /\ to[i + 1] = After(s, to[i])
  <2>1. i + 1 \in 1..n /\ i \in 1..n
    BY <1>2
  <2>2. to[i] = at[i + 1] /\ to[i + 1] = at[i + 1 + 1] /\ v[i] = w[i + 1]
    BY <1>2, <1>5, <2>1
  <2>. QED
    BY <1>1, <2>1, <2>2
<1>8. Len(v) + 1 = n
  BY <1>2
<1>9. Framed(v, s, After(s, x), y)
  BY <1>2, <1>5, <1>6, <1>7, <1>8 DEF Framed
<1>. QED
  BY <1>3, <1>4, <1>9 DEF v

\* More messages change nothing about the frames before them.
LEMMA FramedGrows ==
    ASSUME NEW w \in Seq(Parts), NEW s \in Seq(Messages), NEW m \in Messages,
           NEW x, NEW y, Framed(w, s, x, y)
    PROVE  Framed(w, Append(s, m), x, y)
<1>. DEFINE t == Append(s, m)
<1>1. Len(t) = Len(s) + 1 /\ Len(s) \in Nat /\ \A k \in 1..Len(s) : t[k] = s[k]
  BY AppendProperties, LenProperties
<1>. HIDE DEF t
<1>2. ASSUME NEW z, IsFrame(s, z)
      PROVE  IsFrame(t, z) /\ Frame(t, z) = Frame(s, z) /\ After(t, z) = After(s, z)
  <2>1. z.number \in 1..Len(t) /\ t[z.number] = s[z.number]
    BY <1>1, <1>2 DEF IsFrame
  <2>. QED
    BY <1>2, <2>1 DEF IsFrame, Frame, After
<1>3. PICK at \in [1..(Len(w) + 1) -> Places] :
        /\ at[1] = x /\ at[Len(w) + 1] = y
        /\ \A i \in 1..Len(w) : /\ IsFrame(s, at[i]) /\ w[i] = Frame(s, at[i])
                                /\ at[i + 1] = After(s, at[i])
  BY DEF Framed
<1>4. \A i \in 1..Len(w) : /\ IsFrame(t, at[i]) /\ w[i] = Frame(t, at[i])
                           /\ at[i + 1] = After(t, at[i])
  BY <1>2, <1>3
<1>. QED
  BY <1>3, <1>4 DEF Framed, t

-----------------------------------------------------------------------------
(***************************************************************************)
(* The invariant.                                                          *)
(***************************************************************************)
Idle     == <<>>
InHeader == <<"header">>
InBody   == <<"body">>

NoClose(q, n) == \A i \in 1..n : q[i] # Close

\* What one end knows of itself: connected is given up together with posting the
\* close, and messages are numbered by their sending.
OwnState(e) ==
    /\ connected[e] => socket[e] # "new"
    /\ socket[e] = "new" => /\ outbound[e] = <<>> /\ posted[e] = <<>> /\ sent[e] = <<>>
                            /\ incoming[e] = <<>> /\ calling[e] \in {NoMessage, Leaving}
                            /\ writing[e] = Idle /\ reading[e] = "nothing"
    /\ IsConnected(e) => NoClose(posted[e], Len(posted[e]))
    /\ calling[e] \in Messages => /\ calling[e].number = Len(sent[e]) + 1
                                  /\ Len(sent[e]) < MaxSends[e]
    /\ Len(sent[e]) <= MaxSends[e]
    /\ \A k \in 1..Len(sent[e]) : sent[e][k].number = k

OneWrite(e) ==
    /\ writing[e] \in {Idle, InHeader, InBody}
    /\ writing[e] # Idle => outbound[e] # <<>>
    /\ writing[e] = InBody => Head(outbound[e]).body # NoBody
    /\ IsConnected(e) => (writing[e] = Idle <=> outbound[e] = <<>>)

\* The first n messages sent have been written; the next ones are queued, and
\* those after them posted, up to the close if there is one.
Queued(out, post, s, n) ==
    LET queued == n + Len(out)
    IN  /\ \A i \in 1..Len(out) : n + i <= Len(s) /\ out[i] = s[n + i]
        /\ \A i \in 1..Len(post) :
              NoClose(post, i) => queued + i <= Len(s) /\ post[i] = s[queued + i]
        /\ NoClose(post, Len(post)) => queued + Len(post) = Len(s)

Reader(e)    == Place(Len(incoming[e]) + 1, IF reading[e] = "body" THEN "body" ELSE "header")
Writer(e, n) == Place(n + 1, IF writing[e] = InBody THEN "body" ELSE "header")

Listening(e) == reading[e] # "nothing" \/ socket[e] = "new"
Writes(e)    == link /\ ~ Left(e) /\ (writing[e] # Idle \/ outbound[e] = <<>>)

\* What is on its way to e are the frames from where e has come in reading, up
\* to where its peer, if it still writes, has come in writing.
ReaderAt(e, y)    == Listening(e) => Framed(wire[e], sent[Peer(e)], Reader(e), y)
QueuedFrom(e, n)  == ~ Left(e) => Queued(outbound[e], posted[e], sent[e], n)
WriterAt(e, n, y) == Writes(e) => y = Writer(e, n)

Direction(e) ==
    \E n \in Nat, y \in Places :
        ReaderAt(e, y) /\ QueuedFrom(Peer(e), n) /\ WriterAt(Peer(e), n, y)

\* What has arrived has the headers of what was sent, in that order, and the
\* bodies too, except that an empty message comes with the body before it.
Match(in, s) ==
    /\ Len(in) <= Len(s)
    /\ \A k \in 1..Len(in) :
          /\ in[k].header = Header(s[k])
          /\ s[k].body # NoBody => in[k].body = s[k].body
          /\ s[k].body = NoBody =>
                (in[k].body = NoBody <=> \A j \in 1..(k - 1) : s[j].body = NoBody)

LastBody(in) == IF Len(in) = 0 THEN NoBody ELSE in[Len(in)].body

Arrived(e) ==
    LET s == sent[Peer(e)]
        n == Len(incoming[e])
    IN  /\ Match(incoming[e], s)
        /\ temp[e].body = LastBody(incoming[e])
        /\ reading[e] = "body" => /\ n < Len(s) /\ s[n + 1].body # NoBody
                                  /\ temp[e].header = Header(s[n + 1])

Inv ==
    /\ TypeOK
    /\ \A e \in Ends : OwnState(e) /\ OneWrite(e) /\ Direction(e) /\ Arrived(e)

-----------------------------------------------------------------------------
LEMMA PeerIsOther ==
    \A e \in Ends : Peer(e) \in Ends /\ Peer(e) # e /\ Peer(Peer(e)) = e
BY DEF Ends, Peer

LEMMA EndTypes ==
    ASSUME TypeOK, NEW e \in Ends
    PROVE  /\ socket[e] \in {"new", "open", "abandoned", "closed"} /\ connected[e] \in BOOLEAN
           /\ wire[e] \in Seq(Parts) /\ posted[e] \in Seq(Messages)
           /\ outbound[e] \in Seq(Messages) /\ sent[e] \in Seq(Messages)
           /\ writing[e] \in Seq({"header", "body"})
           /\ reading[e] \in {"nothing", "header", "body"}
           /\ temp[e] \in Received /\ incoming[e] \in Seq(Received)
           /\ calling[e] \in Messages \cup {NoMessage, Leaving}
BY DEF TypeOK, Parts

LEMMA NotMessages == NoMessage \notin Messages /\ Leaving \notin Messages /\ NoMessage # Leaving
BY ConnectionAssumption DEF Messages, AllBodies

\* The writes that can be pending.
LEMMA Writings ==
    /\ Idle # InHeader /\ Idle # InBody /\ InHeader # InBody
    /\ Head(InHeader) = "header" /\ Head(InBody) = "body"
    /\ Tail(InHeader) = Idle /\ Tail(InBody) = Idle
    /\ Append(Idle, "header") = InHeader /\ Append(Idle, "body") = InBody
    /\ {Idle, InHeader, InBody} \subseteq Seq({"header", "body"})
BY DEF Idle, InHeader, InBody

\* A completed write, and what is pending after it.
LEMMA CompletesIs ==
    ASSUME NEW e \in Ends, OneWrite(e)
    PROVE  /\ Completes(e, "header") <=> writing[e] = InHeader /\ socket[e] = "open"
           /\ Completes(e, "body") <=> writing[e] = InBody /\ socket[e] = "open"
           /\ writing[e] # Idle => Tail(writing[e]) = Idle
<1>. Idle = <<>>
  BY DEF Idle
<1>. HIDE DEF Idle
<1>. QED
  BY Writings DEF OneWrite, Completes

LEMMA NextOutboundDoes ==
    ASSUME NEW e \in Ends, OneWrite(e), writing[e] # Idle, NextOutbound(e)
    PROVE  /\ outbound' = Update(outbound, e, Tail(outbound[e]))
           /\ writing' = Update(writing, e, IF Len(outbound[e]) > 1 THEN InHeader ELSE Idle)
BY CompletesIs, Writings DEF NextOutbound

LEMMA WriteHeaderDoes ==
    ASSUME NEW e \in Ends, OneWrite(e), WriteHeader(e)
    PROVE  /\ writing[e] = InHeader /\ socket[e] = "open" /\ writing[e] # Idle
           /\ Transmit(e, Header(Head(outbound[e])))
           /\ IF Head(outbound[e]).body # NoBody
                THEN writing' = Update(writing, e, InBody) /\ UNCHANGED outbound
                ELSE /\ outbound' = Update(outbound, e, Tail(outbound[e]))
                     /\ writing' = Update(writing, e, IF Len(outbound[e]) > 1 THEN InHeader ELSE Idle)
           /\ UNCHANGED <<socket, connected, link, posted, reading, temp, incoming, calling, sent>>
<1>1. writing[e] = InHeader /\ socket[e] = "open" /\ writing[e] # Idle /\ Tail(writing[e]) = Idle
  BY CompletesIs, Writings DEF WriteHeader
<1>2. Append(Tail(writing[e]), "body") = InBody
  BY <1>1, Writings
<1>. QED
  BY <1>1, <1>2, NextOutboundDoes DEF WriteHeader

LEMMA WriteBodyDoes ==
    ASSUME NEW e \in Ends, OneWrite(e), WriteBody(e)
    PROVE  /\ writing[e] = InBody /\ socket[e] = "open" /\ writing[e] # Idle
           /\ Transmit(e, Head(outbound[e]).body)
           /\ outbound' = Update(outbound, e, Tail(outbound[e]))
           /\ writing' = Update(writing, e, IF Len(outbound[e]) > 1 THEN InHeader ELSE Idle)
           /\ UNCHANGED <<socket, connected, link, posted, reading, temp, incoming, calling, sent>>
BY CompletesIs, NextOutboundDoes, Writings DEF WriteBody

LEMMA WriteFailsDoes ==
    ASSUME NEW e \in Ends, OneWrite(e), WriteFails(e)
    PROVE  writing[e] # Idle /\ writing' = Update(writing, e, Idle)
<1>. Idle = <<>>
  BY DEF Idle
<1>. HIDE DEF Idle
<1>. QED
  BY CompletesIs DEF WriteFails

LEMMA PushOutboundDoes ==
    ASSUME NEW e \in Ends, OneWrite(e), PushOutbound(e)
    PROVE  writing' = IF outbound[e] = <<>> THEN [writing EXCEPT ![e] = InHeader] ELSE writing
<1>1. outbound[e] = <<>> => writing[e] = Idle
  BY DEF OneWrite
<1>. QED
  BY <1>1, Writings DEF PushOutbound

LEMMA HeaderType ==
    ASSUME NEW m \in Messages
    PROVE  /\ Header(m) \in Headers /\ m.number \in Nat /\ m.body \in AllBodies
           /\ Header(m).number = m.number /\ Header(m).sized = (m.body # NoBody)
           /\ Header(m).hash = Hash[m.body]
BY ConnectionAssumption DEF Messages, AllBodies, Header, Headers

LEMMA InitInv == Init => Inv
<1>. SUFFICES ASSUME Init PROVE Inv
  OBVIOUS
<1>. USE DEF Init
<1>1. TypeOK
  <2>1. <<>> \in Seq(Headers \cup AllBodies) /\ <<>> \in Seq(Messages) /\ <<>> \in Seq(Received)
    BY EmptySeq
  <2>2. [header |-> [number |-> 0, sized |-> FALSE, hash |-> 0], body |-> NoBody] \in Received
    BY DEF Received, Headers, AllBodies
  <2>. QED
    BY <2>1, <2>2, ConnectionAssumption DEF TypeOK
<1>2. ASSUME NEW e \in Ends PROVE OwnState(e) /\ OneWrite(e)
  <2>1. MaxSends[e] \in Nat
    BY ConnectionAssumption
  <2>2. Idle = <<>>
    BY DEF Idle
  <2>. HIDE DEF Idle
  <2>. QED
    BY <2>1, <2>2, EmptySeq, NotMessages, Writings DEF OwnState, OneWrite, IsConnected
<1>3. ASSUME NEW e \in Ends PROVE Direction(e)
  <2>. DEFINE x == Place(1, "header")
  <2>1. x \in Places /\ 0 \in Nat
    BY DEF Places, Place
  <2>2. Reader(e) = x /\ Writer(Peer(e), 0) = x
    <3>1. Len(<<>>) = 0 /\ <<>> # InBody
      BY EmptySeq DEF InBody
    <3>2. writing[Peer(e)] = <<>> /\ incoming[e] = <<>> /\ reading[e] = "nothing"
      BY PeerIsOther
    <3>. QED
      BY <3>1, <3>2 DEF Reader, Writer
  <2>3. ReaderAt(e, x)
    BY <2>1, <2>2, FramedNothing, PeerIsOther DEF ReaderAt
  <2>4. QueuedFrom(Peer(e), 0)
    BY PeerIsOther, EmptySeq DEF QueuedFrom, Queued
  <2>5. WriterAt(Peer(e), 0, x)
    BY <2>2 DEF WriterAt
  <2>. QED
    BY <2>1, <2>3, <2>4, <2>5 DEF Direction
<1>4. ASSUME NEW e \in Ends PROVE Arrived(e)
  BY PeerIsOther, EmptySeq DEF Arrived, Match, LastBody
<1>. QED
  BY <1>1, <1>2, <1>3, <1>4 DEF Inv

-----------------------------------------------------------------------------
(***************************************************************************)
(* The steps, by the end a whose thread takes them.                        *)
(***************************************************************************)
Opens(a) ==
    /\ socket[a] = "new" /\ Opened(a)
    /\ UNCHANGED <<link, wire, posted, outbound, writing, temp, incoming, calling, sent>>

Refused(a) ==
    /\ socket[a] = "new" /\ socket' = Update(socket, a, "closed")
    /\ UNCHANGED <<connected, link, wire, posted, outbound, writing, reading, temp,
                   incoming, calling, sent>>

Leaves(a) ==
    /\ calling' = Update(calling, a, Leaving) /\ Disconnecting(a)
    /\ UNCHANGED <<socket, link, wire, outbound, writing, reading, temp, incoming, sent>>

Exits(a) ==
    /\ socket[a] = "abandoned" /\ socket' = Update(socket, a, "closed")
    /\ UNCHANGED <<connected, link, wire, posted, outbound, writing, reading, temp,
                   incoming, calling, sent>>

Sends(a)  == \E b \in AllBodies : SendMessage(a, b)

Step(a) ==
    \/ Opens(a) \/ Refused(a) \/ Leaves(a) \/ Exits(a) \/ Sends(a) \/ Post(a) \/ Stop(a)
    \/ PushOutbound(a) \/ CloseSocket(a)
    \/ WriteHeader(a) \/ WriteBody(a) \/ WriteFails(a)
    \/ ReadHeader(a) \/ ReadBody(a) \/ ReadFails(a)

LEMMA NextIsStep ==
    ASSUME TypeOK, \A e \in Ends : OwnState(e), Next
    PROVE  Break \/ \E a \in Ends : Step(a)
<1>1. "client" \in Ends /\ "server" \in Ends
  BY DEF Ends
<1>2. Connect => Opens("client")
  BY DEF Connect, Opens
<1>3. ConnectFails => Refused("client")
  BY DEF ConnectFails, Refused
<1>4. socket["server"] = "new" => connected["server"] = FALSE
  BY <1>1, EndTypes DEF OwnState
<1>5. Accept => Opens("server")
  BY <1>4 DEF Accept, Greet, Opens
<1>6. Deny \/ AcceptFails => Refused("server")
  BY <1>4 DEF Deny, AcceptFails, Greet, Refused
<1>7. Disconnect => Leaves("client")
  BY DEF Disconnect, Leaves
<1>8. Exit => Exits("client")
  BY DEF Exit, Exits
<1>. QED
  BY <1>1, <1>2, <1>3, <1>5, <1>6, <1>7, <1>8 DEF Next, Step, Work, Sends

\* The end e takes no part in a step.
Keeps(e) ==
    /\ socket'[e] = socket[e] /\ connected'[e] = connected[e] /\ posted'[e] = posted[e]
    /\ outbound'[e] = outbound[e] /\ writing'[e] = writing[e] /\ reading'[e] = reading[e]
    /\ temp'[e] = temp[e] /\ incoming'[e] = incoming[e] /\ calling'[e] = calling[e]
    /\ sent'[e] = sent[e]

\* A step of one end leaves the other end as it is.
LEMMA StepKeeps ==
    ASSUME TypeOK, NEW a \in Ends, Step(a), NEW o \in Ends, o # a
    PROVE  Keeps(o) /\ link' = link
<1>1. /\ DOMAIN socket = Ends /\ DOMAIN connected = Ends /\ DOMAIN posted = Ends
      /\ DOMAIN outbound = Ends /\ DOMAIN writing = Ends /\ DOMAIN reading = Ends
      /\ DOMAIN temp = Ends /\ DOMAIN incoming = Ends /\ DOMAIN calling = Ends
      /\ DOMAIN sent = Ends
  BY DEF TypeOK
<1>. USE <1>1 DEF Keeps, Update
<1>2. CASE Opens(a)
  BY <1>2 DEF Opens, Opened
<1>3. CASE Refused(a)
  BY <1>3 DEF Refused
<1>4. CASE Leaves(a)
  BY <1>4 DEF Leaves, Disconnecting
<1>16. CASE Exits(a)
  BY <1>16 DEF Exits
<1>5. CASE Sends(a)
  BY <1>5 DEF Sends, SendMessage
<1>6. CASE Post(a)
  BY <1>6 DEF Post
<1>7. CASE Stop(a)
  BY <1>7 DEF Stop
<1>8. CASE PushOutbound(a)
  BY <1>8 DEF PushOutbound
<1>9. CASE CloseSocket(a)
  BY <1>9 DEF CloseSocket
<1>10. CASE WriteHeader(a)
  BY <1>10 DEF WriteHeader, NextOutbound
<1>11. CASE WriteBody(a)
  BY <1>11 DEF WriteBody, NextOutbound
<1>12. CASE WriteFails(a)
  BY <1>12 DEF WriteFails, Disconnecting
<1>13. CASE ReadHeader(a)
  BY <1>13 DEF ReadHeader, AddToIncoming
<1>14. CASE ReadBody(a)
  BY <1>14 DEF ReadBody, AddToIncoming
<1>15. CASE ReadFails(a)
  BY <1>15 DEF ReadFails, Disconnecting
<1>. QED
  BY <1>2, <1>3, <1>4, <1>5, <1>6, <1>7, <1>8, <1>9, <1>10, <1>11, <1>12, <1>13, <1>14, <1>15,
     <1>16 DEF Step

-----------------------------------------------------------------------------
(***************************************************************************)
(* What a step does to the end that takes it.                              *)
(***************************************************************************)
\* All of what end a has to itself is as before, except for what is listed.
LEMMA TypedDomains ==
    ASSUME TypeOK
    PROVE  /\ DOMAIN socket = Ends /\ DOMAIN connected = Ends /\ DOMAIN posted = Ends
           /\ DOMAIN outbound = Ends /\ DOMAIN writing = Ends /\ DOMAIN reading = Ends
           /\ DOMAIN temp = Ends /\ DOMAIN incoming = Ends /\ DOMAIN calling = Ends
           /\ DOMAIN sent = Ends /\ DOMAIN wire = Ends
BY DEF TypeOK

\* Disconnecting gives up connected and posts the close, or it was not connected.
LEMMA DisconnectingDoes ==
    ASSUME TypeOK, NEW a \in Ends, OwnState(a), Disconnecting(a)
    PROVE  /\ ~ (connected'[a] /\ socket[a] = "open")
           /\ connected'[a] => connected[a]
           /\ posted'[a] \in {posted[a], Append(posted[a], Close)}
           /\ posted'[a] # posted[a] => socket[a] = "open"
<1>1. connected[a] \in BOOLEAN
  BY EndTypes
<1>. QED
  BY <1>1, TypedDomains DEF Disconnecting, IsConnected, OwnState, Update

LEMMA NoCloseAppend ==
    ASSUME NEW q \in Seq(Messages), NEW m \in Messages, m # Close, NoClose(q, Len(q))
    PROVE  NoClose(Append(q, m), Len(Append(q, m)))
<1>1. Len(q) \in Nat /\ Len(Append(q, m)) = Len(q) + 1 /\ Append(q, m)[Len(q) + 1] = m
      /\ \A i \in 1..Len(q) : Append(q, m)[i] = q[i]
  BY AppendProperties, LenProperties
<1>2. \A i \in 1..(Len(q) + 1) : i \in 1..Len(q) \/ i = Len(q) + 1
  BY <1>1
<1>. QED
  BY <1>1, <1>2 DEF NoClose

LEMMA NoCloseTail ==
    ASSUME NEW q \in Seq(Messages), q # <<>>, NoClose(q, Len(q))
    PROVE  Head(q) # Close /\ NoClose(Tail(q), Len(Tail(q)))
<1>1. /\ Len(q) \in Nat /\ Len(q) >= 1 /\ Len(Tail(q)) = Len(q) - 1 /\ Head(q) = q[1]
      /\ \A i \in 1..(Len(q) - 1) : Tail(q)[i] = q[i + 1]
  BY HeadTailProperties, EmptySeq, LenProperties
<1>2. ASSUME NEW i \in 1..(Len(q) - 1) PROVE Tail(q)[i] # Close
  <2>1. i + 1 \in 1..Len(q) /\ Tail(q)[i] = q[i + 1]
    BY <1>1
  <2>. QED
    BY <2>1 DEF NoClose
<1>3. 1 \in 1..Len(q)
  BY <1>1
<1>. QED
  BY <1>1, <1>2, <1>3 DEF NoClose

LEMMA MessageIsNotClose ==
    ASSUME TypeOK, NEW a \in Ends, OwnState(a), calling[a] \in Messages
    PROVE  calling[a] # Close /\ socket[a] # "new"
<1>1. Len(sent[a]) \in Nat
  BY EndTypes, LenProperties
<1>. QED
  BY <1>1, NotMessages DEF OwnState, Close

LEMMA CloseType == Close \in Messages
BY DEF Close, Messages, AllBodies

\* Each end keeps to its own part of the invariant.
LEMMA StepOwn ==
    ASSUME TypeOK, NEW a \in Ends, OwnState(a), OneWrite(a), Step(a)
    PROVE  OwnState(a)' /\ OneWrite(a)'
<1>1. /\ posted[a] \in Seq(Messages) /\ outbound[a] \in Seq(Messages)
      /\ sent[a] \in Seq(Messages) /\ incoming[a] \in Seq(Received)
      /\ Len(sent[a]) \in Nat /\ connected[a] \in BOOLEAN
      /\ socket[a] \in {"new", "open", "abandoned", "closed"}
  BY EndTypes, LenProperties
<1>. USE TypedDomains
<1>2. CASE Opens(a)
  <2>1. /\ socket'[a] = "open" /\ reading'[a] = "header" /\ socket[a] = "new"
        /\ UNCHANGED <<posted, outbound, writing, incoming, calling, sent>>
    BY <1>2 DEF Opens, Opened, Update
  <2>2. NoClose(<<>>, Len(<<>>))
    BY EmptySeq DEF NoClose
  <2>. QED
    BY <2>1, <2>2 DEF OwnState, OneWrite, IsConnected
<1>3. CASE Refused(a) \/ Exits(a)
  <2>1. /\ socket'[a] = "closed"
        /\ UNCHANGED <<connected, posted, outbound, writing, incoming, calling, sent>>
    BY <1>3 DEF Refused, Exits, Update
  <2>. QED
    BY <2>1 DEF OwnState, OneWrite, IsConnected
<1>4. CASE Leaves(a) \/ WriteFails(a) \/ ReadFails(a)
  <2>1. /\ ~ (connected'[a] /\ socket[a] = "open") /\ (connected'[a] => connected[a])
        /\ posted'[a] # posted[a] => socket[a] = "open"
    BY <1>4, DisconnectingDoes DEF Leaves, WriteFails, ReadFails
  <2>2. /\ socket' = socket /\ outbound' = outbound
        /\ incoming' = incoming /\ calling'[a] \in {calling[a], Leaving} /\ sent' = sent
        /\ writing'[a] \in {writing[a], Idle} /\ reading'[a] \in {reading[a], "nothing"}
    BY <1>4, WriteFailsDoes DEF Leaves, WriteFails, ReadFails, Update
  <2>. QED
    BY <2>1, <2>2, NotMessages, Writings DEF OwnState, OneWrite, IsConnected
<1>5. CASE Sends(a)
  <2>1. PICK b \in AllBodies : SendMessage(a, b)
    BY <1>5 DEF Sends
  <2>2. /\ calling'[a].number = Len(sent[a]) + 1 /\ Len(sent[a]) < MaxSends[a]
        /\ socket[a] # "new"
        /\ UNCHANGED <<socket, connected, posted, outbound, writing, reading, incoming, sent>>
    BY <2>1 DEF SendMessage, IsConnected, Update
  <2>. QED
    BY <2>2 DEF OwnState, OneWrite, IsConnected
<1>6. CASE Post(a)
  <2>. DEFINE m == calling[a]
  <2>1. /\ m \in Messages /\ posted'[a] = Append(posted[a], m) /\ sent'[a] = Append(sent[a], m)
        /\ calling'[a] = NoMessage
        /\ UNCHANGED <<socket, connected, outbound, writing, reading, incoming>>
    BY <1>6 DEF Post, Update
  <2>2. m \in Messages /\ m # Close /\ socket[a] # "new"
    BY <2>1, MessageIsNotClose
  <2>3. m.number = Len(sent[a]) + 1 /\ Len(sent[a]) < MaxSends[a] /\ MaxSends[a] \in Nat
    BY <2>1, ConnectionAssumption DEF OwnState
  <2>. HIDE DEF m
  <2>4. IsConnected(a) => NoClose(posted'[a], Len(posted'[a]))
    BY <1>1, <2>1, <2>2, NoCloseAppend DEF OwnState
  <2>5. /\ Len(sent'[a]) = Len(sent[a]) + 1 /\ sent'[a][Len(sent[a]) + 1] = m
        /\ \A k \in 1..Len(sent[a]) : sent'[a][k] = sent[a][k]
    BY <1>1, <2>1, <2>2, AppendProperties
  <2>6. \A k \in 1..Len(sent'[a]) : sent'[a][k].number = k
    <3>1. \A k \in 1..Len(sent'[a]) : k \in 1..Len(sent[a]) \/ k = Len(sent[a]) + 1
      BY <1>1, <2>5
    <3>. QED
      BY <2>3, <2>5, <3>1 DEF OwnState
  <2>7. Len(sent'[a]) <= MaxSends[a]
    BY <1>1, <2>3, <2>5
  <2>. QED
    BY <2>1, <2>2, <2>4, <2>6, <2>7, NotMessages DEF OwnState, OneWrite, IsConnected
<1>7. CASE Stop(a)
  <2>1. /\ socket'[a] \in {"abandoned", "closed"} /\ writing'[a] = Idle
        /\ UNCHANGED <<connected, outbound, incoming, calling, sent>>
    BY <1>7 DEF Stop, Update, Idle
  <2>. QED
    BY <2>1, Writings DEF OwnState, OneWrite, IsConnected
<1>8. CASE PushOutbound(a)
  <2>. DEFINE m == Head(posted[a])
  <2>1. /\ posted[a] # <<>> /\ posted'[a] = Tail(posted[a])
        /\ outbound'[a] = Append(outbound[a], m)
        /\ writing'[a] = IF outbound[a] = <<>> THEN InHeader ELSE writing[a]
        /\ UNCHANGED <<socket, connected, incoming, calling, sent>>
    BY <1>8, PushOutboundDoes DEF PushOutbound, Update
  <2>2. m \in Messages
    BY <1>1, <2>1, HeadTailProperties
  <2>. HIDE DEF m
  <2>3. outbound'[a] # <<>> /\ (outbound[a] # <<>> => Head(outbound'[a]) = Head(outbound[a]))
    <3>1. Append(outbound[a], m) # <<>>
      BY <1>1, <2>2, AppendProperties
    <3>2. outbound[a] # <<>> => Head(Append(outbound[a], m)) = Head(outbound[a])
      BY <1>1, <2>2, HeadTailAppend
    <3>. QED
      BY <2>1, <3>1, <3>2
  <2>4. IsConnected(a) => NoClose(posted'[a], Len(posted'[a]))
    BY <1>1, <2>1, NoCloseTail DEF OwnState
  <2>5. socket[a] # "new"
    BY <2>1 DEF OwnState
  <2>6. OwnState(a)'
    BY <2>1, <2>4, <2>5 DEF OwnState, IsConnected
  <2>7. OneWrite(a)'
    BY <2>1, <2>3, Writings DEF OneWrite, IsConnected
  <2>. QED
    BY <2>6, <2>7
<1>9. CASE CloseSocket(a)
  <2>1. /\ posted[a] # <<>> /\ Head(posted[a]) = Close /\ socket'[a] = "closed"
        /\ UNCHANGED <<connected, outbound, writing, incoming, calling, sent>>
    BY <1>9 DEF CloseSocket, Update
  <2>2. ~ IsConnected(a)
    BY <1>1, <2>1, NoCloseTail DEF OwnState
  <2>. QED
    BY <1>1, <2>1, <2>2 DEF OwnState, OneWrite, IsConnected
<1>10. CASE WriteHeader(a) \/ WriteBody(a)
  <2>. DEFINE more == Len(outbound[a]) > 1
  <2>1. /\ writing[a] # Idle /\ socket[a] = "open"
        /\ UNCHANGED <<socket, connected, posted, incoming, calling, sent, reading>>
        /\ \/ outbound'[a] = outbound[a] /\ writing'[a] = InBody /\ Head(outbound[a]).body # NoBody
           \/ outbound'[a] = Tail(outbound[a]) /\ writing'[a] = IF more THEN InHeader ELSE Idle
    BY <1>10, WriteHeaderDoes, WriteBodyDoes DEF Update
  <2>2. outbound[a] # <<>>
    BY <2>1 DEF OneWrite
  <2>3. Tail(outbound[a]) = <<>> <=> ~ more
    <3>1. Len(outbound[a]) \in Nat /\ Len(Tail(outbound[a])) = Len(outbound[a]) - 1
          /\ Tail(outbound[a]) \in Seq(Messages) /\ Len(outbound[a]) >= 1
      BY <1>1, <2>2, HeadTailProperties, EmptySeq, LenProperties
    <3>2. Tail(outbound[a]) = <<>> <=> Len(Tail(outbound[a])) = 0
      BY <3>1, EmptySeq
    <3>. QED
      BY <3>1, <3>2
  <2>. HIDE DEF more
  <2>4. OwnState(a)'
    BY <2>1 DEF OwnState, IsConnected
  <2>5. OneWrite(a)'
    BY <2>1, <2>2, <2>3, Writings DEF OneWrite, IsConnected
  <2>. QED
    BY <2>4, <2>5
<1>11. CASE ReadHeader(a) \/ ReadBody(a)
  <2>1. socket[a] = "open" /\ UNCHANGED <<socket, connected, posted, outbound, writing, calling, sent>>
    BY <1>11 DEF ReadHeader, ReadBody
  <2>. QED
    BY <2>1 DEF OwnState, OneWrite, IsConnected
<1>. QED
  BY <1>2, <1>3, <1>4, <1>5, <1>6, <1>7, <1>8, <1>9, <1>10, <1>11 DEF Step

-----------------------------------------------------------------------------
(***************************************************************************)
(* Reading.                                                                *)
(***************************************************************************)
LEMMA MatchMore ==
    ASSUME NEW in \in Seq(Received), NEW s \in Seq(Messages), Match(in, s),
           Len(in) < Len(s), NEW t \in Received, t.header = Header(s[Len(in) + 1]),
           t.body = IF s[Len(in) + 1].body # NoBody THEN s[Len(in) + 1].body ELSE LastBody(in)
    PROVE  Match(Append(in, t), s) /\ LastBody(Append(in, t)) = t.body
<1>. DEFINE n == Len(in)
            v == Append(in, t)
<1>1. n \in Nat /\ Len(s) \in Nat /\ Len(v) = n + 1 /\ v[n + 1] = t /\ \A k \in 1..n : v[k] = in[k]
  BY AppendProperties, LenProperties
<1>. HIDE DEF n, v
<1>2. ASSUME s[n + 1].body = NoBody
      PROVE  t.body = NoBody <=> \A j \in 1..n : s[j].body = NoBody
  <2>1. CASE n = 0
    <3>1. t.body = NoBody /\ 1..n = {}
      BY <1>2, <2>1 DEF LastBody, n
    <3>. QED
      BY <3>1
  <2>2. CASE n # 0
    <3>1. n \in 1..n /\ t.body = in[n].body
      BY <1>1, <1>2, <2>2 DEF LastBody, n
    <3>2. \A j \in 1..n : j \in 1..(n - 1) \/ j = n
      BY <1>1
    <3>3. CASE s[n].body = NoBody
      <4>1. in[n].body = NoBody <=> \A j \in 1..(n - 1) : s[j].body = NoBody
        BY <3>1, <3>3 DEF Match, n
      <4>2. \A j \in 1..(n - 1) : j \in 1..n
        BY <1>1
      <4>. QED
        BY <3>1, <3>2, <3>3, <4>1, <4>2
    <3>4. CASE s[n].body # NoBody
      BY <3>1, <3>4 DEF Match, n
    <3>. QED
      BY <3>3, <3>4
  <2>. QED
    BY <2>1, <2>2
<1>3. ASSUME NEW k \in 1..(n + 1)
      PROVE  /\ v[k].header = Header(s[k])
             /\ s[k].body # NoBody => v[k].body = s[k].body
             /\ s[k].body = NoBody =>
                   (v[k].body = NoBody <=> \A j \in 1..(k - 1) : s[j].body = NoBody)
  <2>1. CASE k = n + 1
    <3>1. v[k] = t /\ k - 1 = n
      BY <1>1, <2>1
    <3>. QED
      BY <1>2, <2>1, <3>1 DEF n
  <2>2. CASE k \in 1..n
    BY <1>1, <2>2 DEF Match, n
  <2>. QED
    BY <1>1, <2>1, <2>2
<1>4. Len(v) <= Len(s)
  BY <1>1 DEF n
<1>5. LastBody(v) = t.body
  BY <1>1 DEF LastBody
<1>. QED
  BY <1>1, <1>3, <1>4, <1>5 DEF Match, v

LEMMA MatchGrows ==
    ASSUME NEW in \in Seq(Received), NEW s \in Seq(Messages), NEW m \in Messages, Match(in, s)
    PROVE  Match(in, Append(s, m))
<1>. DEFINE t == Append(s, m)
<1>1. /\ Len(in) \in Nat /\ Len(s) \in Nat /\ Len(t) = Len(s) + 1
      /\ \A k \in 1..Len(s) : t[k] = s[k]
  BY AppendProperties, LenProperties
<1>. HIDE DEF t
<1>2. ASSUME NEW k \in 1..Len(in)
      PROVE  t[k] = s[k] /\ \A j \in 1..(k - 1) : t[j] = s[j]
  <2>1. Len(in) <= Len(s)
    BY DEF Match
  <2>2. k \in 1..Len(s) /\ \A j \in 1..(k - 1) : j \in 1..Len(s)
    BY <1>1, <2>1
  <2>. QED
    BY <1>1, <2>2
<1>. QED
  BY <1>1, <1>2 DEF Match, t

\* The next frame for e is the one its reader expects.
LEMMA NextFrame ==
    ASSUME TypeOK, NEW e \in Ends, NEW y \in Places, ReaderAt(e, y), Listening(e), wire[e] # <<>>
    PROVE  LET s == sent[Peer(e)]
           IN  /\ IsFrame(s, Reader(e)) /\ Head(wire[e]) = Frame(s, Reader(e))
               /\ Framed(Tail(wire[e]), s, After(s, Reader(e)), y)
<1>1. Reader(e) \in Places
  <2>1. Len(incoming[e]) + 1 \in Nat \ {0}
    BY EndTypes, LenProperties
  <2>. QED
    BY <2>1 DEF Reader, Places, Place
<1>2. wire[e] \in Seq(Parts) /\ Framed(wire[e], sent[Peer(e)], Reader(e), y)
  BY EndTypes DEF ReaderAt
<1>. QED
  BY <1>1, <1>2, FramedTail

LEMMA ReadHeaderStep ==
    ASSUME TypeOK, NEW a \in Ends, Arrived(a), ReadHeader(a), sent'[Peer(a)] = sent[Peer(a)],
           NEW y \in Places, ReaderAt(a, y)
    PROVE  ReaderAt(a, y)' /\ Arrived(a)' /\ Head(wire[a]) \in Headers
<1>. DEFINE s == sent[Peer(a)]
            n == Len(incoming[a])
            m == s[n + 1]
            t == [header |-> Header(m), body |-> temp[a].body]
<1>1. /\ s \in Seq(Messages) /\ incoming[a] \in Seq(Received) /\ temp[a] \in Received
      /\ n \in Nat /\ Len(s) \in Nat
  BY EndTypes, PeerIsOther, LenProperties
<1>2. /\ reading[a] = "header" /\ wire[a] # <<>> /\ wire'[a] = Tail(wire[a])
      /\ temp'[a] = [temp[a] EXCEPT !.header = Head(wire[a])]
      /\ IF Head(wire[a]).sized
           THEN reading'[a] = "body" /\ incoming' = incoming
           ELSE incoming'[a] = Append(incoming[a], temp'[a]) /\ reading'[a] = "header"
  BY TypedDomains DEF ReadHeader, AddToIncoming, Update
<1>3. Listening(a) /\ Reader(a) = Place(n + 1, "header")
  BY <1>2 DEF Listening, Reader
<1>4. /\ IsFrame(s, Reader(a)) /\ Head(wire[a]) = Frame(s, Reader(a))
      /\ Framed(wire'[a], s, After(s, Reader(a)), y)
  BY <1>2, <1>3, NextFrame
<1>. HIDE DEF s, n
<1>5. n + 1 \in 1..Len(s) /\ n < Len(s) /\ Head(wire[a]) = Header(m)
  BY <1>1, <1>3, <1>4 DEF IsFrame, Frame, Place
<1>6. m \in Messages
  BY <1>1, <1>5, ElementOfSeq
<1>7. Header(m).sized = (m.body # NoBody) /\ Header(m) \in Headers
  BY <1>6, HeaderType
<1>. HIDE DEF m
<1>8. temp'[a] = t /\ t \in Received
  BY <1>1, <1>2, <1>5, <1>7 DEF Received
<1>9. CASE m.body # NoBody
  <2>1. reading'[a] = "body" /\ incoming' = incoming
    BY <1>2, <1>5, <1>7, <1>9
  <2>2. After(s, Reader(a)) = Place(n + 1, "body")
    BY <1>3, <1>9 DEF After, Place, m
  <2>3. Reader(a)' = Place(n + 1, "body")
    BY <2>1 DEF Reader, n
  <2>4. ReaderAt(a, y)'
    BY <1>4, <2>2, <2>3 DEF ReaderAt, s
  <2>5. temp'[a].body = temp[a].body /\ temp'[a].header = Header(m)
    BY <1>8
  <2>6. Arrived(a)'
    BY <1>5, <1>9, <2>1, <2>5 DEF Arrived, s, n, m
  <2>. QED
    BY <1>5, <1>7, <2>4, <2>6
<1>10. CASE m.body = NoBody
  <2>1. reading'[a] = "header" /\ incoming'[a] = Append(incoming[a], t)
    BY <1>2, <1>5, <1>7, <1>8, <1>10
  <2>2. After(s, Reader(a)) = Place(n + 2, "header")
    BY <1>1, <1>3, <1>10 DEF After, Place, m
  <2>3. Len(incoming'[a]) = n + 1
    BY <1>1, <1>8, <2>1, AppendProperties DEF n
  <2>4. Reader(a)' = Place(n + 2, "header")
    BY <1>1, <2>1, <2>3 DEF Reader
  <2>5. ReaderAt(a, y)'
    BY <1>4, <2>2, <2>4 DEF ReaderAt, s
  <2>6. Match(incoming[a], s) /\ temp[a].body = LastBody(incoming[a])
    BY DEF Arrived, s
  <2>7. t.header = Header(m) /\ t.body = LastBody(incoming[a])
    BY <2>6
  <2>. HIDE DEF t
  <2>8. Match(incoming'[a], s) /\ LastBody(incoming'[a]) = t.body
    BY <1>1, <1>5, <1>8, <1>10, <2>1, <2>6, <2>7, MatchMore DEF n, m
  <2>9. Arrived(a)'
    BY <1>8, <2>1, <2>8 DEF Arrived, s
  <2>. QED
    BY <1>5, <1>7, <2>5, <2>9
<1>. QED
  BY <1>9, <1>10

LEMMA ReadBodyStep ==
    ASSUME TypeOK, NEW a \in Ends, Arrived(a), ReadBody(a), sent'[Peer(a)] = sent[Peer(a)],
           NEW y \in Places, ReaderAt(a, y)
    PROVE  ReaderAt(a, y)' /\ Arrived(a)' /\ Head(wire[a]) \in AllBodies
<1>. DEFINE s == sent[Peer(a)]
            n == Len(incoming[a])
            m == s[n + 1]
            t == [header |-> Header(m), body |-> m.body]
<1>1. /\ s \in Seq(Messages) /\ incoming[a] \in Seq(Received) /\ temp[a] \in Received
      /\ n \in Nat /\ Len(s) \in Nat
  BY EndTypes, PeerIsOther, LenProperties
<1>2. /\ reading[a] = "body" /\ wire[a] # <<>> /\ wire'[a] = Tail(wire[a])
      /\ temp'[a] = [temp[a] EXCEPT !.body = Head(wire[a])]
      /\ incoming'[a] = Append(incoming[a], temp'[a]) /\ reading'[a] = "header"
  BY TypedDomains DEF ReadBody, AddToIncoming, Update
<1>3. Listening(a) /\ Reader(a) = Place(n + 1, "body")
  BY <1>2 DEF Listening, Reader
<1>4. /\ IsFrame(s, Reader(a)) /\ Head(wire[a]) = Frame(s, Reader(a))
      /\ Framed(wire'[a], s, After(s, Reader(a)), y)
  BY <1>2, <1>3, NextFrame
<1>. HIDE DEF s, n
<1>5. /\ n + 1 \in 1..Len(s) /\ n < Len(s) /\ Head(wire[a]) = m.body
      /\ After(s, Reader(a)) = Place(n + 2, "header")
  BY <1>1, <1>3, <1>4 DEF IsFrame, Frame, Place, After
<1>6. m \in Messages
  BY <1>1, <1>5, ElementOfSeq
<1>7. m.body \in AllBodies /\ Header(m) \in Headers
  BY <1>6, HeaderType
<1>8. temp[a].header = Header(m) /\ m.body # NoBody
  BY <1>2 DEF Arrived, s, n, m
<1>. HIDE DEF m
<1>9. temp'[a] = t /\ t \in Received
  BY <1>1, <1>2, <1>5, <1>7, <1>8 DEF Received
<1>10. Len(incoming'[a]) = n + 1
  BY <1>1, <1>2, <1>9, AppendProperties DEF n
<1>11. Reader(a)' = Place(n + 2, "header")
  BY <1>1, <1>2, <1>10 DEF Reader
<1>12. ReaderAt(a, y)'
  BY <1>4, <1>5, <1>11 DEF ReaderAt, s
<1>13. Match(incoming[a], s) /\ t.header = Header(m) /\ t.body = m.body
  BY DEF Arrived, s
<1>. HIDE DEF t
<1>14. Match(incoming'[a], s) /\ LastBody(incoming'[a]) = t.body
  <2>1. Match(Append(incoming[a], t), s) /\ LastBody(Append(incoming[a], t)) = t.body
    BY <1>1, <1>5, <1>8, <1>9, <1>13, MatchMore DEF n, m
  <2>. QED
    BY <1>2, <1>9, <2>1
<1>15. Arrived(a)'
  BY <1>2, <1>9, <1>14 DEF Arrived, s
<1>. QED
  BY <1>5, <1>7, <1>12, <1>15

\* Only reading moves the place that an end has come to in reading.
LEMMA StepReader ==
    ASSUME TypeOK, NEW a \in Ends, OwnState(a), Arrived(a), Step(a), NEW y \in Places, ReaderAt(a, y)
    PROVE  ReaderAt(a, y)' /\ Arrived(a)'
<1>1. sent'[Peer(a)] = sent[Peer(a)] /\ Peer(a) # a
  BY StepKeeps, PeerIsOther DEF Keeps
<1>2. CASE ReadHeader(a)
  BY <1>1, <1>2, ReadHeaderStep
<1>3. CASE ReadBody(a)
  BY <1>1, <1>3, ReadBodyStep
<1>4. CASE ~ (ReadHeader(a) \/ ReadBody(a))
  <2>. USE TypedDomains
  <2>1. incoming' = incoming /\ temp' = temp
    BY <1>4 DEF Step, Opens, Refused, Leaves, Exits, Sends, SendMessage, Post, Stop, PushOutbound,
                CloseSocket, WriteHeader, WriteBody, WriteFails, ReadFails
  <2>2. wire'[a] = wire[a]
    <3>1. \A part : [wire EXCEPT ![Peer(a)] = Append(wire[Peer(a)], part)][a] = wire[a]
      BY <1>1
    <3>2. CASE WriteHeader(a) \/ WriteBody(a)
      BY <1>1, <3>2 DEF WriteHeader, WriteBody, Transmit
    <3>3. CASE ~ (WriteHeader(a) \/ WriteBody(a))
      BY <1>4, <3>3 DEF Step, Opens, Refused, Leaves, Exits, Sends, SendMessage, Post, Stop,
                        PushOutbound, CloseSocket, WriteFails, ReadFails
    <3>. QED
      BY <3>2, <3>3
  <2>3. \/ reading' = reading /\ (socket'[a] = "new" => socket[a] = "new")
        \/ reading'[a] = "nothing" /\ (socket'[a] = "new" => socket[a] = "new")
        \/ reading'[a] = "header" /\ socket[a] = "new"
    <3>1. CASE Opens(a)
      BY <3>1 DEF Opens, Opened, Update
    <3>2. CASE Refused(a) \/ Exits(a) \/ Stop(a) \/ CloseSocket(a) \/ ReadFails(a)
      BY <3>2 DEF Refused, Exits, Stop, CloseSocket, ReadFails, Update
    <3>3. CASE ~ (Opens(a) \/ Refused(a) \/ Exits(a) \/ Stop(a) \/ CloseSocket(a) \/ ReadFails(a))
      BY <1>4, <3>3 DEF Step, Leaves, Sends, SendMessage, Post, PushOutbound, WriteHeader,
                        WriteBody, WriteFails
    <3>. QED
      BY <3>1, <3>2, <3>3
  <2>4. Listening(a)' => Listening(a) /\ Reader(a)' = Reader(a)
    BY <2>1, <2>3 DEF Listening, Reader, OwnState
  <2>5. ReaderAt(a, y)'
    BY <1>1, <2>2, <2>4 DEF ReaderAt
  <2>6. reading'[a] = "body" => reading[a] = "body"
    BY <2>3
  <2>7. Arrived(a)'
    BY <1>1, <2>1, <2>6 DEF Arrived
  <2>. QED
    BY <2>5, <2>7
<1>. QED
  BY <1>2, <1>3, <1>4

-----------------------------------------------------------------------------
(***************************************************************************)
(* Sending.                                                                *)
(***************************************************************************)
LEMMA QueuedPost ==
    ASSUME NEW out \in Seq(Messages), NEW post \in Seq(Messages), NEW s \in Seq(Messages),
           NEW n \in Nat, Queued(out, post, s, n), NEW m \in Messages, m # Close
    PROVE  Queued(out, Append(post, m), Append(s, m), n)
<1>. DEFINE p == Append(post, m)
            t == Append(s, m)
            l == Len(post)
            q == n + Len(out)
<1>1. /\ l \in Nat /\ Len(p) = l + 1 /\ p[l + 1] = m /\ \A i \in 1..l : p[i] = post[i]
      /\ Len(s) \in Nat /\ Len(t) = Len(s) + 1 /\ t[Len(s) + 1] = m
      /\ \A i \in 1..Len(s) : t[i] = s[i]
      /\ Len(out) \in Nat /\ q \in Nat
  BY AppendProperties, LenProperties
<1>2. /\ \A i \in 1..Len(out) : n + i <= Len(s) /\ out[i] = s[n + i]
      /\ \A i \in 1..l : NoClose(post, i) => q + i <= Len(s) /\ post[i] = s[q + i]
      /\ NoClose(post, l) => q + l = Len(s)
  BY DEF Queued
<1>. HIDE DEF p, t, l, q
<1>3. ASSUME NEW i \in 0..l PROVE NoClose(p, i) <=> NoClose(post, i)
  <2>1. \A j \in 1..i : p[j] = post[j]
    <3>1. \A j \in 1..i : j \in 1..l
      BY <1>1
    <3>. QED
      BY <1>1, <3>1
  <2>. QED
    BY <2>1 DEF NoClose
<1>4. ASSUME NEW i \in 1..Len(out) PROVE n + i <= Len(t) /\ out[i] = t[n + i]
  <2>1. n + i \in 1..Len(s) /\ out[i] = s[n + i]
    BY <1>1, <1>2
  <2>. QED
    BY <1>1, <2>1
<1>5. ASSUME NEW i \in 1..(l + 1), NoClose(p, i)
      PROVE  q + i <= Len(t) /\ p[i] = t[q + i]
  <2>1. CASE i \in 1..l
    <3>1. NoClose(post, i)
      BY <1>1, <1>3, <1>5, <2>1
    <3>2. q + i \in 1..Len(s) /\ p[i] = s[q + i]
      BY <1>1, <1>2, <2>1, <3>1
    <3>. QED
      BY <1>1, <3>2
  <2>2. CASE i = l + 1
    <3>1. NoClose(post, l)
      BY <1>1, <1>5, <2>2 DEF NoClose
    <3>2. q + i = Len(s) + 1
      BY <1>1, <1>2, <2>2, <3>1
    <3>. QED
      BY <1>1, <2>2, <3>2
  <2>. QED
    BY <1>1, <2>1, <2>2
<1>6. NoClose(p, l + 1) => q + (l + 1) = Len(t)
  <2>. SUFFICES ASSUME NoClose(p, l + 1) PROVE q + (l + 1) = Len(t)
    OBVIOUS
  <2>1. NoClose(post, l)
    BY <1>1 DEF NoClose
  <2>2. q + l = Len(s)
    BY <1>2, <2>1
  <2>3. q \in Nat /\ l \in Nat /\ Len(s) \in Nat /\ Len(t) = Len(s) + 1
    BY <1>1
  <2>. QED
    BY <2>2, <2>3
<1>. QED
  BY <1>1, <1>4, <1>5, <1>6 DEF Queued, p, t, q

\* What is posted behind the close is never written: nothing is said of it.
LEMMA QueuedClose ==
    ASSUME NEW out \in Seq(Messages), NEW post \in Seq(Messages), NEW s \in Seq(Messages),
           NEW n \in Nat, Queued(out, post, s, n)
    PROVE  Queued(out, Append(post, Close), s, n)
<1>. DEFINE p == Append(post, Close)
            l == Len(post)
            q == n + Len(out)
<1>1. l \in Nat /\ Len(p) = l + 1 /\ p[l + 1] = Close /\ \A i \in 1..l : p[i] = post[i]
  BY AppendProperties, LenProperties, CloseType
<1>2. /\ \A i \in 1..Len(out) : n + i <= Len(s) /\ out[i] = s[n + i]
      /\ \A i \in 1..l : NoClose(post, i) => q + i <= Len(s) /\ post[i] = s[q + i]
  BY DEF Queued
<1>. HIDE DEF p, l, q
<1>3. ~ NoClose(p, l + 1)
  BY <1>1 DEF NoClose
<1>4. ASSUME NEW i \in 1..(l + 1), NoClose(p, i)
      PROVE  q + i <= Len(s) /\ p[i] = s[q + i]
  <2>1. i \in 1..l
    BY <1>1, <1>3, <1>4
  <2>2. NoClose(post, i)
    BY <1>1, <1>4, <2>1 DEF NoClose
  <2>. QED
    BY <1>1, <1>2, <2>1, <2>2
<1>. QED
  BY <1>1, <1>2, <1>3, <1>4 DEF Queued, p, q

LEMMA QueuedPush ==
    ASSUME NEW out \in Seq(Messages), NEW post \in Seq(Messages), NEW s \in Seq(Messages),
           NEW n \in Nat, Queued(out, post, s, n), post # <<>>, Head(post) # Close
    PROVE  Queued(Append(out, Head(post)), Tail(post), s, n)
<1>. DEFINE m == Head(post)
            o == Append(out, m)
            p == Tail(post)
            l == Len(post)
            k == Len(out)
<1>1. /\ l \in Nat /\ l >= 1 /\ Len(p) = l - 1 /\ m = post[1] /\ m \in Messages
      /\ \A i \in 1..(l - 1) : p[i] = post[i + 1]
  BY HeadTailProperties, EmptySeq, LenProperties
<1>2. k \in Nat /\ Len(o) = k + 1 /\ o[k + 1] = m /\ \A i \in 1..k : o[i] = out[i]
  BY <1>1, AppendProperties, LenProperties
<1>3. /\ \A i \in 1..k : n + i <= Len(s) /\ out[i] = s[n + i]
      /\ \A i \in 1..l : NoClose(post, i) => n + k + i <= Len(s) /\ post[i] = s[n + k + i]
      /\ NoClose(post, l) => n + k + l = Len(s)
  BY DEF Queued
<1>. HIDE DEF m, o, p, l, k
<1>4. NoClose(post, 1)
  BY <1>1 DEF NoClose, m
<1>5. ASSUME NEW i \in Nat, i <= l - 1, NoClose(p, i) PROVE NoClose(post, i + 1)
  <2>. SUFFICES ASSUME NEW j \in 1..(i + 1) PROVE post[j] # Close
    BY DEF NoClose
  <2>1. CASE j = 1
    BY <1>4, <2>1 DEF NoClose
  <2>2. CASE j # 1
    <3>1. j - 1 \in 1..i /\ j - 1 \in 1..(l - 1) /\ p[j - 1] = post[j]
      BY <1>1, <1>5, <2>2
    <3>. QED
      BY <1>5, <3>1 DEF NoClose
  <2>. QED
    BY <2>1, <2>2
<1>6. ASSUME NEW i \in 1..(k + 1) PROVE n + i <= Len(s) /\ o[i] = s[n + i]
  <2>1. CASE i \in 1..k
    BY <1>2, <1>3, <2>1
  <2>2. CASE i = k + 1
    <3>1. 1 \in 1..l /\ n + k + 1 = n + i
      BY <1>1, <1>2, <2>2
    <3>. QED
      BY <1>1, <1>2, <1>3, <1>4, <2>2, <3>1
  <2>. QED
    BY <1>2, <2>1, <2>2
<1>7. ASSUME NEW i \in 1..(l - 1), NoClose(p, i)
      PROVE  n + (k + 1) + i <= Len(s) /\ p[i] = s[n + (k + 1) + i]
  <2>1. i + 1 \in 1..l /\ p[i] = post[i + 1]
    BY <1>1
  <2>3. n + (k + 1) + i = n + k + (i + 1)
    <3>1. n \in Nat /\ k \in Nat /\ i \in Nat
      BY <1>1, <1>2
    <3>. QED
      BY <3>1
  <2>2. NoClose(post, i + 1)
    BY <1>1, <1>5, <1>7
  <2>. QED
    BY <1>3, <2>1, <2>2, <2>3
<1>8. NoClose(p, l - 1) => n + (k + 1) + (l - 1) = Len(s)
  <2>1. l - 1 \in Nat /\ l - 1 + 1 = l /\ n + (k + 1) + (l - 1) = n + k + l
    BY <1>1, <1>2
  <2>2. NoClose(p, l - 1) => NoClose(post, l)
    BY <1>1, <1>5, <2>1
  <2>. QED
    BY <1>3, <2>1, <2>2
<1>. QED
  BY <1>1, <1>2, <1>6, <1>7, <1>8 DEF Queued, m, o, p

LEMMA QueuedPop ==
    ASSUME NEW out \in Seq(Messages), NEW post \in Seq(Messages), NEW s \in Seq(Messages),
           NEW n \in Nat, Queued(out, post, s, n), out # <<>>
    PROVE  /\ Queued(Tail(out), post, s, n + 1)
           /\ n + 1 \in 1..Len(s) /\ Head(out) = s[n + 1]
<1>. DEFINE o == Tail(out)
            k == Len(out)
<1>1. /\ k \in Nat /\ k >= 1 /\ Len(o) = k - 1 /\ Head(out) = out[1]
      /\ \A i \in 1..(k - 1) : o[i] = out[i + 1]
      /\ Len(s) \in Nat
  BY HeadTailProperties, EmptySeq, LenProperties
<1>2. /\ \A i \in 1..k : n + i <= Len(s) /\ out[i] = s[n + i]
      /\ \A i \in 1..Len(post) :
            NoClose(post, i) => n + k + i <= Len(s) /\ post[i] = s[n + k + i]
      /\ NoClose(post, Len(post)) => n + k + Len(post) = Len(s)
  BY DEF Queued
<1>. HIDE DEF o, k
<1>3. n + 1 \in 1..Len(s) /\ Head(out) = s[n + 1]
  <2>1. 1 \in 1..k
    BY <1>1
  <2>. QED
    BY <1>1, <1>2, <2>1
<1>4. ASSUME NEW i \in 1..(k - 1) PROVE n + 1 + i <= Len(s) /\ o[i] = s[n + 1 + i]
  <2>1. i + 1 \in 1..k /\ n + 1 + i = n + (i + 1) /\ o[i] = out[i + 1]
    BY <1>1
  <2>. QED
    BY <1>2, <2>1
<1>5. n + 1 + (k - 1) = n + k
  BY <1>1
<1>6. Queued(o, post, s, n + 1)
  <2>1. \A i \in 1..Len(o) : n + 1 + i <= Len(s) /\ o[i] = s[n + 1 + i]
    BY <1>1, <1>4
  <2>2. n + 1 + Len(o) = n + k
    BY <1>1, <1>5
  <2>. QED
    BY <1>2, <2>1, <2>2 DEF Queued
<1>. QED
  BY <1>3, <1>6 DEF o

-----------------------------------------------------------------------------
(***************************************************************************)
(* Writing.  The direction is from a to o, which takes no part in the step.*)
(***************************************************************************)
\* What is on its way stays, and the end that sends it has not come further.
LEMMA WireStays ==
    ASSUME NEW a \in Ends, NEW o \in Ends, Peer(o) = a, Keeps(o), NEW n \in Nat, NEW y \in Places,
           ReaderAt(o, y), Arrived(o), wire'[o] = wire[o], sent'[a] = sent[a],
           QueuedFrom(a, n)', WriterAt(a, n, y)'
    PROVE  Direction(o)' /\ Arrived(o)'
<1>1. Listening(o)' = Listening(o) /\ Reader(o)' = Reader(o)
  BY DEF Keeps, Listening, Reader
<1>2. ReaderAt(o, y)'
  BY <1>1 DEF ReaderAt
<1>3. Arrived(o)'
  BY DEF Keeps, Arrived
<1>. QED
  BY <1>2, <1>3 DEF Direction

LEMMA PostStep ==
    ASSUME TypeOK, NEW a \in Ends, OwnState(a), Post(a), NEW o \in Ends, Peer(o) = a, Keeps(o),
           link' = link, NEW n \in Nat, NEW y \in Places, ReaderAt(o, y), QueuedFrom(a, n),
           WriterAt(a, n, y), Arrived(o)
    PROVE  Direction(o)' /\ Arrived(o)'
<1>. DEFINE m == calling[a]
<1>1. /\ m \in Messages /\ posted'[a] = Append(posted[a], m) /\ sent'[a] = Append(sent[a], m)
      /\ wire' = wire
      /\ UNCHANGED <<socket, outbound, writing>>
  BY TypedDomains DEF Post, Update
<1>2. m \in Messages /\ m # Close
  BY <1>1, MessageIsNotClose
<1>3. /\ posted[a] \in Seq(Messages) /\ outbound[a] \in Seq(Messages)
      /\ sent[a] \in Seq(Messages) /\ wire[o] \in Seq(Parts) /\ incoming[o] \in Seq(Received)
  BY EndTypes
<1>. HIDE DEF m
<1>4. QueuedFrom(a, n)'
  BY <1>1, <1>2, <1>3, QueuedPost DEF QueuedFrom, Left
<1>5. WriterAt(a, n, y)'
  BY <1>1 DEF WriterAt, Writes, Writer, Left
<1>6. ReaderAt(o, y)'
  <2>1. Listening(o)' = Listening(o) /\ Reader(o)' = Reader(o)
    BY DEF Keeps, Listening, Reader
  <2>2. Framed(wire[o], sent[a], Reader(o), y) => Framed(wire[o], sent'[a], Reader(o), y)
    BY <1>1, <1>2, <1>3, FramedGrows
  <2>. QED
    BY <1>1, <2>1, <2>2 DEF ReaderAt
<1>7. Match(incoming[o], sent'[a])
  BY <1>1, <1>2, <1>3, MatchGrows DEF Arrived
<1>8. reading[o] = "body" =>
        /\ Len(incoming[o]) < Len(sent'[a])
        /\ sent'[a][Len(incoming[o]) + 1] = sent[a][Len(incoming[o]) + 1]
  <2>1. /\ Len(sent[a]) \in Nat /\ Len(sent'[a]) = Len(sent[a]) + 1 /\ Len(incoming[o]) \in Nat
        /\ \A k \in 1..Len(sent[a]) : sent'[a][k] = sent[a][k]
    BY <1>1, <1>2, <1>3, AppendProperties, LenProperties
  <2>2. reading[o] = "body" => Len(incoming[o]) + 1 \in 1..Len(sent[a])
    BY <2>1 DEF Arrived
  <2>. QED
    BY <2>1, <2>2
<1>9. Arrived(o)'
  BY <1>7, <1>8 DEF Keeps, Arrived
<1>. QED
  BY <1>4, <1>5, <1>6, <1>9 DEF Direction

LEMMA PushStep ==
    ASSUME TypeOK, NEW a \in Ends, OneWrite(a), PushOutbound(a), link' = link,
           NEW n \in Nat, NEW y \in Places, QueuedFrom(a, n), WriterAt(a, n, y)
    PROVE  QueuedFrom(a, n)' /\ WriterAt(a, n, y)'
<1>. DEFINE m == Head(posted[a])
<1>1. /\ posted[a] # <<>> /\ m # Close /\ posted'[a] = Tail(posted[a])
      /\ outbound'[a] = Append(outbound[a], m)
      /\ writing'[a] = IF outbound[a] = <<>> THEN InHeader ELSE writing[a]
      /\ UNCHANGED <<socket, sent>>
  BY TypedDomains, PushOutboundDoes DEF PushOutbound, Update
<1>2. /\ posted[a] \in Seq(Messages) /\ outbound[a] \in Seq(Messages) /\ sent[a] \in Seq(Messages)
      /\ writing[a] \in {Idle, InHeader, InBody}
  BY EndTypes DEF OneWrite
<1>3. outbound'[a] # <<>>
  <2>1. m \in Messages
    BY <1>1, <1>2, HeadTailProperties
  <2>. HIDE DEF m
  <2>2. Append(outbound[a], m) # <<>>
    BY <1>2, <2>1, AppendProperties
  <2>. QED
    BY <1>1, <2>2
<1>4. QueuedFrom(a, n)'
  BY <1>1, <1>2, QueuedPush DEF QueuedFrom, Left
<1>. HIDE DEF m
<1>5. Writes(a)' => Writes(a) /\ Writer(a, n)' = Writer(a, n)
  BY <1>1, <1>2, <1>3, Writings DEF Writes, Writer, OneWrite, Left
<1>. QED
  BY <1>4, <1>5 DEF WriterAt

LEMMA DisconnectingStep ==
    ASSUME TypeOK, NEW a \in Ends, OwnState(a), OneWrite(a), Leaves(a) \/ WriteFails(a) \/ ReadFails(a),
           link' = link, NEW n \in Nat, NEW y \in Places, QueuedFrom(a, n), WriterAt(a, n, y)
    PROVE  QueuedFrom(a, n)' /\ WriterAt(a, n, y)'
<1>1. /\ posted'[a] \in {posted[a], Append(posted[a], Close)}
      /\ UNCHANGED <<socket, outbound, sent>>
  BY DisconnectingDoes DEF Leaves, WriteFails, ReadFails
<1>2. writing'[a] = writing[a] \/ (writing[a] # Idle /\ writing'[a] = Idle)
  BY TypedDomains, WriteFailsDoes DEF Leaves, ReadFails, Update
<1>3. posted[a] \in Seq(Messages) /\ outbound[a] \in Seq(Messages) /\ sent[a] \in Seq(Messages)
  BY EndTypes
<1>4. QueuedFrom(a, n)'
  BY <1>1, <1>3, QueuedClose DEF QueuedFrom, Left
<1>5. Writes(a)' => Writes(a) /\ Writer(a, n)' = Writer(a, n)
  BY <1>1, <1>2, Writings DEF Writes, Writer, OneWrite, Left
<1>. QED
  BY <1>4, <1>5 DEF WriterAt

\* The frame at the place the writer has come to goes on its way, unless the link
\* is down, and with the last frame of a message the message leaves the queue.
LEMMA WriteStep ==
    ASSUME TypeOK, NEW a \in Ends, OneWrite(a), WriteHeader(a) \/ WriteBody(a),
           NEW o \in Ends, Peer(o) = a, Peer(a) = o, Keeps(o), link' = link, NEW n \in Nat,
           NEW y \in Places, ReaderAt(o, y), QueuedFrom(a, n), WriterAt(a, n, y), Arrived(o)
    PROVE  Direction(o)' /\ Arrived(o)'
<1>. DEFINE s == sent[a]
            out == outbound[a]
            m == Head(out)
            f == IF writing[a] = InHeader THEN Header(m) ELSE m.body
            z == Writer(a, n)
            whole == ~ (writing[a] = InHeader /\ m.body # NoBody)
<1>1. /\ posted[a] \in Seq(Messages) /\ out \in Seq(Messages) /\ s \in Seq(Messages)
      /\ wire[o] \in Seq(Parts) /\ socket[a] = "open" /\ out # <<>>
      /\ writing[a] \in {InHeader, InBody} /\ InHeader # InBody
  BY EndTypes, WriteHeaderDoes, WriteBodyDoes, Writings DEF OneWrite
<1>2. /\ wire'[o] = IF link THEN Append(wire[o], f) ELSE wire[o]
      /\ IF whole
           THEN outbound'[a] = Tail(out) /\ writing'[a] # InBody
           ELSE outbound'[a] = out /\ writing'[a] = InBody
      /\ UNCHANGED <<socket, posted, sent>>
  <2>1. CASE WriteHeader(a)
    <3>1. writing[a] = InHeader /\ UNCHANGED <<socket, posted, sent>>
      BY <2>1, WriteHeaderDoes
    <3>2. wire'[o] = IF link THEN Append(wire[o], Header(m)) ELSE wire[o]
      BY <2>1, WriteHeaderDoes, TypedDomains DEF Transmit
    <3>3. IF m.body # NoBody
            THEN outbound'[a] = out /\ writing'[a] = InBody
            ELSE outbound'[a] = Tail(out) /\ writing'[a] # InBody
      BY <2>1, WriteHeaderDoes, TypedDomains, Writings DEF Update
    <3>. QED
      BY <3>1, <3>2, <3>3
  <2>2. CASE WriteBody(a)
    <3>1. writing[a] = InBody /\ UNCHANGED <<socket, posted, sent>>
      BY <2>2, WriteBodyDoes
    <3>2. wire'[o] = IF link THEN Append(wire[o], m.body) ELSE wire[o]
      BY <2>2, WriteBodyDoes, <1>1, TypedDomains DEF Transmit
    <3>3. outbound'[a] = Tail(out) /\ writing'[a] # InBody
      BY <2>2, WriteBodyDoes, TypedDomains, Writings DEF Update
    <3>. QED
      BY <1>1, <3>1, <3>2, <3>3
  <2>. QED
    BY <2>1, <2>2
<1>3. /\ Queued(out, posted[a], s, n) /\ Queued(Tail(out), posted[a], s, n + 1)
      /\ n + 1 \in 1..Len(s) /\ m = s[n + 1]
  BY <1>1, QueuedPop DEF QueuedFrom, Left
<1>4. m \in Messages
  BY <1>1, HeadTailProperties
<1>5. z \in Places /\ IsFrame(s, z) /\ f = Frame(s, z) /\ f \in Parts
  <2>1. f \in Parts
    BY <1>4, HeaderType DEF Parts
  <2>2. z = Place(n + 1, IF writing[a] = InBody THEN "body" ELSE "header")
    BY <1>1 DEF Writer
  <2>3. writing[a] = InBody => m.body # NoBody
    BY <1>1 DEF OneWrite
  <2>. HIDE DEF m, z
  <2>4. z \in Places /\ IsFrame(s, z) /\ Frame(s, z) = IF writing[a] = InHeader THEN Header(m) ELSE m.body
    BY <1>1, <1>3, <2>2, <2>3 DEF Places, Place, IsFrame, Frame
  <2>. QED
    BY <2>1, <2>4
<1>6. PICK k \in Nat : k = IF whole THEN n + 1 ELSE n
  OBVIOUS
<1>7. QueuedFrom(a, k)'
  BY <1>2, <1>3, <1>6 DEF QueuedFrom, Left
<1>8. PICK v \in Places : v = After(s, z)
  BY <1>5, AfterType
<1>9. Writer(a, k)' = v
  <2>1. z = Place(n + 1, IF writing[a] = InBody THEN "body" ELSE "header")
    BY <1>1 DEF Writer
  <2>. HIDE DEF m, z, out
  <2>2. After(s, z) = IF whole THEN Place(n + 2, "header") ELSE Place(n + 1, "body")
    BY <1>1, <1>3, <2>1 DEF After, Place
  <2>3. Writer(a, k)' = IF whole THEN Place(n + 2, "header") ELSE Place(n + 1, "body")
    <3>1. k + 1 = IF whole THEN n + 2 ELSE n + 1
      BY <1>6
    <3>. QED
      BY <1>2, <3>1 DEF Writer
  <2>. QED
    BY <1>8, <2>2, <2>3
<1>10. Listening(o)' = Listening(o) /\ Reader(o)' = Reader(o) /\ Reader(o) \in Places
  <2>1. Len(incoming[o]) + 1 \in Nat \ {0}
    BY EndTypes, LenProperties
  <2>. QED
    BY <2>1 DEF Keeps, Listening, Reader, Places, Place
<1>11. Arrived(o)'
  BY <1>2 DEF Keeps, Arrived
<1>. HIDE DEF f, m, z, out, whole
<1>12. CASE link
  <2>1. y = z
    <3>1. writing[a] # Idle
      BY <1>1, Writings
    <3>. QED
      BY <1>1, <1>12, <3>1 DEF WriterAt, Writes, Left, z
  <2>2. Framed(wire[o], s, Reader(o), z) => Framed(wire'[o], s, Reader(o), v)
    BY <1>1, <1>2, <1>5, <1>8, <1>10, <1>12, FramedAppend
  <2>3. ReaderAt(o, v)'
    BY <1>2, <1>10, <2>1, <2>2 DEF ReaderAt, s
  <2>4. WriterAt(a, k, v)'
    BY <1>9 DEF WriterAt
  <2>. QED
    BY <1>11, <1>7, <2>3, <2>4 DEF Direction
<1>13. CASE ~ link
  <2>1. ReaderAt(o, y)'
    BY <1>2, <1>10, <1>13 DEF ReaderAt
  <2>2. WriterAt(a, k, y)'
    BY <1>13 DEF WriterAt, Writes, Left
  <2>. QED
    BY <1>11, <1>7, <2>1, <2>2 DEF Direction
<1>. QED
  BY <1>12, <1>13

\* A step of an end, and the direction from it.
LEMMA StepWriter ==
    ASSUME TypeOK, NEW a \in Ends, OwnState(a), OneWrite(a), Step(a),
           NEW o \in Ends, Peer(o) = a, Peer(a) = o, o # a, NEW n \in Nat, NEW y \in Places,
           ReaderAt(o, y), QueuedFrom(a, n), WriterAt(a, n, y), Arrived(o)
    PROVE  Direction(o)' /\ Arrived(o)'
<1>1. Keeps(o) /\ link' = link
  BY StepKeeps
<1>2. CASE Post(a)
  BY <1>1, <1>2, PostStep
<1>3. CASE WriteHeader(a) \/ WriteBody(a)
  BY <1>1, <1>3, WriteStep
<1>4. CASE ~ (Post(a) \/ WriteHeader(a) \/ WriteBody(a))
  <2>1. wire'[o] = wire[o] /\ sent' = sent
    BY <1>4, TypedDomains DEF Step, Opens, Refused, Leaves, Exits, Sends, SendMessage, Stop, PushOutbound,
       CloseSocket, WriteFails, ReadHeader, ReadBody, ReadFails, Update
  <2>2. CASE PushOutbound(a)
    BY <1>1, <2>1, <2>2, PushStep, WireStays
  <2>3. CASE Leaves(a) \/ WriteFails(a) \/ ReadFails(a)
    BY <1>1, <2>1, <2>3, DisconnectingStep, WireStays
  <2>4. CASE Opens(a) \/ Sends(a) \/ ReadHeader(a) \/ ReadBody(a)
    <3>1. /\ Left(a)' <=> Left(a)
          /\ UNCHANGED <<posted, outbound, writing>>
      <4>1. CASE Opens(a)
        BY <4>1, TypedDomains DEF Opens, Opened, Update, Left
      <4>2. CASE Sends(a) \/ ReadHeader(a) \/ ReadBody(a)
        BY <4>2 DEF Sends, SendMessage, ReadHeader, ReadBody, Left
      <4>. QED
        BY <2>4, <4>1, <4>2
    <3>2. QueuedFrom(a, n)' /\ WriterAt(a, n, y)'
      BY <1>1, <2>1, <3>1 DEF QueuedFrom, WriterAt, Left, Writes, Writer
    <3>. QED
      BY <1>1, <2>1, <3>2, WireStays
  <2>5. CASE Refused(a) \/ Exits(a) \/ Stop(a) \/ CloseSocket(a)
    <3>1. Left(a)'
      BY <2>5, TypedDomains DEF Refused, Exits, Stop, CloseSocket, Update, Left
    <3>2. QueuedFrom(a, n)' /\ WriterAt(a, n, y)'
      BY <3>1 DEF QueuedFrom, WriterAt, Left, Writes
    <3>. QED
      BY <1>1, <2>1, <3>2, WireStays
  <2>. QED
    BY <1>4, <2>2, <2>3, <2>4, <2>5 DEF Step
<1>. QED
  BY <1>2, <1>3, <1>4

\* A step of an end, and the direction to it.
LEMMA StepDirection ==
    ASSUME TypeOK, NEW a \in Ends, OwnState(a), Arrived(a), Step(a), Direction(a)
    PROVE  Direction(a)' /\ Arrived(a)'
<1>. DEFINE o == Peer(a)
<1>1. o \in Ends /\ o # a
  BY PeerIsOther
<1>2. Keeps(o) /\ link' = link
  BY <1>1, StepKeeps
<1>3. PICK n \in Nat, y \in Places : ReaderAt(a, y) /\ QueuedFrom(o, n) /\ WriterAt(o, n, y)
  BY DEF Direction
<1>. HIDE DEF o
<1>4. ReaderAt(a, y)' /\ Arrived(a)'
  BY <1>3, StepReader
<1>5. QueuedFrom(o, n)' /\ WriterAt(o, n, y)'
  BY <1>2, <1>3 DEF Keeps, QueuedFrom, WriterAt, Writes, Writer, Left
<1>. QED
  BY <1>4, <1>5 DEF Direction, o

-----------------------------------------------------------------------------
(***************************************************************************)
(* Every step keeps the invariant.                                         *)
(***************************************************************************)
\* A function on the ends with one value replaced.
LEMMA UpdateType ==
    ASSUME NEW S, NEW f \in [Ends -> S], NEW e, NEW v \in S
    PROVE  [f EXCEPT ![e] = v] \in [Ends -> S] /\ Update(f, e, v) \in [Ends -> S]
BY DEF Update

LEMMA StepType ==
    ASSUME TypeOK, NEW a \in Ends, OwnState(a), OneWrite(a), Arrived(a), Direction(a), Step(a)
    PROVE  TypeOK'
<1>. USE DEF TypeOK
<1>. DEFINE o == Peer(a)
<1>1. /\ posted[a] \in Seq(Messages) /\ outbound[a] \in Seq(Messages) /\ sent[a] \in Seq(Messages)
      /\ incoming[a] \in Seq(Received) /\ wire[a] \in Seq(Parts) /\ wire[o] \in Seq(Parts)
      /\ temp[a] \in Received /\ calling[a] \in Messages \cup {NoMessage, Leaving} /\ o \in Ends
  BY EndTypes, PeerIsOther
<1>2. CASE Opens(a)
  <2>1. /\ socket' = Update(socket, a, "open") /\ connected' = Update(connected, a, TRUE)
        /\ reading' = Update(reading, a, "header")
        /\ UNCHANGED <<link, wire, posted, outbound, writing, temp, incoming, calling, sent>>
    BY <1>2 DEF Opens, Opened
  <2>2. /\ socket' \in [Ends -> {"new", "open", "abandoned", "closed"}]
        /\ connected' \in [Ends -> BOOLEAN]
        /\ reading' \in [Ends -> {"nothing", "header", "body"}]
    BY <2>1, UpdateType
  <2>. QED
    BY <2>1, <2>2
<1>3. CASE Refused(a) \/ Exits(a)
  <2>1. socket' = Update(socket, a, "closed")
        /\ UNCHANGED <<connected, link, wire, posted, outbound, writing, reading, temp, incoming,
                       calling, sent>>
    BY <1>3 DEF Refused, Exits
  <2>2. socket' \in [Ends -> {"new", "open", "abandoned", "closed"}]
    BY <2>1, UpdateType
  <2>. QED
    BY <2>1, <2>2
<1>4. CASE Leaves(a) \/ WriteFails(a) \/ ReadFails(a)
  <2>1. connected' \in [Ends -> BOOLEAN] /\ posted' \in [Ends -> Seq(Messages)]
    <3>1. Append(posted[a], Close) \in Seq(Messages)
      BY <1>1, CloseType, AppendProperties
    <3>2. Disconnecting(a)
      BY <1>4 DEF Leaves, WriteFails, ReadFails
    <3>3. connected' \in {connected, Update(connected, a, FALSE)}
      BY <3>2 DEF Disconnecting
    <3>4. posted' \in {posted, [posted EXCEPT ![a] = Append(posted[a], Close)]}
      BY <3>2 DEF Disconnecting
    <3>5. connected' \in [Ends -> BOOLEAN]
      BY <3>3 DEF Update
    <3>6. posted' \in [Ends -> Seq(Messages)]
      BY <3>1, <3>4
    <3>. QED
      BY <3>5, <3>6
  <2>2. /\ writing' \in [Ends -> Seq({"header", "body"})]
        /\ reading' \in [Ends -> {"nothing", "header", "body"}]
    <3>1. writing' \in {writing, Update(writing, a, Idle)}
      BY <1>4, WriteFailsDoes DEF Leaves, ReadFails
    <3>2. Idle \in Seq({"header", "body"})
      BY Writings
    <3>3. writing' \in [Ends -> Seq({"header", "body"})]
      BY <3>1, <3>2 DEF Update
    <3>4. reading' \in [Ends -> {"nothing", "header", "body"}]
      BY <1>4 DEF Leaves, WriteFails, ReadFails, Update
    <3>. QED
      BY <3>3, <3>4
  <2>3. UNCHANGED <<socket, link, wire, outbound, temp, incoming, sent>>
    BY <1>4 DEF Leaves, WriteFails, ReadFails
  <2>4. calling' \in [Ends -> Messages \cup {NoMessage, Leaving}]
    <3>1. calling' \in {calling, Update(calling, a, Leaving)}
      BY <1>4 DEF Leaves, WriteFails, ReadFails
    <3>. QED
      BY <3>1 DEF Update
  <2>. QED
    BY <2>1, <2>2, <2>3, <2>4
<1>5. CASE Sends(a)
  <2>1. PICK b \in AllBodies : SendMessage(a, b)
    BY <1>5 DEF Sends
  <2>2. [number |-> Len(sent[a]) + 1, body |-> b] \in Messages
    BY <1>1, LenProperties DEF Messages
  <2>3. calling' \in [Ends -> Messages \cup {NoMessage, Leaving}]
    BY <2>1, <2>2, UpdateType DEF SendMessage
  <2>. QED
    BY <2>1, <2>3 DEF SendMessage
<1>6. CASE Post(a)
  <2>1. calling[a] \in Messages
    BY <1>1, <1>6 DEF Post
  <2>2. Append(posted[a], calling[a]) \in Seq(Messages) /\ Append(sent[a], calling[a]) \in Seq(Messages)
    BY <1>1, <2>1, AppendProperties
  <2>3. /\ posted' \in [Ends -> Seq(Messages)] /\ sent' \in [Ends -> Seq(Messages)]
        /\ calling' \in [Ends -> Messages \cup {NoMessage, Leaving}]
    BY <1>6, <2>2, UpdateType DEF Post
  <2>. QED
    BY <1>6, <2>3 DEF Post
<1>7. CASE Stop(a)
  <2>1. <<>> \in Seq(Messages)
    BY EmptySeq
  <2>2. /\ socket' \in [Ends -> {"new", "open", "abandoned", "closed"}]
        /\ posted' \in [Ends -> Seq(Messages)]
        /\ writing' \in [Ends -> Seq({"header", "body"})]
        /\ reading' \in [Ends -> {"nothing", "header", "body"}]
    BY <1>7, <2>1, Writings, UpdateType DEF Stop, Idle
  <2>. QED
    BY <1>7, <2>2 DEF Stop
<1>8. CASE PushOutbound(a)
  <2>1. /\ Tail(posted[a]) \in Seq(Messages)
        /\ Append(outbound[a], Head(posted[a])) \in Seq(Messages)
    BY <1>1, <1>8, HeadTailProperties, AppendProperties DEF PushOutbound
  <2>2. /\ posted' \in [Ends -> Seq(Messages)] /\ outbound' \in [Ends -> Seq(Messages)]
        /\ writing' \in [Ends -> Seq({"header", "body"})]
    <3>1. posted' \in [Ends -> Seq(Messages)] /\ outbound' \in [Ends -> Seq(Messages)]
      BY <1>8, <2>1, UpdateType DEF PushOutbound
    <3>2. writing' \in {writing, Update(writing, a, InHeader)}
      BY <1>8, PushOutboundDoes DEF Update
    <3>3. InHeader \in Seq({"header", "body"})
      BY Writings
    <3>4. writing' \in [Ends -> Seq({"header", "body"})]
      BY <3>2, <3>3 DEF Update
    <3>. QED
      BY <3>1, <3>4
  <2>. QED
    BY <1>8, <2>2 DEF PushOutbound
<1>9. CASE CloseSocket(a)
  <2>1. Tail(posted[a]) \in Seq(Messages)
    BY <1>1, <1>9, HeadTailProperties DEF CloseSocket
  <2>. QED
    BY <1>9, <2>1, UpdateType DEF CloseSocket
<1>10. CASE WriteHeader(a) \/ WriteBody(a)
  <2>1. Head(outbound[a]) \in Messages /\ Tail(outbound[a]) \in Seq(Messages)
    BY <1>1, <1>10, WriteHeaderDoes, WriteBodyDoes, HeadTailProperties DEF OneWrite
  <2>2. ASSUME NEW part \in Parts, Transmit(a, part)
        PROVE  wire' \in [Ends -> Seq(Headers \cup AllBodies)]
    <3>1. Append(wire[o], part) \in Seq(Headers \cup AllBodies)
      BY <1>1, AppendProperties DEF Parts
    <3>. QED
      BY <2>2, <3>1, UpdateType DEF Transmit
  <2>3. wire' \in [Ends -> Seq(Headers \cup AllBodies)]
    <3>1. Header(Head(outbound[a])) \in Parts /\ Head(outbound[a]).body \in Parts
      BY <2>1, HeaderType DEF Parts
    <3>2. \/ Transmit(a, Header(Head(outbound[a])))
          \/ Transmit(a, Head(outbound[a]).body)
      BY <1>10 DEF WriteHeader, WriteBody
    <3>. QED
      BY <2>2, <3>1, <3>2
  <2>4. /\ outbound' \in [Ends -> Seq(Messages)]
        /\ writing' \in [Ends -> Seq({"header", "body"})]
    <3>1. outbound' \in {outbound, Update(outbound, a, Tail(outbound[a]))}
      BY <1>10, WriteHeaderDoes, WriteBodyDoes
    <3>2. writing' \in {Update(writing, a, Idle), Update(writing, a, InHeader),
                       Update(writing, a, InBody)}
      BY <1>10, WriteHeaderDoes, WriteBodyDoes
    <3>3. outbound' \in [Ends -> Seq(Messages)]
      BY <2>1, <3>1 DEF Update
    <3>4. \A v \in {Idle, InHeader, InBody} : v \in Seq({"header", "body"})
      BY Writings
    <3>5. writing' \in [Ends -> Seq({"header", "body"})]
      BY <3>2, <3>4 DEF Update
    <3>. QED
      BY <3>3, <3>5
  <2>. QED
    BY <1>10, <2>3, <2>4 DEF WriteHeader, WriteBody
<1>11. CASE ReadHeader(a) \/ ReadBody(a)
  <2>1. sent'[o] = sent[o]
    BY <1>11 DEF ReadHeader, ReadBody
  <2>2. PICK y \in Places : ReaderAt(a, y)
    BY DEF Direction
  <2>3. /\ ReadHeader(a) => Head(wire[a]) \in Headers
        /\ ReadBody(a) => Head(wire[a]) \in AllBodies
    BY <2>1, <2>2, ReadHeaderStep, ReadBodyStep
  <2>4. temp' \in [Ends -> Received] /\ temp'[a] \in Received
    <3>1. CASE ReadHeader(a)
      <4>1. [temp[a] EXCEPT !.header = Head(wire[a])] \in Received
        BY <1>1, <2>3, <3>1 DEF Received
      <4>. QED
        BY <3>1, <4>1, UpdateType DEF ReadHeader
    <3>2. CASE ReadBody(a)
      <4>1. [temp[a] EXCEPT !.body = Head(wire[a])] \in Received
        BY <1>1, <2>3, <3>2 DEF Received
      <4>. QED
        BY <3>2, <4>1, UpdateType DEF ReadBody
    <3>. QED
      BY <1>11, <3>1, <3>2
  <2>5. Append(incoming[a], temp'[a]) \in Seq(Received)
    BY <1>1, <2>4, AppendProperties
  <2>6. Tail(wire[a]) \in Seq(Headers \cup AllBodies)
    BY <1>1, <1>11, HeadTailProperties DEF ReadHeader, ReadBody, Parts
  <2>7. /\ wire' \in [Ends -> Seq(Headers \cup AllBodies)]
        /\ incoming' \in [Ends -> Seq(Received)]
        /\ reading' \in [Ends -> {"nothing", "header", "body"}]
    <3>1. wire' = Update(wire, a, Tail(wire[a]))
      BY <1>11 DEF ReadHeader, ReadBody
    <3>2. incoming' \in {incoming, [incoming EXCEPT ![a] = Append(incoming[a], temp'[a])]}
      BY <1>11 DEF ReadHeader, ReadBody, AddToIncoming
    <3>3. reading' \in {Update(reading, a, "header"), Update(reading, a, "body")}
      BY <1>11 DEF ReadHeader, ReadBody, AddToIncoming
    <3>4. wire' \in [Ends -> Seq(Headers \cup AllBodies)]
      BY <2>6, <3>1, UpdateType
    <3>5. incoming' \in [Ends -> Seq(Received)]
      BY <2>5, <3>2
    <3>6. reading' \in [Ends -> {"nothing", "header", "body"}]
      BY <3>3 DEF Update
    <3>. QED
      BY <3>4, <3>5, <3>6
  <2>. QED
    BY <1>11, <2>4, <2>7 DEF ReadHeader, ReadBody
<1>. QED
  BY <1>2, <1>3, <1>4, <1>5, <1>6, <1>7, <1>8, <1>9, <1>10, <1>11 DEF Step

LEMMA InvInductive == Inv /\ [Next]_vars => Inv'
<1>. SUFFICES ASSUME Inv, [Next]_vars PROVE Inv'
  OBVIOUS
<1>1. TypeOK /\ \A e \in Ends : OwnState(e) /\ OneWrite(e) /\ Direction(e) /\ Arrived(e)
  BY DEF Inv
<1>2. ASSUME NEW a \in Ends, Step(a) PROVE Inv'
  <2>. DEFINE o == Peer(a)
  <2>1. o \in Ends /\ o # a /\ Peer(o) = a /\ \A e \in Ends : e \in {a, o}
    BY DEF Ends, Peer
  <2>2. TypeOK'
    BY <1>1, <1>2, StepType
  <2>3. OwnState(a)' /\ OneWrite(a)'
    BY <1>1, <1>2, StepOwn
  <2>4. OwnState(o)' /\ OneWrite(o)'
    <3>1. Keeps(o)
      BY <1>1, <1>2, <2>1, StepKeeps
    <3>. QED
      BY <1>1, <2>1, <3>1 DEF Keeps, OwnState, OneWrite, IsConnected
  <2>5. Direction(a)' /\ Arrived(a)'
    BY <1>1, <1>2, StepDirection
  <2>6. Direction(o)' /\ Arrived(o)'
    <3>1. PICK n \in Nat, y \in Places : ReaderAt(o, y) /\ QueuedFrom(a, n) /\ WriterAt(a, n, y)
      BY <1>1, <2>1 DEF Direction
    <3>. QED
      BY <1>1, <1>2, <2>1, <3>1, StepWriter
  <2>. HIDE DEF o
  <2>7. \A e \in Ends : (OwnState(e) /\ OneWrite(e) /\ Direction(e) /\ Arrived(e))'
    BY <2>1, <2>3, <2>4, <2>5, <2>6
  <2>. QED
    BY <2>2, <2>7 DEF Inv
<1>3. CASE Break
  <2>1. link' = FALSE /\ UNCHANGED <<socket, connected, wire, posted, outbound, writing, reading,
                                     temp, incoming, calling, sent>>
    BY <1>3 DEF Break
  <2>2. TypeOK' /\ \A e \in Ends : (OwnState(e) /\ OneWrite(e) /\ Arrived(e))'
    BY <1>1, <2>1, ZenonT(30) DEF TypeOK, OwnState, OneWrite, IsConnected, Arrived
  <2>3. ASSUME NEW e \in Ends PROVE Direction(e)'
    BY <1>1, <2>1 DEF Direction, ReaderAt, QueuedFrom, WriterAt, Listening, Reader, Writes, Left
  <2>. QED
    BY <2>2, <2>3 DEF Inv
<1>4. CASE UNCHANGED vars
  <2>1. TypeOK' /\ \A e \in Ends : (OwnState(e) /\ OneWrite(e) /\ Arrived(e))'
    BY <1>1, <1>4 DEF vars, TypeOK, OwnState, OneWrite, IsConnected, Arrived
  <2>2. ASSUME NEW e \in Ends PROVE Direction(e)'
    BY <1>1, <1>4 DEF vars, Direction, ReaderAt, QueuedFrom, WriterAt, Listening, Reader, Writes, Writer, Left
  <2>. QED
    BY <2>1, <2>2 DEF Inv
<1>. QED
  BY <1>1, <1>2, <1>3, <1>4, NextIsStep

-----------------------------------------------------------------------------
\* The two connections and what is between them keep the invariant, for any
\* bodies, any hash of them and any number of messages.
THEOREM Invariant == Spec => []Inv
<1>. QED
  BY InitInv, InvInductive, PTL DEF Spec

\* What is read as a header is a header and what is read as a body is a body:
\* no handler puts a frame of the wrong kind into m_temp_in.
THEOREM TypeSafe == Spec => []TypeOK
<1>1. Inv => TypeOK
  BY DEF Inv
<1>. QED
  BY <1>1, Invariant, PTL

\* An end never has two writes pending on its socket, although the handler of a
\* write and the posted function of send_message both begin writes, and as long
\* as it is connected it has one exactly when m_outbound is not empty.
THEOREM WritesOneAtATime == Spec => []OneWriteAtATime
<1>1. ASSUME Inv, NEW e \in Ends PROVE Len(writing[e]) <= 1
  <2>1. CASE writing[e] = <<>>
    BY <2>1
  <2>2. CASE writing[e] = <<"header">>
    BY <2>2
  <2>3. CASE writing[e] = <<"body">>
    BY <2>3
  <2>. QED
    BY <1>1, <2>1, <2>2, <2>3 DEF Inv, OneWrite, Idle, InHeader, InBody
<1>2. Inv => OneWriteAtATime
  BY <1>1 DEF Inv, OneWrite, OneWriteAtATime, Idle, InBody
<1>. QED
  BY <1>2, Invariant, PTL

\* Nothing that the client is given has the number of the greeting, which the
\* server sends before the connection counts as connected.
THEOREM NoGreeting == Spec => []NeverGreeted
<1>1. Inv => NeverGreeted
  <2>. SUFFICES ASSUME Inv, NEW k \in DOMAIN incoming["client"]
                PROVE  incoming["client"][k].header.number # 0
    BY DEF NeverGreeted
  <2>. DEFINE s == sent["server"]
  <2>1. "client" \in Ends /\ "server" \in Ends /\ Peer("client") = "server"
    BY DEF Ends, Peer
  <2>2. incoming["client"] \in Seq(Received) /\ s \in Seq(Messages)
    BY <2>1, EndTypes DEF Inv
  <2>3. k \in 1..Len(incoming["client"]) /\ k \in 1..Len(s)
    <3>1. Len(incoming["client"]) <= Len(s)
      BY <2>1 DEF Inv, Arrived, Match
    <3>. QED
      BY <2>2, <3>1, LenProperties
  <2>4. incoming["client"][k].header = Header(s[k]) /\ s[k].number = k
    BY <2>1, <2>3 DEF Inv, Arrived, Match, OwnState
  <2>5. s[k] \in Messages
    BY <2>2, <2>3, ElementOfSeq
  <2>. QED
    BY <2>3, <2>4, <2>5, HeaderType
<1>. QED
  BY <1>1, Invariant, PTL

\* The frames of messages: a body follows the header of a message that has one.
LEMMA FramedKinds ==
    ASSUME NEW w, Len(w) \in Nat, NEW s \in Seq(Messages), NEW x \in Places, NEW y, Framed(w, s, x, y)
    PROVE  \A i \in 1..Len(w) :
              w[i] \in AllBodies <=> IF i = 1 THEN x.part = "body"
                                              ELSE w[i - 1] \in Headers /\ w[i - 1].sized
<1>1. PICK at \in [1..(Len(w) + 1) -> Places] :
        /\ at[1] = x
        /\ \A i \in 1..Len(w) : IsFrame(s, at[i]) /\ w[i] = Frame(s, at[i]) /\ at[i + 1] = After(s, at[i])
  BY DEF Framed
<1>2. ASSUME NEW i \in 1..Len(w)
      PROVE  /\ w[i] \in AllBodies <=> at[i].part = "body"
             /\ at[i + 1].part = "body" <=> w[i] \in Headers /\ w[i].sized
  <2>. DEFINE m == s[at[i].number]
  <2>1. at[i] \in Places /\ m \in Messages
    <3>1. at[i] \in Places
      BY <1>1
    <3>2. at[i].number \in 1..Len(s)
      BY <1>1 DEF IsFrame
    <3>. QED
      BY <3>1, <3>2, ElementOfSeq
  <2>2. Header(m) \in Headers /\ Header(m).sized = (m.body # NoBody) /\ m.body \in AllBodies
    BY <2>1, HeaderType
  <2>3. \A b \in AllBodies : b \notin Headers
    BY ConnectionAssumption DEF AllBodies, Headers
  <2>4. at[i].part \in {"header", "body"}
    BY <2>1 DEF Places
  <2>5. w[i] = IF at[i].part = "header" THEN Header(m) ELSE m.body
    BY <1>1 DEF Frame
  <2>6. at[i + 1].part = IF at[i].part = "header" /\ m.body # NoBody THEN "body" ELSE "header"
    <3>1. at[i + 1] = After(s, at[i])
      BY <1>1
    <3>. QED
      BY <3>1 DEF After, Place
  <2>. HIDE DEF m
  <2>7. CASE at[i].part = "header"
    BY <2>2, <2>3, <2>5, <2>6, <2>7
  <2>8. CASE at[i].part = "body"
    BY <2>2, <2>3, <2>5, <2>6, <2>8
  <2>. QED
    BY <2>4, <2>7, <2>8
<1>3. ASSUME NEW i \in 1..Len(w), i # 1
      PROVE  w[i] \in AllBodies <=> w[i - 1] \in Headers /\ w[i - 1].sized
  <2>1. i - 1 \in 1..Len(w) /\ i - 1 + 1 = i
    BY <1>3
  <2>. QED
    BY <1>2, <2>1
<1>. QED
  BY <1>1, <1>2, <1>3

\* A receiver that waits for a header has a header before it, and one that waits
\* for a body a body, whatever is still on its way behind it.
THEOREM FramesAgree == Spec => []FramesMatch
<1>1. ASSUME Inv, NEW e \in Ends, reading[e] # "nothing" \/ socket[e] = "new",
             NEW i \in DOMAIN WireOf(e)
      PROVE  WireOf(e)[i] \in AllBodies
                <=> i > 1 /\ WireOf(e)[i - 1] \in Headers /\ WireOf(e)[i - 1].sized
  <2>. DEFINE w == wire[e]
              s == sent[Peer(e)]
              x == Reader(e)
              h == temp[e].header
  <2>1. w \in Seq(Parts) /\ s \in Seq(Messages) /\ Len(w) \in Nat /\ temp[e] \in Received
    BY <1>1, EndTypes, PeerIsOther, LenProperties DEF Inv
  <2>2. PICK y \in Places : Framed(w, s, x, y)
    BY <1>1 DEF Inv, Direction, ReaderAt, Listening
  <2>3. x \in Places /\ x.part = IF reading[e] = "body" THEN "body" ELSE "header"
    <3>1. Len(incoming[e]) + 1 \in Nat \ {0}
      BY <1>1, EndTypes, LenProperties DEF Inv
    <3>. QED
      BY <3>1 DEF Reader, Places, Place
  <2>4. \A j \in 1..Len(w) :
           w[j] \in AllBodies <=> IF j = 1 THEN x.part = "body"
                                           ELSE w[j - 1] \in Headers /\ w[j - 1].sized
    BY <2>1, <2>2, <2>3, FramedKinds
  <2>. HIDE DEF w, x
  <2>5. CASE reading[e] # "body"
    <3>1. WireOf(e) = w
      BY <2>5 DEF WireOf, w
    <3>2. i \in 1..Len(w)
      BY <2>1, <3>1, LenProperties
    <3>. QED
      BY <2>1, <2>3, <2>4, <2>5, <3>1, <3>2
  <2>6. CASE reading[e] = "body"
    <3>. DEFINE v == <<h>> \o w
    <3>1. WireOf(e) = v
      BY <2>6 DEF WireOf, w
    <3>2. h \in Headers /\ h.sized /\ h \notin AllBodies
      <4>1. /\ h = Header(s[Len(incoming[e]) + 1]) /\ s[Len(incoming[e]) + 1].body # NoBody
            /\ Len(incoming[e]) < Len(s)
        BY <1>1, <2>6 DEF Inv, Arrived
      <4>2. Len(incoming[e]) + 1 \in 1..Len(s)
        BY <1>1, <2>1, <4>1, EndTypes, LenProperties DEF Inv
      <4>3. s[Len(incoming[e]) + 1] \in Messages
        BY <2>1, <4>2, ElementOfSeq
      <4>4. \A b \in AllBodies : b \notin Headers
        BY ConnectionAssumption DEF AllBodies, Headers
      <4>. QED
        BY <4>1, <4>3, <4>4, HeaderType
    <3>3. <<h>> \in Seq(Parts) /\ Len(<<h>>) = 1 /\ <<h>>[1] = h
      BY <3>2 DEF Parts
    <3>. HIDE DEF h
    <3>4. /\ v \in Seq(Parts) /\ Len(v) = Len(w) + 1 /\ v[1] = h
          /\ \A j \in 2..(Len(w) + 1) : v[j] = w[j - 1]
      <4>1. /\ v \in Seq(Parts) /\ Len(v) = 1 + Len(w)
            /\ \A j \in 1..(1 + Len(w)) : v[j] = IF j <= 1 THEN <<h>>[j] ELSE w[j - 1]
        BY <2>1, <3>3, ConcatProperties
      <4>. QED
        BY <2>1, <3>3, <4>1
    <3>. HIDE DEF v
    <3>5. i \in 1..(Len(w) + 1)
      BY <3>1, <3>4, LenProperties
    <3>6. CASE i = 1
      BY <3>1, <3>2, <3>4, <3>6
    <3>7. CASE i = 2
      <4>1. v[2] = w[1] /\ v[1] = h /\ 1 \in 1..Len(w)
        BY <2>1, <3>4, <3>5, <3>7
      <4>2. v[2] \in AllBodies
        BY <2>3, <2>4, <2>6, <4>1
      <4>3. i > 1 /\ i - 1 = 1
        BY <3>7
      <4>. QED
        BY <3>1, <3>2, <3>7, <4>1, <4>2, <4>3
    <3>8. CASE i > 2
      <4>1. /\ v[i] = w[i - 1] /\ v[i - 1] = w[i - 1 - 1] /\ i - 1 \in 1..Len(w)
            /\ i - 1 # 1 /\ i > 1
        BY <2>1, <3>4, <3>5, <3>8
      <4>. QED
        BY <2>4, <3>1, <4>1
    <3>. QED
      BY <2>1, <3>5, <3>6, <3>7, <3>8
  <2>. QED
    BY <2>5, <2>6
<1>2. Inv => FramesMatch
  BY <1>1 DEF FramesMatch
<1>. QED
  BY <1>2, Invariant, PTL

\* Whatever the hashes are, what an end was given has the headers of what its
\* peer has sent, in that order and with nothing left out, and the bodies, except
\* that an empty message after one that is not comes with a body that is not its own.
THEOREM ArrivesInOrder == Spec => [](\A e \in Ends : Match(incoming[e], sent[Peer(e)]))
<1>1. Inv => \A e \in Ends : Match(incoming[e], sent[Peer(e)])
  BY DEF Inv, Arrived
<1>. QED
  BY <1>1, Invariant, PTL

\* No body has the hash of the empty one.
NoCollision == \A b \in Bodies : Hash[b] # Hash[NoBody]

\* As long as no body has the CRC32 of the empty body, a message that validate()
\* accepts is the one that was sent in its turn, and the messages it rejects are
\* the empty ones behind one that was not: they come with the body before them.
THEOREM Validated ==
    ASSUME NoCollision
    PROVE  Spec => []AcceptedIsSent
<1>1. ASSUME Inv, NEW e \in Ends, NEW k \in DOMAIN incoming[e]
      PROVE  LET in == incoming[e][k]
                 of == sent[Peer(e)]
             IN  /\ k <= Len(of)
                 /\ Valid(in) => in.body = of[k].body
                 /\ ~ Valid(in) <=> of[k].body = NoBody /\ \E j \in 1..(k - 1) : of[j].body # NoBody
  <2>. DEFINE in == incoming[e][k]
              of == sent[Peer(e)]
              b == of[k].body
  <2>1. incoming[e] \in Seq(Received) /\ of \in Seq(Messages)
    BY <1>1, EndTypes, PeerIsOther DEF Inv
  <2>2. k \in 1..Len(incoming[e]) /\ k \in 1..Len(of)
    <3>1. Len(incoming[e]) <= Len(of)
      BY <1>1 DEF Inv, Arrived, Match
    <3>. QED
      BY <2>1, <3>1, LenProperties
  <2>3. in \in Received /\ of[k] \in Messages
    BY <2>1, <2>2, ElementOfSeq
  <2>4. /\ in.header = Header(of[k])
        /\ b # NoBody => in.body = b
        /\ b = NoBody => (in.body = NoBody <=> \A j \in 1..(k - 1) : of[j].body = NoBody)
    BY <1>1, <2>2 DEF Inv, Arrived, Match
  <2>5. in.body \in AllBodies /\ in.header.hash = Hash[b]
    BY <2>3, <2>4, HeaderType DEF Received
  <2>6. Valid(in) <=> Hash[in.body] = Hash[b]
    BY <2>5 DEF Valid
  <2>. HIDE DEF in, of, b
  <2>7. b = NoBody /\ in.body # NoBody => Hash[in.body] # Hash[b]
    BY <2>5 DEF NoCollision, AllBodies
  <2>8. Valid(in) <=> in.body = b
    BY <2>4, <2>6, <2>7
  <2>9. in.body = b <=> ~ (b = NoBody /\ \E j \in 1..(k - 1) : of[j].body # NoBody)
    BY <2>4
  <2>. QED
    BY <2>2, <2>8, <2>9 DEF in, of, b
<1>2. Inv => AcceptedIsSent
  BY <1>1 DEF AcceptedIsSent
<1>. QED
  BY <1>2, Invariant, PTL

-----------------------------------------------------------------------------
(***************************************************************************)
(* The refinement: each direction is a channel.                            *)
(***************************************************************************)
\* A step of the channel from end a to end o, or a stutter.
ChannelStep(a, o) ==
    LET was == Numbers(sent[a])
        got == HeadNumbers(incoming[o])
        is  == Numbers(sent'[a])
        has == HeadNumbers(incoming'[o])
    IN  \/ /\ \E m \in 1..MaxSends[a] : is = Append(was, m)
           /\ has = got /\ Healthy' = Healthy
        \/ /\ Len(got) < Len(was) /\ has = Append(got, was[Len(got) + 1])
           /\ is = was /\ Healthy' = Healthy
        \/ is = was /\ has = got /\ (Healthy' = FALSE \/ Healthy' = Healthy)

\* What is read off each element of a sequence, when the sequence grows by one.
Each(F, s) == [i \in DOMAIN s |-> F[s[i]]]

LEMMA EachAppend ==
    ASSUME NEW S, NEW F \in [S -> Nat], NEW s \in Seq(S), NEW m \in S
    PROVE  /\ Each(F, s) \in Seq(Nat) /\ Len(Each(F, s)) = Len(s)
           /\ \A k \in 1..Len(s) : Each(F, s)[k] = F[s[k]]
           /\ Each(F, Append(s, m)) = Append(Each(F, s), F[m])
<1>. DEFINE t == Append(s, m)
            a == Each(F, s)
            b == Append(a, F[m])
<1>1. /\ Len(s) \in Nat /\ DOMAIN s = 1..Len(s) /\ t \in Seq(S) /\ Len(t) = Len(s) + 1
      /\ DOMAIN t = 1..(Len(s) + 1) /\ t[Len(s) + 1] = m
      /\ \A k \in 1..Len(s) : t[k] = s[k] /\ s[k] \in S
  BY AppendProperties, LenProperties, ElementOfSeq
<1>2. a = [k \in 1..Len(s) |-> F[s[k]]] /\ a \in [1..Len(s) -> Nat]
  BY <1>1 DEF Each
<1>3. a \in Seq(Nat) /\ Len(a) = Len(s)
  BY <1>1, <1>2, SeqDef, LenProperties
<1>4. /\ b \in Seq(Nat) /\ Len(b) = Len(s) + 1 /\ b[Len(s) + 1] = F[m]
      /\ \A k \in 1..Len(s) : b[k] = F[s[k]]
  BY <1>2, <1>3, AppendProperties
<1>5. b = [k \in 1..(Len(s) + 1) |-> b[k]]
  BY <1>4, LenProperties
<1>6. Each(F, t) = [k \in 1..(Len(s) + 1) |-> F[t[k]]]
  BY <1>1 DEF Each
<1>. HIDE DEF t, b
<1>7. \A k \in 1..(Len(s) + 1) : F[t[k]] = b[k]
  <2>1. \A k \in 1..(Len(s) + 1) : k \in 1..Len(s) \/ k = Len(s) + 1
    BY <1>1
  <2>. QED
    BY <1>1, <1>4, <2>1
<1>8. Each(F, t) = b
  BY <1>5, <1>6, <1>7
<1>. QED
  BY <1>2, <1>3, <1>8 DEF t, b

LEMMA NumbersAppend ==
    ASSUME NEW s \in Seq(Messages), NEW m \in Messages
    PROVE  /\ Numbers(s) \in Seq(Nat) /\ Len(Numbers(s)) = Len(s)
           /\ \A k \in 1..Len(s) : Numbers(s)[k] = s[k].number
           /\ Numbers(Append(s, m)) = Append(Numbers(s), m.number)
<1>1. PICK F \in [Messages -> Nat] : \A x \in Messages : F[x] = x.number
  <2>. DEFINE f == [x \in Messages |-> x.number]
  <2>1. f \in [Messages -> Nat] /\ \A x \in Messages : f[x] = x.number
    BY DEF Messages
  <2>. QED
    BY <2>1
<1>2. ASSUME NEW q \in Seq(Messages) PROVE Numbers(q) = Each(F, q)
  <2>1. \A k \in DOMAIN q : F[q[k]] = q[k].number
    BY <1>1, ElementOfSeq, LenProperties
  <2>. QED
    BY <2>1 DEF Numbers, Each
<1>3. \A k \in 1..Len(s) : s[k] \in Messages
  BY ElementOfSeq
<1>4. Append(s, m) \in Seq(Messages)
  BY AppendProperties
<1>5. /\ Each(F, s) \in Seq(Nat) /\ Len(Each(F, s)) = Len(s)
      /\ \A k \in 1..Len(s) : Each(F, s)[k] = F[s[k]]
      /\ Each(F, Append(s, m)) = Append(Each(F, s), F[m])
  BY EachAppend, SMTT(30)
<1>6. Numbers(s) = Each(F, s) /\ Numbers(Append(s, m)) = Each(F, Append(s, m))
  BY <1>2, <1>4
<1>. QED
  BY <1>1, <1>3, <1>5, <1>6

LEMMA HeadNumbersAppend ==
    ASSUME NEW s \in Seq(Received), NEW m \in Received
    PROVE  /\ HeadNumbers(s) \in Seq(Nat) /\ Len(HeadNumbers(s)) = Len(s)
           /\ HeadNumbers(Append(s, m)) = Append(HeadNumbers(s), m.header.number)
<1>1. PICK F \in [Received -> Nat] : \A x \in Received : F[x] = x.header.number
  <2>. DEFINE f == [x \in Received |-> x.header.number]
  <2>1. f \in [Received -> Nat] /\ \A x \in Received : f[x] = x.header.number
    BY DEF Received, Headers
  <2>. QED
    BY <2>1
<1>2. ASSUME NEW q \in Seq(Received) PROVE HeadNumbers(q) = Each(F, q)
  <2>1. \A k \in DOMAIN q : F[q[k]] = q[k].header.number
    BY <1>1, ElementOfSeq, LenProperties
  <2>. QED
    BY <2>1 DEF HeadNumbers, Each
<1>3. Append(s, m) \in Seq(Received)
  BY AppendProperties
<1>4. /\ Each(F, s) \in Seq(Nat) /\ Len(Each(F, s)) = Len(s)
      /\ Each(F, Append(s, m)) = Append(Each(F, s), F[m])
  BY EachAppend
<1>5. HeadNumbers(s) = Each(F, s) /\ HeadNumbers(Append(s, m)) = Each(F, Append(s, m))
  BY <1>2, <1>3
<1>. QED
  BY <1>1, <1>4, <1>5

\* What has failed or left does not come back.
LEMMA HealthyStays ==
    ASSUME TypeOK, \A e \in Ends : OwnState(e), [Next]_vars
    PROVE  Healthy' => Healthy
<1>1. CASE Break \/ UNCHANGED vars
  BY <1>1 DEF Break, vars, Healthy, Left
<1>2. ASSUME NEW a \in Ends, Step(a), Healthy' PROVE Healthy
  <2>1. ASSUME NEW e \in Ends, e # a
        PROVE  socket'[e] = socket[e] /\ connected'[e] = connected[e] /\ link' = link
    BY <1>2, <2>1, StepKeeps DEF Keeps
  <2>2. link' = link
    BY <2>1, PeerIsOther
  <2>3. ~ Left(a) /\ (socket[a] = "open" => connected[a])
    <3>1. ~ Left(a)' /\ (socket'[a] = "open" => connected'[a])
      BY <1>2 DEF Healthy
    <3>2. CASE Opens(a)
      BY <3>2 DEF Opens, Left
    <3>3. CASE Refused(a) \/ Exits(a) \/ Stop(a) \/ CloseSocket(a)
      BY <3>1, <3>3, TypedDomains DEF Refused, Exits, Stop, CloseSocket, Update, Left
    <3>4. CASE Leaves(a) \/ WriteFails(a) \/ ReadFails(a)
      <4>1. ~ (connected'[a] /\ socket[a] = "open") /\ (connected'[a] => connected[a])
            /\ socket' = socket
        BY <3>4, DisconnectingDoes DEF Leaves, WriteFails, ReadFails
      <4>. QED
        BY <3>1, <4>1 DEF Left
    <3>5. CASE Sends(a) \/ Post(a) \/ PushOutbound(a) \/ WriteHeader(a) \/ WriteBody(a)
               \/ ReadHeader(a) \/ ReadBody(a)
      <4>1. socket' = socket /\ connected' = connected
        BY <3>5 DEF Sends, SendMessage, Post, PushOutbound, WriteHeader, WriteBody, ReadHeader, ReadBody
      <4>. QED
        BY <3>1, <4>1 DEF Left
    <3>. QED
      BY <1>2, <3>2, <3>3, <3>4, <3>5 DEF Step
  <2>. QED
    BY <1>2, <2>1, <2>2, <2>3 DEF Healthy, Left
<1>. QED
  BY <1>1, <1>2, NextIsStep

\* What a step does to the channel from end a to end o.
LEMMA StepIsChannelStep ==
    ASSUME Inv, Inv', [Next]_vars, NEW a \in Ends, NEW o \in Ends, o # a, Peer(o) = a
    PROVE  ChannelStep(a, o)
<1>. USE DEF Inv
<1>1. /\ sent[a] \in Seq(Messages) /\ incoming[o] \in Seq(Received)
      /\ calling[a] \in Messages \cup {NoMessage, Leaving}
      /\ Len(sent[a]) \in Nat /\ Len(incoming[o]) \in Nat
  BY EndTypes, LenProperties
<1>2. Healthy' => Healthy
  BY HealthyStays
<1>3. CASE Post(a)
  <2>. DEFINE m == calling[a]
  <2>1. /\ m \in Messages /\ sent'[a] = Append(sent[a], m)
        /\ UNCHANGED <<incoming, socket, connected, link>>
    BY <1>3, TypedDomains DEF Post
  <2>2. m \in Messages /\ m.number \in 1..MaxSends[a]
    <3>1. m \in Messages /\ m.number = Len(sent[a]) + 1 /\ Len(sent[a]) < MaxSends[a]
      BY <1>1, <2>1 DEF OwnState
    <3>2. MaxSends[a] \in Nat
      BY ConnectionAssumption
    <3>. QED
      BY <1>1, <3>1, <3>2
  <2>. HIDE DEF m
  <2>3. Numbers(sent'[a]) = Append(Numbers(sent[a]), m.number)
    BY <1>1, <2>1, <2>2, NumbersAppend
  <2>4. Healthy' = Healthy
    BY <2>1 DEF Healthy, Left
  <2>. QED
    BY <2>1, <2>2, <2>3, <2>4 DEF ChannelStep
<1>4. CASE ReadHeader(o) \/ ReadBody(o)
  <2>1. UNCHANGED <<sent, socket, connected, link>>
    BY <1>4 DEF ReadHeader, ReadBody
  <2>2. Healthy' = Healthy
    BY <2>1 DEF Healthy, Left
  <2>3. CASE incoming' = incoming
    BY <2>1, <2>2, <2>3 DEF ChannelStep
  <2>4. CASE incoming'[o] = Append(incoming[o], temp'[o])
    <3>. DEFINE s == sent[a]
                n == Len(incoming[o])
                t == temp'[o]
    <3>1. t \in Received
      BY DEF TypeOK
    <3>. HIDE DEF t
    <3>2. Len(incoming'[o]) = n + 1 /\ incoming'[o][n + 1] = t
      BY <1>1, <2>4, <3>1, AppendProperties DEF t
    <3>3. Match(incoming'[o], s)
      BY <2>1 DEF Arrived
    <3>4. n + 1 <= Len(s) /\ t.header = Header(s[n + 1])
      <4>1. n + 1 \in 1..Len(incoming'[o])
        BY <1>1, <3>2
      <4>. QED
        BY <3>2, <3>3, <4>1 DEF Match
    <3>5. n + 1 \in 1..Len(s)
      BY <1>1, <3>4
    <3>6. s[n + 1] \in Messages
      BY <1>1, <3>5, ElementOfSeq
    <3>7. t.header.number = Numbers(s)[n + 1]
      <4>1. \A k \in 1..Len(s) : Numbers(s)[k] = s[k].number
        BY <1>1, <3>6, NumbersAppend
      <4>. QED
        BY <3>4, <3>5, <3>6, <4>1, HeaderType
    <3>8. HeadNumbers(incoming'[o]) = Append(HeadNumbers(incoming[o]), Numbers(s)[n + 1])
      BY <1>1, <2>4, <3>1, <3>7, HeadNumbersAppend DEF t
    <3>9. Len(HeadNumbers(incoming[o])) = n /\ Len(Numbers(s)) = Len(s)
      BY <1>1, <3>1, <3>6, HeadNumbersAppend, NumbersAppend
    <3>10. n < Len(s)
      BY <1>1, <3>4
    <3>. QED
      BY <2>1, <2>2, <3>8, <3>9, <3>10 DEF ChannelStep
  <2>. QED
    BY <1>4, <2>3, <2>4, TypedDomains DEF ReadHeader, ReadBody, AddToIncoming
<1>5. CASE ~ (Post(a) \/ ReadHeader(o) \/ ReadBody(o))
  <2>1. sent'[a] = sent[a] /\ incoming'[o] = incoming[o]
    <3>1. CASE Break \/ UNCHANGED vars
      BY <3>1 DEF Break, vars
    <3>2. CASE Step(a)
      <4>1. incoming'[o] = incoming[o]
        BY <3>2, StepKeeps DEF Keeps
      <4>2. sent' = sent
        BY <1>5, <3>2 DEF Step, Opens, Refused, Leaves, Exits, Sends, SendMessage, Stop, PushOutbound,
           CloseSocket, WriteHeader, WriteBody, WriteFails, ReadHeader, ReadBody, ReadFails
      <4>. QED
        BY <4>1, <4>2
    <3>3. CASE Step(o)
      <4>1. sent'[a] = sent[a]
        BY <3>3, StepKeeps DEF Keeps
      <4>2. incoming' = incoming
        BY <1>5, <3>3 DEF Step, Opens, Refused, Leaves, Exits, Sends, SendMessage, Post, Stop, PushOutbound,
           CloseSocket, WriteHeader, WriteBody, WriteFails, ReadFails
      <4>. QED
        BY <4>1, <4>2
    <3>4. \A e \in Ends : e \in {a, o}
      BY DEF Ends
    <3>. QED
      BY <3>1, <3>2, <3>3, <3>4, NextIsStep
  <2>2. Healthy' = FALSE \/ Healthy' = Healthy
    BY <1>2 DEF Healthy
  <2>. QED
    BY <2>1, <2>2 DEF ChannelStep
<1>. QED
  BY <1>3, <1>4, <1>5

\* In both directions the messages that were accepted arrive one by one, in that
\* order, none of them twice, none that was not sent and none left out: the
\* safety part of IsChannel, whose liveness part is left to model checking.
THEOREM EndsAreChannels == Spec => ToServer!SafeSpec /\ ToClient!SafeSpec
<1>1. Init => ToServer!Init /\ ToClient!Init
  <2>. SUFFICES ASSUME Init PROVE ToServer!Init /\ ToClient!Init
    OBVIOUS
  <2>1. "client" \in Ends /\ "server" \in Ends
    BY DEF Ends
  <2>2. /\ sent["client"] = <<>> /\ sent["server"] = <<>>
        /\ incoming["client"] = <<>> /\ incoming["server"] = <<>>
    BY <2>1 DEF Init
  <2>3. Numbers(<<>>) = <<>> /\ HeadNumbers(<<>>) = <<>>
    BY DEF Numbers, HeadNumbers
  <2>4. Healthy = TRUE
    BY DEF Init, Healthy, Left
  <2>. QED
    BY <2>2, <2>3, <2>4 DEF ToServer!Init, ToClient!Init
<1>2. Inv /\ Inv' /\ [Next]_vars => [ToServer!Next]_(ToServer!vars) /\ [ToClient!Next]_(ToClient!vars)
  <2>. SUFFICES ASSUME Inv, Inv', [Next]_vars
                PROVE  [ToServer!Next]_(ToServer!vars) /\ [ToClient!Next]_(ToClient!vars)
    OBVIOUS
  <2>1. ChannelStep("client", "server") /\ ChannelStep("server", "client")
    <3>1. /\ "client" \in Ends /\ "server" \in Ends /\ "client" # "server"
          /\ Peer("client") = "server" /\ Peer("server") = "client"
      BY DEF Ends, Peer
    <3>. QED
      BY <3>1, StepIsChannelStep
  <2>2. [ToServer!Next]_(ToServer!vars)
    BY <2>1 DEF ChannelStep, ToServer!Next, ToServer!Send, ToServer!Arrive, ToServer!Fail, ToServer!vars
  <2>3. [ToClient!Next]_(ToClient!vars)
    BY <2>1 DEF ChannelStep, ToClient!Next, ToClient!Send, ToClient!Arrive, ToClient!Fail, ToClient!vars
  <2>. QED
    BY <2>2, <2>3
<1>3. Spec => ToServer!Init /\ [][ToServer!Next]_(ToServer!vars)
  BY <1>1, <1>2, Invariant, PTL DEF Spec
<1>4. Spec => ToClient!Init /\ [][ToClient!Next]_(ToClient!vars)
  BY <1>1, <1>2, Invariant, PTL DEF Spec
<1>. QED
  BY <1>3, <1>4 DEF ToServer!SafeSpec, ToClient!SafeSpec
=============================================================================
