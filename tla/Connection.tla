----------------------------- MODULE Connection -----------------------------
(***************************************************************************)
(* wallchanger::net::connection (change_lib/net/connection.hpp): the two   *)
(* connection objects at the ends of one TCP connection, each with its I/O *)
(* thread, which runs completion handlers and posted functions one at a    *)
(* time, and a user thread, which calls send_message and, at the client,   *)
(* disconnect.  A message travels as a header and, unless it is empty, a   *)
(* body; both directions may fail at any time.  Messages carry the number  *)
(* of their sending, which the program does not have, to tell them apart.  *)
(***************************************************************************)
EXTENDS Integers, Sequences

CONSTANTS Bodies,        \* bodies with at least one byte
          NoBody,        \* the body of no bytes
          Hash,          \* their CRC32
          NoMessage,     \* the user thread calls nothing
          Leaving,       \* the user thread is in client_interface::disconnect
          MaxSends       \* bound: messages sent by the user thread of each end

Ends == {"client", "server"}
Peer(e) == IF e = "client" THEN "server" ELSE "client"

ASSUME ConnectionAssumption ==
    /\ NoBody \notin Bodies
    /\ Hash \in [Bodies \cup {NoBody} -> Nat]
    /\ \A b \in Bodies \cup {NoBody} : b \notin [number : Nat, sized : BOOLEAN, hash : Nat]
    /\ {NoMessage, Leaving} \cap [number : Nat, body : Bodies \cup {NoBody}] = {}
    /\ NoMessage # Leaving
    /\ MaxSends \in [Ends -> Nat]

VARIABLES socket,        \* of each end: not yet connected, open, abandoned or closed
          connected,     \* m_connected
          link,          \* the network between the ends works
          wire,          \* what is on its way to each end
          posted,        \* functions posted to the I/O thread
          outbound,      \* m_outbound
          writing,       \* the asynchronous writes that are pending
          reading,       \* the asynchronous read that is pending
          temp,          \* m_temp_in
          incoming,      \* the messages given to m_incomming, since the beginning
          calling,       \* the message of send_message, past its test; or Leaving
          sent           \* the messages posted for sending, since the beginning

vars == <<socket, connected, link, wire, posted, outbound, writing, reading,
          temp, incoming, calling, sent>>

AllBodies == Bodies \cup {NoBody}
Messages  == [number : Nat, body : AllBodies]

\* message::finalize: the header states the size and the hash of the body.
Header(m) == [number |-> m.number, sized |-> m.body # NoBody, hash |-> Hash[m.body]]

\* message::validate.
Valid(in) == Hash[in.body] = in.header.hash

Headers  == [number : Nat, sized : BOOLEAN, hash : Nat]
Received == [header : Headers, body : AllBodies]

Close == [number |-> 0, body |-> NoBody]     \* the posted close, not a message

Update(f, e, v) == [f EXCEPT ![e] = v]

Init ==
    /\ socket = [e \in Ends |-> "new"]
    /\ connected = [e \in Ends |-> FALSE]
    /\ link = TRUE
    /\ wire = [e \in Ends |-> <<>>]
    /\ posted = [e \in Ends |-> <<>>]
    /\ outbound = [e \in Ends |-> <<>>]
    /\ writing = [e \in Ends |-> <<>>]
    /\ reading = [e \in Ends |-> "nothing"]
    /\ temp = [e \in Ends |-> [header |-> [number |-> 0, sized |-> FALSE, hash |-> 0],
                               body   |-> NoBody]]
    /\ incoming = [e \in Ends |-> <<>>]
    /\ calling = [e \in Ends |-> NoMessage]
    /\ sent = [e \in Ends |-> <<>>]

-----------------------------------------------------------------------------
(***************************************************************************)
(* Connecting.  The handler of async_connect at the client, the handler of *)
(* async_accept at the server, in either order.                            *)
(***************************************************************************)
Opened(e) ==
    /\ socket' = Update(socket, e, "open")
    /\ connected' = Update(connected, e, TRUE)
    /\ reading' = Update(reading, e, "header")

Connect ==
    /\ socket["client"] = "new" /\ link
    /\ Opened("client")
    /\ UNCHANGED <<link, wire, posted, outbound, writing, temp, incoming, calling, sent>>

ConnectFails ==
    /\ socket["client"] = "new"
    /\ socket' = Update(socket, "client", "closed")
    /\ UNCHANGED <<connected, link, wire, posted, outbound, writing, reading,
                   temp, incoming, calling, sent>>

\* The rest of the server's send_message when its caller is the I/O thread:
\* given is_connected(), the message is posted or dropped.
Greet(isConnected, b) ==
    IF isConnected
      THEN /\ posted' = [posted EXCEPT !["server"] = Append(@, [number |-> 0, body |-> b])]
           /\ sent' = [sent EXCEPT !["server"] = Append(@, [number |-> 0, body |-> b])]
      ELSE UNCHANGED <<posted, sent>>

\* Mutant of Accept: connect_to_client comes before on_client_connect.
AcceptThenGreet ==
    /\ socket["server"] = "new" /\ link
    /\ Opened("server")
    /\ \E b \in Bodies : Greet(connected'["server"], b)
    /\ UNCHANGED <<link, wire, outbound, writing, temp, incoming, calling>>

\* on_client_connect sends Client_Accepted, number 0, on the open socket of a
\* connection that connect_to_client has yet to declare connected.
Accept ==
    /\ socket["server"] = "new" /\ link
    /\ \E b \in Bodies : Greet(connected["server"], b)
    /\ Opened("server")
    /\ UNCHANGED <<link, wire, outbound, writing, temp, incoming, calling>>

\* on_client_connect says no, and the connection is destroyed.
Deny ==
    /\ socket["server"] = "new" /\ link
    /\ \E b \in Bodies : Greet(connected["server"], b)
    /\ socket' = Update(socket, "server", "closed")
    /\ UNCHANGED <<connected, link, wire, outbound, writing, reading, temp,
                   incoming, calling>>

\* The accept fails, or the peer is gone when remote_endpoint() asks for its
\* address: that throws out of the I/O thread and ends the process.
AcceptFails ==
    /\ socket["server"] = "new" /\ (~ link \/ socket["client"] = "closed")
    /\ socket' = Update(socket, "server", "closed")
    /\ UNCHANGED <<connected, link, wire, posted, outbound, writing, reading,
                   temp, incoming, calling, sent>>

-----------------------------------------------------------------------------
(***************************************************************************)
(* The user threads.  is_connected() is tested first, and the message is   *)
(* posted later: the connection may be closed in between.                  *)
(***************************************************************************)
IsConnected(e) == socket[e] = "open" /\ connected[e]

SendMessage(e, b) ==
    /\ calling[e] = NoMessage /\ Len(sent[e]) < MaxSends[e]
    /\ IsConnected(e)
    /\ calling' = Update(calling, e, [number |-> Len(sent[e]) + 1, body |-> b])
    /\ UNCHANGED <<socket, connected, link, wire, posted, outbound, writing,
                   reading, temp, incoming, sent>>

Post(e) ==
    /\ calling[e] \in Messages
    /\ posted' = [posted EXCEPT ![e] = Append(@, calling[e])]
    /\ sent' = [sent EXCEPT ![e] = Append(@, calling[e])]
    /\ calling' = Update(calling, e, NoMessage)
    /\ UNCHANGED <<socket, connected, link, wire, outbound, writing, reading,
                   temp, incoming>>

\* Mutant of Disconnecting: the socket is left open.
DisconnectingOpen(e) ==
    IF IsConnected(e)
      THEN connected' = Update(connected, e, FALSE) /\ UNCHANGED posted
      ELSE UNCHANGED <<connected, posted>>

\* disconnect(): the flag at once, the socket when the I/O thread gets to it.
Disconnecting(e) ==
    IF IsConnected(e)
      THEN /\ connected' = Update(connected, e, FALSE)
           /\ posted' = [posted EXCEPT ![e] = Append(@, Close)]
      ELSE UNCHANGED <<connected, posted>>

\* client_interface::disconnect, in two steps.  First connection::disconnect,
\* which does nothing to a connection that is not connected yet, ...
Disconnect ==
    /\ calling["client"] = NoMessage
    /\ Disconnecting("client")
    /\ calling' = Update(calling, "client", Leaving)
    /\ UNCHANGED <<socket, link, wire, outbound, writing, reading, temp, incoming, sent>>

\* ... then the I/O thread is stopped and joined, whatever it still had to do.
\* server_interface::stop does this alone.  The server's connections are then
\* destroyed, and closed; the client's is released: its socket is left as it is.
Stop(e) ==
    /\ socket[e] \in {"new", "open"}
    /\ calling[e] = IF e = "client" THEN Leaving ELSE NoMessage
    /\ socket' = Update(socket, e, IF e = "client" THEN "abandoned" ELSE "closed")
    /\ posted' = Update(posted, e, <<>>)
    /\ writing' = Update(writing, e, <<>>)
    /\ reading' = Update(reading, e, "nothing")
    /\ UNCHANGED <<connected, link, wire, outbound, temp, incoming, calling, sent>>

\* The client's process ends, and with it the socket.
Exit ==
    /\ socket["client"] = "abandoned"
    /\ socket' = Update(socket, "client", "closed")
    /\ UNCHANGED <<connected, link, wire, posted, outbound, writing, reading,
                   temp, incoming, calling, sent>>

-----------------------------------------------------------------------------
(***************************************************************************)
(* The I/O thread: posted functions.                                       *)
(***************************************************************************)
\* Mutant of PushOutbound: every message starts a write of its own.
PushOutboundAlways(e) ==
    /\ posted[e] # <<>> /\ Head(posted[e]) # Close
    /\ posted' = Update(posted, e, Tail(posted[e]))
    /\ outbound' = [outbound EXCEPT ![e] = Append(@, Head(posted[e]))]
    /\ writing' = [writing EXCEPT ![e] = Append(@, "header")]
    /\ UNCHANGED <<socket, connected, link, wire, reading, temp, incoming, calling, sent>>

PushOutbound(e) ==
    /\ posted[e] # <<>> /\ Head(posted[e]) # Close
    /\ posted' = Update(posted, e, Tail(posted[e]))
    /\ outbound' = [outbound EXCEPT ![e] = Append(@, Head(posted[e]))]
    /\ writing' = IF outbound[e] = <<>> THEN [writing EXCEPT ![e] = Append(@, "header")]
                                       ELSE writing
    /\ UNCHANGED <<socket, connected, link, wire, reading, temp, incoming, calling, sent>>

CloseSocket(e) ==
    /\ posted[e] # <<>> /\ Head(posted[e]) = Close
    /\ posted' = Update(posted, e, Tail(posted[e]))
    /\ socket' = Update(socket, e, "closed")
    /\ UNCHANGED <<connected, link, wire, outbound, writing, reading, temp,
                   incoming, calling, sent>>

(***************************************************************************)
(* Completed writes, in the order they were begun.  What is written when   *)
(* the link is down vanishes.                                              *)
(***************************************************************************)
Completes(e, part) == writing[e] # <<>> /\ Head(writing[e]) = part /\ socket[e] = "open"

Transmit(e, part) ==
    wire' = IF link THEN [wire EXCEPT ![Peer(e)] = Append(@, part)] ELSE wire

\* Mutant of NextOutbound: the next message is not begun.
NextOutboundIdle(e) ==
    /\ outbound' = Update(outbound, e, Tail(outbound[e]))
    /\ writing' = Update(writing, e, Tail(writing[e]))

\* The message at the front is done, and the next one, if any, is begun.
NextOutbound(e) ==
    /\ outbound' = Update(outbound, e, Tail(outbound[e]))
    /\ writing' = Update(writing, e, IF Len(outbound[e]) > 1
                                       THEN Append(Tail(writing[e]), "header")
                                       ELSE Tail(writing[e]))

WriteHeader(e) ==
    /\ Completes(e, "header")
    /\ Transmit(e, Header(Head(outbound[e])))
    /\ IF Head(outbound[e]).body # NoBody
         THEN /\ writing' = Update(writing, e, Append(Tail(writing[e]), "body"))
              /\ UNCHANGED outbound
         ELSE NextOutbound(e)
    /\ UNCHANGED <<socket, connected, link, posted, reading, temp, incoming,
                   calling, sent>>

WriteBody(e) ==
    /\ Completes(e, "body")
    /\ Transmit(e, Head(outbound[e]).body)
    /\ NextOutbound(e)
    /\ UNCHANGED <<socket, connected, link, posted, reading, temp, incoming,
                   calling, sent>>

\* A pending operation may fail when the link is down or an end is closed.
Failing(e) == ~ link \/ "closed" \in {socket[e], socket[Peer(e)]}

\* The message stays at the front of m_outbound.
WriteFails(e) ==
    /\ writing[e] # <<>> /\ Failing(e)
    /\ writing' = Update(writing, e, Tail(writing[e]))
    /\ Disconnecting(e)
    /\ UNCHANGED <<socket, link, wire, outbound, reading, temp, incoming, calling, sent>>

-----------------------------------------------------------------------------
(***************************************************************************)
(* Completed reads.  m_temp_in keeps the body of the message before.       *)
(***************************************************************************)
AddToIncoming(e, in) ==
    /\ incoming' = [incoming EXCEPT ![e] = Append(@, in)]
    /\ reading' = Update(reading, e, "header")

\* Mutant of ReadHeader: what came before is not validated against the new hash.
ReadHeaderUnhashed(e) ==
    /\ reading[e] = "header" /\ socket[e] = "open" /\ wire[e] # <<>>
    /\ wire' = Update(wire, e, Tail(wire[e]))
    /\ temp' = [temp EXCEPT ![e].header = [Head(wire[e]) EXCEPT !.hash = Hash[temp[e].body]]]
    /\ IF Head(wire[e]).sized
         THEN reading' = Update(reading, e, "body") /\ UNCHANGED incoming
         ELSE AddToIncoming(e, temp'[e])
    /\ UNCHANGED <<socket, connected, link, posted, outbound, writing, calling, sent>>

ReadHeader(e) ==
    /\ reading[e] = "header" /\ socket[e] = "open" /\ wire[e] # <<>>
    /\ wire' = Update(wire, e, Tail(wire[e]))
    /\ temp' = [temp EXCEPT ![e].header = Head(wire[e])]
    /\ IF Head(wire[e]).sized
         THEN reading' = Update(reading, e, "body") /\ UNCHANGED incoming
         ELSE AddToIncoming(e, temp'[e])
    /\ UNCHANGED <<socket, connected, link, posted, outbound, writing, calling, sent>>

ReadBody(e) ==
    /\ reading[e] = "body" /\ socket[e] = "open" /\ wire[e] # <<>>
    /\ wire' = Update(wire, e, Tail(wire[e]))
    /\ temp' = [temp EXCEPT ![e].body = Head(wire[e])]
    /\ AddToIncoming(e, temp'[e])
    /\ UNCHANGED <<socket, connected, link, posted, outbound, writing, calling, sent>>

ReadFails(e) ==
    /\ reading[e] # "nothing" /\ Failing(e)
    /\ reading' = Update(reading, e, "nothing")
    /\ Disconnecting(e)
    /\ UNCHANGED <<socket, link, wire, outbound, writing, temp, incoming, calling, sent>>

-----------------------------------------------------------------------------
\* The network fails.
Break ==
    /\ link
    /\ link' = FALSE
    /\ UNCHANGED <<socket, connected, wire, posted, outbound, writing, reading,
                   temp, incoming, calling, sent>>

\* What the threads of end e do by themselves.
Work(e) ==
    \/ Post(e) \/ PushOutbound(e) \/ CloseSocket(e)
    \/ WriteHeader(e) \/ WriteBody(e) \/ ReadHeader(e) \/ ReadBody(e)

Next ==
    \/ Connect \/ ConnectFails \/ Accept \/ Deny \/ AcceptFails
    \/ Break \/ Disconnect \/ Exit
    \/ \E e \in Ends :
          \/ \E b \in AllBodies : SendMessage(e, b)
          \/ Stop(e) \/ Work(e) \/ WriteFails(e) \/ ReadFails(e)

\* An end finds out: its own socket is closed, which cancels what is pending, or
\* the end of the other side reaches it.  A dead link need not be noticed: the
\* code sets no timeout and no keepalive.
FindsOut(e) == socket[e] = "closed" \/ (link /\ socket[Peer(e)] = "closed")

(***************************************************************************)
(* The I/O threads run every handler that is ready, and posted functions   *)
(* in turn; the client gets connected or fails to, and the server gets to  *)
(* a client that is; main returns after disconnect.                        *)
(***************************************************************************)
Fairness ==
    /\ WF_vars(Connect \/ ConnectFails)
    /\ WF_vars(socket["client"] = "open" /\ (Accept \/ Deny \/ AcceptFails))
    /\ WF_vars(Exit)
    /\ \A e \in Ends :
          /\ WF_vars(Post(e)) /\ WF_vars(PushOutbound(e)) /\ WF_vars(CloseSocket(e))
          /\ WF_vars(WriteHeader(e) \/ WriteBody(e)) /\ WF_vars(FindsOut(e) /\ WriteFails(e))
          /\ WF_vars(ReadHeader(e) \/ ReadBody(e)) /\ WF_vars(FindsOut(e) /\ ReadFails(e))

Spec     == Init /\ [][Next]_vars
LiveSpec == Spec /\ Fairness

-----------------------------------------------------------------------------
TypeOK ==
    /\ socket \in [Ends -> {"new", "open", "abandoned", "closed"}]
    /\ connected \in [Ends -> BOOLEAN]
    /\ link \in BOOLEAN
    /\ wire \in [Ends -> Seq(Headers \cup AllBodies)]
    /\ posted \in [Ends -> Seq(Messages)]
    /\ outbound \in [Ends -> Seq(Messages)]
    /\ writing \in [Ends -> Seq({"header", "body"})]
    /\ reading \in [Ends -> {"nothing", "header", "body"}]
    /\ temp \in [Ends -> Received]
    /\ incoming \in [Ends -> Seq(Received)]
    /\ calling \in [Ends -> Messages \cup {NoMessage, Leaving}]
    /\ sent \in [Ends -> Seq(Messages)]

\* One write at a time: an end never has two writes pending on its socket, whose
\* bytes would mix, a body is being written only for the message at the front,
\* and as long as the end is connected one is pending exactly when m_outbound is
\* not empty, so that no message waits for a write that nobody starts.
OneWriteAtATime ==
    \A e \in Ends :
        /\ Len(writing[e]) <= 1
        /\ writing[e] # <<>> => outbound[e] # <<>>
        /\ writing[e] = <<"body">> => Head(outbound[e]).body # NoBody
        /\ IsConnected(e) => (writing[e] = <<>> <=> outbound[e] = <<>>)

\* The reader takes headers for headers and bodies for bodies.
WireOf(e) == IF reading[e] = "body" THEN <<temp[e].header>> \o wire[e] ELSE wire[e]

FramesMatch ==
    \A e \in Ends : \A i \in DOMAIN WireOf(e) :
        reading[e] # "nothing" \/ socket[e] = "new" =>
        (WireOf(e)[i] \in AllBodies
            <=> i > 1 /\ WireOf(e)[i - 1] \in Headers /\ WireOf(e)[i - 1].sized)

\* A message that the receiver validates is the message that was sent.  Rejected
\* as corrupted are exactly the empty messages after one that was not empty:
\* they are queued with the body of that one.
AcceptedIsSent ==
    \A e \in Ends : \A k \in DOMAIN incoming[e] :
        LET in == incoming[e][k]
            of == sent[Peer(e)]
        IN  /\ k <= Len(of)
            /\ Valid(in) => in.body = of[k].body
            /\ ~ Valid(in) <=> of[k].body = NoBody /\ \E j \in 1..(k - 1) : of[j].body # NoBody

\* The client never receives the Client_Accepted that on_client_connect sends:
\* send_message tests m_connected, which is set only afterwards.
NeverGreeted == \A k \in DOMAIN incoming["client"] : incoming["client"][k].header.number # 0

\* An end that has given up, by disconnect or because an operation failed, closes
\* its socket, and an end that the other one has left gives up, unless the link
\* fails first: then it may stay half open for ever.
Left(e) == socket[e] \in {"abandoned", "closed"}

ClosedAtLast ==
    \A e \in Ends :
        /\ (socket[e] = "open" /\ ~ connected[e]) ~> Left(e)
        /\ (socket[e] = "open" /\ link /\ Left(Peer(e))) ~> (Left(e) \/ ~ link)

\* Each direction is a channel: in order, nothing twice, and everything arrives
\* while both ends stay connected.
Numbers(s)     == [i \in DOMAIN s |-> s[i].number]
HeadNumbers(s) == [i \in DOMAIN s |-> s[i].header.number]

Healthy == link /\ \A e \in Ends : ~ Left(e) /\ (socket[e] = "open" => connected[e])

ToServer == INSTANCE Channel WITH
    Messages <- 1..MaxSends["client"], sent <- Numbers(sent["client"]),
    arrived <- HeadNumbers(incoming["server"]), healthy <- Healthy
ToClient == INSTANCE Channel WITH
    Messages <- 1..MaxSends["server"], sent <- Numbers(sent["server"]),
    arrived <- HeadNumbers(incoming["client"]), healthy <- Healthy

IsChannel == ToServer!Spec /\ ToClient!Spec
=============================================================================
