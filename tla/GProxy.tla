------------------------------- MODULE GProxy -------------------------------
(***************************************************************************)
(* The reliable reconnection of one GProxy++ player of one game.           *)
(*                                                                         *)
(* Two threads of the bot take part.  The MAIN thread (CGHost::Update)     *)
(* owns the reconnect listener: it reads a GPS_RECONNECT packet from a     *)
(* fresh connection, posts it in m_PendingReconnects, and throws away the  *)
(* requests nobody took.  The GAME thread (CBaseGame::loop) owns the       *)
(* player: it counts and buffers every packet it sends, drops from the     *)
(* buffer what the client acknowledged, and gives the player the new       *)
(* connection of a pending request that names it.                          *)
(*                                                                         *)
(* The network is one TCP connection per attempt: a FIFO of messages each  *)
(* way, which loses whatever is still in flight when the link breaks.  The *)
(* GProxy++ client is not part of the repository; it is modelled from the  *)
(* way the bot uses it.                                                    *)
(*                                                                         *)
(* A W3GS packet is represented by its position in the stream, 1, 2, ...,  *)
(* so that a history of packets shows any loss, repetition or reordering.  *)
(***************************************************************************)
EXTENDS Integers, Sequences

CONSTANTS
    MaxConns,     \* bound: connections the client opens, the first included
    MaxSent,      \* bound: packets the bot sends of its own accord
    MaxUp,        \* bound: packets the client sends, the join request included
    Strangers,    \* bound: packet counts in another player's request
    EagerClient   \* the client reconnects even if it has not yet seen a packet
                  \* of the loaded game, one that the bot buffered

ASSUME BoundsAssumption ==
    /\ MaxConns \in Nat \ {0}
    /\ MaxSent \in Nat
    /\ MaxUp \in Nat
    /\ Strangers \subseteq Nat
    /\ EagerClient \in BOOLEAN

VARIABLES
    (* CGamePlayer and CBaseGame, owned by the game thread *)
    gameLoaded,      \* m_GameLoaded
    gproxy,          \* m_GProxy
    totalSent,       \* m_TotalPacketsSent
    totalReceived,   \* m_TotalPacketsReceived
    buffer,          \* m_GProxyBuffer
    socket,          \* m_Socket, as the connection it is
    socketUp,        \* m_Socket->GetConnected( ), no error
    deleted,         \* the CGamePlayer has been deleted
    (* CGHost, shared under m_ReconnectMutex *)
    listening,       \* m_ReconnectSockets
    pending,         \* m_PendingReconnects
    (* the network *)
    linkUp, down, up,
    (* the GProxy++ client *)
    cConn, cWaiting, cReliable, cSent, cUnqueued,
    delivered,       \* packets the client handed to Warcraft III, in order
    (* history *)
    processed,       \* packets of the client the bot processed, in order
    unbuffered,      \* packets that were sent without being buffered
    strangerPosted   \* the request of somebody else has been posted

gameVars   == <<gameLoaded, gproxy, totalSent, totalReceived, buffer, socket,
                socketUp, deleted>>
mainVars   == <<listening, pending>>
netVars    == <<linkUp, down, up>>
clientVars == <<cConn, cWaiting, cReliable, cSent, cUnqueued, delivered>>
histVars   == <<processed, unbuffered, strangerPosted>>
vars       == <<gameVars, mainVars, netVars, clientVars, histVars>>

-----------------------------------------------------------------------------
(* Connections, messages, requests.  Connection 0 is somebody else's.       *)

Stranger == 0
Conns    == 0 .. MaxConns

Game(n)      == [t |-> "game",      n |-> n]  \* any W3GS packet
Ack(n)       == [t |-> "ack",       n |-> n]  \* GPS_ACK
Reconnect(n) == [t |-> "reconnect", n |-> n]  \* GPS_RECONNECT
InitMsg      == [t |-> "init",      n |-> 0]  \* GPS_INIT

Message == [t : {"game", "ack", "reconnect", "init"}, n : Nat]

\* GProxyReconnector: a posted request.  Only the player's own client knows
\* m_GProxyReconnectKey; the PID alone does not tell two games apart.
Request == [conn : Conns, key : {"own", "other"}, last : Nat]

AsGames(s) == [i \in DOMAIN s |-> Game(s[i])]

\* Packets from + 1 to upto, in order.
Packets(from, upto) == [i \in 1 .. (upto - from) |-> from + i]

NoAckIn(channel) == \A i \in DOMAIN channel : channel[i].t # "ack"

Max2(a, b) == IF a > b THEN a ELSE b

-----------------------------------------------------------------------------
(* The buffer.                                                              *)

\* PacketsAlreadyUnqueued: what the buffer no longer holds.
Unqueued == totalSent - Len(buffer)

\* Fault: one packet too many is popped.
UnqueueOneTooMany(last) ==
    IF last >= Unqueued THEN SubSeq(buffer, last - Unqueued + 2, Len(buffer))
                        ELSE buffer

\* The buffer once the client says it has the first `last' packets.
Unqueue(last) ==
    LET many == IF last - Unqueued > Len(buffer) THEN Len(buffer)
                                                 ELSE last - Unqueued
    IN  IF last > Unqueued THEN SubSeq(buffer, many + 1, Len(buffer))
                           ELSE buffer

\* m_Socket->PutBytes: what is put into a socket that has been reset, or that
\* goes nowhere any more, is lost.
Written(messages) ==
    IF socketUp /\ linkUp[socket]
    THEN [down EXCEPT ![socket] = @ \o messages]
    ELSE down

\* Fault: a packet is buffered only while the socket is connected.
SendPacketsConnectedOnly(k) ==
    LET new == Packets(totalSent, totalSent + k)
    IN  /\ totalSent' = totalSent + k
        /\ IF gproxy /\ gameLoaded
           THEN /\ buffer' = IF socketUp THEN buffer \o new ELSE buffer
                /\ UNCHANGED unbuffered
           ELSE unbuffered' = unbuffered + k /\ UNCHANGED buffer
        /\ down' = Written(AsGames(new))

\* CGamePlayer::Send, k times in a row: count always, buffer only for a
\* GProxy++ player of a loaded game, write to the socket there is.
SendPackets(k) ==
    LET new == Packets(totalSent, totalSent + k)
    IN  /\ totalSent' = totalSent + k
        /\ IF gproxy /\ gameLoaded
           THEN buffer' = buffer \o new /\ UNCHANGED unbuffered
           ELSE unbuffered' = unbuffered + k /\ UNCHANGED buffer
        /\ down' = Written(AsGames(new))

-----------------------------------------------------------------------------
(* Initial state: the player has joined.  The join request has been counted *)
(* (m_TotalPacketsReceived starts at 1) and GPS_INIT is on its way.         *)

Init ==
    /\ gameLoaded = FALSE
    /\ gproxy = FALSE
    /\ totalSent = 0
    /\ totalReceived = 1
    /\ buffer = << >>
    /\ socket = 1
    /\ socketUp = TRUE
    /\ deleted = FALSE
    /\ listening = {}
    /\ pending = << >>
    /\ linkUp = [c \in Conns |-> c = 1]
    /\ down = [c \in Conns |-> << >>]
    /\ up = [c \in Conns |-> IF c = 1 THEN <<InitMsg>> ELSE << >>]
    /\ cConn = 1
    /\ cWaiting = FALSE
    /\ cReliable = FALSE
    /\ cSent = 1
    /\ cUnqueued = 0
    /\ delivered = << >>
    /\ processed = <<1>>
    /\ unbuffered = 0
    /\ strangerPosted = FALSE

-----------------------------------------------------------------------------
(* The game thread.                                                         *)

\* CBaseGame::Update finds every player loaded.
GameLoad ==
    /\ ~gameLoaded /\ ~deleted
    /\ gameLoaded' = TRUE
    /\ UNCHANGED <<gproxy, totalSent, totalReceived, buffer, socket, socketUp,
                   deleted, mainVars, netVars, clientVars, histVars>>

\* Some handler of the game sends this player a packet.
BotSend ==
    /\ ~deleted
    /\ totalSent < MaxSent
    /\ SendPackets(1)
    /\ UNCHANGED <<gameLoaded, gproxy, totalReceived, socket, socketUp, deleted,
                   mainVars, linkUp, up, clientVars, processed, strangerPosted>>

\* CGamePlayer::ExtractPackets and ProcessPackets for the next packet.
BotReceiveGame ==
    /\ ~deleted /\ socketUp /\ up[socket] # << >>
    /\ Head(up[socket]).t = "game"
    /\ totalReceived' = totalReceived + 1
    /\ processed' = Append(processed, Head(up[socket]).n)
    /\ up' = [up EXCEPT ![socket] = Tail(@)]
    /\ UNCHANGED <<gameLoaded, gproxy, totalSent, buffer, socket, socketUp,
                   deleted, mainVars, linkUp, down, clientVars, unbuffered,
                   strangerPosted>>

BotReceiveInit ==
    /\ ~deleted /\ socketUp /\ up[socket] # << >>
    /\ Head(up[socket]).t = "init"
    /\ gproxy' = TRUE
    /\ up' = [up EXCEPT ![socket] = Tail(@)]
    /\ down' = Written(<<InitMsg>>)
    /\ UNCHANGED <<gameLoaded, totalSent, totalReceived, buffer, socket,
                   socketUp, deleted, mainVars, linkUp, clientVars, histVars>>

BotReceiveAck ==
    /\ ~deleted /\ socketUp /\ up[socket] # << >>
    /\ Head(up[socket]).t = "ack"
    /\ buffer' = Unqueue(Head(up[socket]).n)
    /\ up' = [up EXCEPT ![socket] = Tail(@)]
    /\ UNCHANGED <<gameLoaded, gproxy, totalSent, totalReceived, socket,
                   socketUp, deleted, mainVars, linkUp, down, clientVars,
                   histVars>>

\* CGamePlayer::Update, every ten seconds: far less often than a packet takes
\* to arrive, so one ack is in flight at a time.
BotAck ==
    /\ ~deleted /\ gproxy /\ socketUp
    /\ NoAckIn(down[socket])
    /\ down' = Written(<<Ack(totalReceived)>>)
    /\ UNCHANGED <<gameVars, mainVars, linkUp, up, clientVars, histVars>>

\* The socket has an error or was closed by the peer.  A GProxy++ player of
\* a loaded game is kept and waited for, and everybody is told so by up to
\* two chat packets, which are counted and buffered like any other; then the
\* socket is reset.  Anybody else is deleted.
BotNoticesLoss ==
    /\ ~deleted /\ socketUp /\ ~linkUp[socket]
    /\ IF gproxy /\ gameLoaded
       THEN /\ \E chats \in 0 .. 2 :
                   /\ chats > 0 => totalSent + chats <= MaxSent
                   /\ SendPackets(chats)
            /\ socketUp' = FALSE
            /\ UNCHANGED deleted
       ELSE /\ deleted' = TRUE
            /\ UNCHANGED <<totalSent, buffer, unbuffered, down, socketUp>>
    /\ UNCHANGED <<gameLoaded, gproxy, totalReceived, socket, mainVars, linkUp,
                   up, clientVars, processed, strangerPosted>>

\* The player is dropped for a reason of the game's own (a kick, the lag
\* screen that lasted too long): the CGamePlayer and its socket go away.
DropPlayer ==
    /\ ~deleted
    /\ deleted' = TRUE
    /\ linkUp' = [linkUp EXCEPT ![socket] = FALSE]
    /\ up' = [up EXCEPT ![socket] = << >>]
    /\ UNCHANGED <<gameLoaded, gproxy, totalSent, totalReceived, buffer, socket,
                   socketUp, mainVars, down, clientVars, histVars>>

\* Fault: the reconnect key is not compared.
IsForUsByPID(request) ==
    /\ ~deleted
    /\ gproxy

\* The test the game makes on a request it finds in m_PendingReconnects.
IsForUs(request) ==
    /\ ~deleted
    /\ gproxy
    /\ request.key = "own"

\* Fault: the buffer is not preserved while it is sent again.
HandleReconnectOnce(i) ==
    LET request == pending[i]
        kept    == Append(Unqueue(request.last), totalSent + 1)
    IN  /\ gameLoaded
        /\ IsForUs(request)
        /\ \A j \in 1 .. (i - 1) : ~IsForUs(pending[j])
        /\ socket' = request.conn
        /\ socketUp' = TRUE
        /\ linkUp' = [linkUp EXCEPT ![socket] = FALSE]
        /\ totalSent' = totalSent + 1
        /\ buffer' = <<totalSent + 1>>
        /\ down' = [down EXCEPT ![request.conn] =
                        @ \o <<Reconnect(totalReceived)>> \o AsGames(kept)]
        /\ up' = [up EXCEPT ![socket] = << >>]
        /\ pending' = SubSeq(pending, 1, i - 1)
                      \o SubSeq(pending, i + 1, Len(pending))
        /\ UNCHANGED <<gameLoaded, gproxy, totalReceived, deleted, listening,
                       clientVars, histVars>>

\* Fault: the buffer is not sent again, only what comes after it.
HandleReconnectNoResend(i) ==
    LET request == pending[i]
        kept    == Append(Unqueue(request.last), totalSent + 1)
    IN  /\ gameLoaded
        /\ IsForUs(request)
        /\ \A j \in 1 .. (i - 1) : ~IsForUs(pending[j])
        /\ socket' = request.conn
        /\ socketUp' = TRUE
        /\ linkUp' = [linkUp EXCEPT ![socket] = FALSE]
        /\ totalSent' = totalSent + 1
        /\ buffer' = kept
        /\ down' = [down EXCEPT ![request.conn] =
                        @ \o <<Reconnect(totalReceived), Game(totalSent + 1)>>]
        /\ up' = [up EXCEPT ![socket] = << >>]
        /\ pending' = SubSeq(pending, 1, i - 1)
                      \o SubSeq(pending, i + 1, Len(pending))
        /\ UNCHANGED <<gameLoaded, gproxy, totalReceived, deleted, listening,
                       clientVars, histVars>>

\* CGamePlayer::EventGProxyReconnect for the first request that matches: the
\* old socket is deleted, the client is told how many packets the bot has,
\* the rest of the buffer is sent again and kept, and everybody is told.
HandleReconnect(i) ==
    LET request == pending[i]
        kept    == Append(Unqueue(request.last), totalSent + 1)
    IN  /\ gameLoaded
        /\ IsForUs(request)
        /\ \A j \in 1 .. (i - 1) : ~IsForUs(pending[j])
        /\ socket' = request.conn
        /\ socketUp' = TRUE
        /\ linkUp' = [linkUp EXCEPT ![socket] = FALSE]
        /\ totalSent' = totalSent + 1
        /\ buffer' = kept
        /\ down' = [down EXCEPT ![request.conn] =
                        @ \o <<Reconnect(totalReceived)>> \o AsGames(kept)]
        /\ up' = [up EXCEPT ![socket] = << >>]
        /\ pending' = SubSeq(pending, 1, i - 1)
                      \o SubSeq(pending, i + 1, Len(pending))
        /\ UNCHANGED <<gameLoaded, gproxy, totalReceived, deleted, listening,
                       clientVars, histVars>>

-----------------------------------------------------------------------------
(* The main thread.                                                         *)

\* Fault: the client is taken to count the two packets of the reconnection as well.
PostReconnectTwoLess(c) ==
    /\ c \in listening
    /\ up[c] # << >>
    /\ Head(up[c]).t = "reconnect"
    /\ pending' = Append(pending, [conn |-> c, key |-> "own",
                                   last |-> Head(up[c]).n - 2])
    /\ listening' = listening \ {c}
    /\ up' = [up EXCEPT ![c] = Tail(@)]
    /\ UNCHANGED <<gameVars, linkUp, down, clientVars, histVars>>

\* CGHost::Update reads GPS_RECONNECT from a listening socket and posts it.
PostReconnect(c) ==
    /\ c \in listening
    /\ up[c] # << >>
    /\ Head(up[c]).t = "reconnect"
    /\ pending' = Append(pending, [conn |-> c, key |-> "own",
                                   last |-> Head(up[c]).n])
    /\ listening' = listening \ {c}
    /\ up' = [up EXCEPT ![c] = Tail(@)]
    /\ UNCHANGED <<gameVars, linkUp, down, clientVars, histVars>>

\* ... or gives up on a socket that failed or said nothing for ten seconds.
DropListening(c) ==
    /\ c \in listening
    /\ listening' = listening \ {c}
    /\ linkUp' = [linkUp EXCEPT ![c] = FALSE]
    /\ up' = [up EXCEPT ![c] = << >>]
    /\ UNCHANGED <<gameVars, pending, down, clientVars, histVars>>

\* Fault: the socket of an expired request is leaked.
ExpireReconnectLeak ==
    /\ pending # << >>
    /\ pending' = Tail(pending)
    /\ UNCHANGED <<gameVars, listening, netVars, clientVars, histVars>>

\* A request no game took within 1500 ms is deleted and its connection
\* closed.  The rejection written just before is never flushed: the socket
\* left m_ReconnectSockets, so DoSend does not find it in send_fd.
ExpireReconnect ==
    /\ pending # << >>
    /\ pending' = Tail(pending)
    /\ linkUp' = [linkUp EXCEPT ![Head(pending).conn] = FALSE]
    /\ UNCHANGED <<gameVars, listening, down, up, clientVars, histVars>>

-----------------------------------------------------------------------------
(* The rest of the world: another client with the same PID, its game, the   *)
(* network and our client.                                                  *)

StrangerReconnects(last) ==
    /\ ~strangerPosted
    /\ strangerPosted' = TRUE
    /\ pending' = Append(pending, [conn |-> Stranger, key |-> "other",
                                   last |-> last])
    /\ UNCHANGED <<gameVars, listening, netVars, clientVars, processed,
                   unbuffered>>

OtherGameHandles(i) ==
    /\ pending[i].key = "other"
    /\ pending' = SubSeq(pending, 1, i - 1)
                  \o SubSeq(pending, i + 1, Len(pending))
    /\ UNCHANGED <<gameVars, listening, netVars, clientVars, histVars>>

LinkBreaks ==
    /\ linkUp[cConn]
    /\ linkUp' = [linkUp EXCEPT ![cConn] = FALSE]
    /\ UNCHANGED <<gameVars, mainVars, down, up, clientVars, histVars>>

\* The client reads what arrived, even after the link broke.
ClientReceive ==
    /\ down[cConn] # << >>
    /\ LET m == Head(down[cConn])
       IN  /\ delivered' = IF m.t = "game" THEN Append(delivered, m.n)
                                           ELSE delivered
           /\ cReliable' = (cReliable \/ m.t = "init")
           /\ cWaiting' = (cWaiting /\ m.t # "reconnect")
           /\ cUnqueued' = IF m.t \in {"ack", "reconnect"}
                           THEN Max2(cUnqueued, m.n)
                           ELSE cUnqueued
           /\ up' = IF m.t = "reconnect"
                    THEN [up EXCEPT ![cConn] =
                              @ \o AsGames(Packets(cUnqueued', cSent))]
                    ELSE up
    /\ down' = [down EXCEPT ![cConn] = Tail(@)]
    /\ UNCHANGED <<gameVars, mainVars, linkUp, cConn, cSent, histVars>>

\* Warcraft III sends a packet; the client keeps it until it is acked.
ClientSend ==
    /\ cSent < MaxUp
    /\ cSent' = cSent + 1
    /\ up' = IF cWaiting \/ ~linkUp[cConn] THEN up
             ELSE [up EXCEPT ![cConn] = Append(@, Game(cSent + 1))]
    /\ UNCHANGED <<gameVars, mainVars, linkUp, down, cConn, cWaiting, cReliable,
                   cUnqueued, delivered, histVars>>

ClientAck ==
    /\ cReliable /\ ~cWaiting /\ linkUp[cConn]
    /\ NoAckIn(up[cConn])
    /\ up' = [up EXCEPT ![cConn] = Append(@, Ack(Len(delivered)))]
    /\ UNCHANGED <<gameVars, mainVars, linkUp, down, clientVars, histVars>>

ClientReconnect ==
    /\ cReliable
    /\ EagerClient \/ Len(delivered) > unbuffered
    /\ ~linkUp[cConn]
    /\ cConn < MaxConns
    /\ cConn' = cConn + 1
    /\ cWaiting' = TRUE
    /\ linkUp' = [linkUp EXCEPT ![cConn + 1] = TRUE]
    /\ listening' = listening \cup {cConn + 1}
    /\ up' = [up EXCEPT ![cConn + 1] = <<Reconnect(Len(delivered))>>]
    /\ down' = [down EXCEPT ![cConn] = << >>]
    /\ UNCHANGED <<gameVars, pending, cReliable, cSent, cUnqueued, delivered,
                   histVars>>

-----------------------------------------------------------------------------

Next ==
    \/ GameLoad
    \/ BotSend
    \/ BotReceiveGame
    \/ BotReceiveInit
    \/ BotReceiveAck
    \/ BotAck
    \/ BotNoticesLoss
    \/ DropPlayer
    \/ \E i \in DOMAIN pending : HandleReconnect(i)
    \/ \E c \in Conns : PostReconnect(c)
    \/ \E c \in Conns : DropListening(c)
    \/ ExpireReconnect
    \/ \E last \in Strangers : StrangerReconnects(last)
    \/ \E i \in DOMAIN pending : OtherGameHandles(i)
    \/ LinkBreaks
    \/ ClientReceive
    \/ ClientSend
    \/ ClientAck
    \/ ClientReconnect

Spec == Init /\ [][Next]_vars

\* The two threads loop for ever and the client keeps reading; nothing is
\* assumed of the network, of the players or of what the game decides.
Fairness ==
    /\ WF_vars(\E i \in DOMAIN pending : HandleReconnect(i))
    /\ \A c \in Conns : WF_vars(PostReconnect(c))
    /\ WF_vars(ExpireReconnect)
    /\ WF_vars(BotReceiveGame \/ BotReceiveInit \/ BotReceiveAck)
    /\ WF_vars(BotNoticesLoss)
    /\ WF_vars(ClientReceive)

FairSpec == Spec /\ Fairness
-----------------------------------------------------------------------------
(* Properties.                                                              *)

\* Every variable has its type: counters are numbers, channels hold
\* messages, m_PendingReconnects holds requests.
TypeOK ==
    /\ gameLoaded \in BOOLEAN /\ gproxy \in BOOLEAN
    /\ totalSent \in Nat /\ totalReceived \in Nat
    /\ buffer \in Seq(Nat)
    /\ socket \in Conns /\ socketUp \in BOOLEAN
    /\ deleted \in BOOLEAN
    /\ listening \subseteq Conns
    /\ pending \in Seq(Request)
    /\ linkUp \in [Conns -> BOOLEAN]
    /\ down \in [Conns -> Seq(Message)]
    /\ up \in [Conns -> Seq(Message)]
    /\ cConn \in Conns /\ cWaiting \in BOOLEAN /\ cReliable \in BOOLEAN
    /\ cSent \in Nat /\ cUnqueued \in Nat
    /\ delivered \in Seq(Nat) /\ processed \in Seq(Nat)
    /\ unbuffered \in Nat
    /\ strangerPosted \in BOOLEAN

\* m_GProxyBuffer is exactly the end of the stream: the packets after the
\* PacketsAlreadyUnqueued first ones, in order, none missing.  Everything
\* the arithmetic of GPS_ACK and EventGProxyReconnect assumes of it.
BufferIsTheTail ==
    /\ \A i \in DOMAIN buffer : buffer[i] = Unqueued + i
    /\ unbuffered <= Unqueued

\* A buffered packet is dropped from m_GProxyBuffer only when the client has
\* it: however acks, reconnections and requests of other players interleave,
\* the bot can still resend what the client has not received.
NothingDiscardedEarly == Unqueued <= Max2(unbuffered, Len(delivered))

\* The stream the client hands to Warcraft III has no gap, no repetition and
\* no reordering.  It is what CGamePlayer::Send aims at when it says that
\* packets need not be buffered until the client is known to use GProxy++.
NoPacketLost == \A k \in DOMAIN delivered : delivered[k] = k

\* The packets that were sent before buffering began have all arrived, or
\* are still to come: none of them was lost with a connection.
EarlyPacketsIntact ==
    \A k \in DOMAIN delivered : k <= unbuffered => delivered[k] = k

\* If no packet sent before buffering began was lost, the client receives
\* every packet exactly once and in order, across any number of connections
\* (CGamePlayer::Send, the GPS_ACK handler, EventGProxyReconnect).
ReliableOnceLoaded == EarlyPacketsIntact => NoPacketLost

\* The other way: the bot processes every packet of the client exactly once
\* and in order, because the GPS_RECONNECT it answers with carries the number
\* of packets it has extracted (m_TotalPacketsReceived).
ProcessedOnceInOrder == \A k \in DOMAIN processed : processed[k] = k

\* Both streams, across foreign requests for the same PID, answers that come late over old
\* connections, and packets in flight that are lost in both directions.
StreamsAreReliable == ReliableOnceLoaded /\ ProcessedOnceInOrder

\* A request for a reconnection is never forgotten: the client is connected
\* again or its new connection is closed so that it can try once more.
ReconnectAnswered ==
    cWaiting /\ linkUp[cConn] ~> ~cWaiting \/ ~linkUp[cConn]

\* Once the connection stays up and the player stays in the game, the client
\* catches up with everything the bot ever sent.
CatchesUp ==
    <>[](linkUp[cConn] /\ ~deleted)
        => <>[](~EarlyPacketsIntact \/ Len(delivered) = totalSent)

\* A lost connection costs time and nothing else: requests are answered however the main
\* thread, which expires them, the game thread and the retries of the client interleave,
\* and what was missed is sent again.
ReconnectionWorks == ReconnectAnswered /\ CatchesUp

\* To a client that waits for the loaded game before it reconnects, the bot
\* looks like one connection that never broke: ReliableStream.
Stream == INSTANCE ReliableStream WITH sent <- totalSent, out <- delivered
ImplementsStream == Stream!Spec
=============================================================================
