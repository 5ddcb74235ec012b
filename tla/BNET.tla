-------------------------------- MODULE BNET --------------------------------
(***************************************************************************)
(* The connection to battle.net (CBNET) and the game that is advertised on  *)
(* it.  The bot connects, logs on, and from then on sends the packets of a  *)
(* queue one by one, slowly, so that it is not kicked for flooding.  The    *)
(* main thread and the thread of the game fill the queue: with chat, and    *)
(* with the packets that create, refresh and uncreate the game.  The server *)
(* answers a game packet later, and may refuse the name of the game.        *)
(*                                                                          *)
(* Left out: the steps of the logon, the times between the packets and      *)
(* between the attempts to connect, clans, friends and channels, and the    *)
(* full lobby and the countdown, during which a game is not refreshed.      *)
(***************************************************************************)
EXTENDS Integers, Sequences

CONSTANTS
  MaxNames,   \* bound: the names that games are given
  MaxQueued,  \* more packets than this in the queue and chat is discarded (10)
  MaxChat,    \* bound: the chat commands of the games
  MaxDrops,   \* bound: the connections that are lost or not made
  MaxReplies  \* bound: a refresh waits until there are fewer answers on their way

ASSUME BNETAssumption == {MaxNames, MaxQueued, MaxChat, MaxDrops, MaxReplies} \subseteq Nat

VARIABLES
  socket,         \* what m_Socket does
  m_WaitingToConnect, m_LoggedIn, m_OutPackets,
  drops, chats,   \* how much of what is bounded has happened
  late,           \* the packet a game's thread is about to queue: it has found m_LoggedIn set
  server,         \* the name of the game that the server advertises, or 0
  replies,        \* the answers of the server that are on their way
  names,          \* how many names there have been
  m_CurrentGame,  \* the name of the lobby, or 0
  public,         \* its m_GameState is GAME_PUBLIC
  m_RefreshError,
  starting        \* a game has left m_CurrentGame and is still to be uncreated

connection == <<socket, m_WaitingToConnect, m_LoggedIn, drops>>
outside    == <<server, replies>>
lobby      == <<names, m_CurrentGame, public, m_RefreshError>>
vars       == <<connection, m_OutPackets, chats, late, outside, lobby, starting>>

\* A packet creates or refreshes the game of a name, uncreates it, enters the chat, is a
\* chat command, or asks for something that needs no answer here.
Advert(n) == <<"advert", n>>
Stop      == <<"stop", 0>>
EnterChat == <<"enter", 0>>
Chat      == <<"chat", 0>>
Ask       == <<"ask", 0>>
NoPacket  == <<"none", 0>>
Packets   == {Advert(n) : n \in 1..MaxNames} \cup {Stop, EnterChat, Chat, Ask}
Replies   == {"ok", "refused"} \X (1..MaxNames) \cup {EnterChat}

Init ==
  /\ socket = "idle" /\ m_WaitingToConnect = TRUE /\ m_LoggedIn = FALSE
  /\ m_OutPackets = <<>>
  /\ drops = 0 /\ chats = 0
  /\ late = NoPacket
  /\ server = 0 /\ replies = <<>>
  /\ names = 0 /\ m_CurrentGame = 0 /\ public = FALSE /\ m_RefreshError = FALSE
  /\ starting = FALSE

----------------------------------------------------------------------------
(* The queue.                                                                 *)

\* Game packets are queued only for a connection that is logged on.
Queue(q, ps) == IF m_LoggedIn THEN q \o ps ELSE q

\* Chat is discarded when there are too many packets.
Full(q) == Len(q) > MaxQueued
QueueChatCommand(q) == IF Full(q) THEN q ELSE Queue(q, <<Chat>>)

\* How a game is taken from the server.
Uncreate == <<Stop, EnterChat>>

\* The packets are moved to a new queue one by one, all but those that advertise a game.
UnqueueGameRefreshes(q) ==
  LET kept[i \in 0..Len(q)] ==
        IF i = 0 THEN <<>>
        ELSE IF q[i][1] = "advert" THEN kept[i - 1] ELSE Append(kept[i - 1], q[i])
  IN  kept[Len(q)]

----------------------------------------------------------------------------
(* CBNET::Update, by the main thread.                                         *)

\* The next attempt, at least 90 seconds after the last failure, when every call that found
\* m_LoggedIn set has ended.
Connect ==
  /\ socket = "idle"
  /\ m_WaitingToConnect
  /\ late = NoPacket
  /\ socket' = "connecting"
  /\ m_WaitingToConnect' = FALSE
  /\ UNCHANGED <<m_LoggedIn, drops, m_OutPackets, chats, late, outside, lobby, starting>>

\* Mutant: the queue survives.
QueueOnConnect0 == m_OutPackets

\* What was queued for the last connection is not sent on this one.
QueueOnConnect == <<>>

Connected ==
  /\ socket = "connecting"
  /\ socket' = "connected"
  /\ m_OutPackets' = QueueOnConnect
  /\ UNCHANGED <<m_WaitingToConnect, m_LoggedIn, drops, chats, late, outside, lobby, starting>>

ConnectTimedOut ==
  /\ socket = "connecting"
  /\ drops < MaxDrops
  /\ drops' = drops + 1
  /\ socket' = "idle"
  /\ m_WaitingToConnect' = TRUE
  /\ UNCHANGED <<m_LoggedIn, m_OutPackets, chats, late, outside, lobby, starting>>

\* The attempt fails, or the connection does, or the server closes it, or the bot does when
\* it cannot log on.  The server forgets the game.
ConnectionLost ==
  /\ socket \in {"connecting", "connected"}
  /\ drops < MaxDrops
  /\ drops' = drops + 1
  /\ socket' = "lost"
  /\ server' = 0
  /\ replies' = <<>>
  /\ UNCHANGED <<m_WaitingToConnect, m_LoggedIn, m_OutPackets, chats, late, lobby, starting>>

\* Mutant: the failure is found again by every update, and the wait starts again.
Waits0 == FALSE

\* After a failure the bot waits for the next attempt.
Waits == TRUE

\* The next update finds the socket in error, or neither connecting nor connected although
\* nothing waits.
Disconnected ==
  /\ \/ socket = "lost"
     \/ socket = "idle" /\ ~m_WaitingToConnect
  /\ socket' = "idle"
  /\ m_WaitingToConnect' = Waits
  /\ m_LoggedIn' = FALSE
  /\ UNCHANGED <<drops, m_OutPackets, chats, late, outside, lobby, starting>>

\* The logon ends: the bot enters the chat at once, and asks for the lists of its friends
\* and of its clan.
LoggedOn ==
  /\ socket = "connected"
  /\ ~m_LoggedIn
  /\ m_LoggedIn' = TRUE
  /\ m_OutPackets' = m_OutPackets \o <<Ask, Ask>>
  /\ replies' = Append(replies, EnterChat)
  /\ UNCHANGED <<socket, m_WaitingToConnect, drops, chats, late, server, lobby, starting>>

\* The server takes a packet: it answers one that creates a game, whose name it may refuse.
ServerTakes(p) ==
  \/ /\ p[1] = "advert"
     /\ \/ server' = p[2] /\ replies' = Append(replies, <<"ok", p[2]>>)
        \/ server' = server /\ replies' = Append(replies, <<"refused", p[2]>>)
  \/ p = Stop /\ server' = 0 /\ replies' = replies
  \/ p = EnterChat /\ server' = server /\ replies' = Append(replies, EnterChat)
  \/ p \in {Chat, Ask} /\ UNCHANGED outside

SendPacket ==
  /\ socket = "connected"
  /\ m_OutPackets # <<>>
  /\ m_OutPackets' = Tail(m_OutPackets)
  /\ ServerTakes(Head(m_OutPackets))
  /\ UNCHANGED <<connection, chats, late, lobby, starting>>

\* An answer.  A refusal is taken to be of the lobby there is now; it is announced in the
\* chat and whispered to whoever created the game.
Receive ==
  /\ socket = "connected"
  /\ replies # <<>>
  /\ replies' = Tail(replies)
  /\ \/ /\ Head(replies) = EnterChat
        /\ m_OutPackets' = Append(m_OutPackets, Ask)
        /\ UNCHANGED m_RefreshError
     \/ /\ Head(replies)[1] = "refused" /\ m_CurrentGame # 0
        /\ m_OutPackets' = QueueChatCommand(QueueChatCommand(m_OutPackets))
        /\ m_RefreshError' = TRUE
     \/ /\ \/ Head(replies)[1] = "ok"
           \/ Head(replies)[1] = "refused" /\ m_CurrentGame = 0
        /\ UNCHANGED <<m_OutPackets, m_RefreshError>>
  /\ UNCHANGED <<connection, chats, late, server, names, m_CurrentGame, public, starting>>

----------------------------------------------------------------------------
(* The games: created and closed by the main thread, otherwise their thread.  *)

\* CGHost::CreateGame.  The game before may have started without being uncreated yet.
CreateGame(pub) ==
  /\ m_CurrentGame = 0
  /\ names < MaxNames
  /\ names' = names + 1
  /\ m_CurrentGame' = names'
  /\ public' = pub
  /\ m_RefreshError' = FALSE
  /\ m_OutPackets' = Queue(QueueChatCommand(m_OutPackets),
                           IF pub THEN <<Advert(names')>> ELSE <<Advert(names'), EnterChat>>)
  /\ UNCHANGED <<connection, chats, late, outside, starting>>

\* The main thread deletes a lobby whose thread has ended.
CloseLobby ==
  /\ m_CurrentGame # 0
  /\ late = NoPacket
  /\ m_CurrentGame' = 0
  /\ m_OutPackets' = Queue(m_OutPackets, Uncreate)
  /\ UNCHANGED <<connection, chats, late, outside, names, public, m_RefreshError, starting>>

\* Mutant: the test is the wrong way round.
LowPriority0 == Len(m_OutPackets) > 1

\* A refresh is not queued behind more than one packet.
LowPriority == Len(m_OutPackets) <= 1

\* CBaseGame::Update refreshes a public lobby: it looks at the queue and at m_LoggedIn...
Refresh ==
  /\ m_CurrentGame # 0 /\ public /\ ~m_RefreshError
  /\ late = NoPacket
  /\ LowPriority
  /\ Len(replies) < MaxReplies
  /\ m_LoggedIn
  /\ late' = Advert(m_CurrentGame)
  /\ UNCHANGED <<connection, m_OutPackets, chats, outside, lobby, starting>>

\* ... a game's chat command looks at m_LoggedIn...
SayOnBNET ==
  /\ m_CurrentGame # 0
  /\ late = NoPacket
  /\ m_LoggedIn
  /\ chats < MaxChat
  /\ chats' = chats + 1
  /\ late' = Chat
  /\ UNCHANGED <<connection, m_OutPackets, outside, lobby, starting>>

\* ... and only then is the packet queued, under m_PacketsMutex.  A private game enters the
\* chat next.
QueueLate ==
  /\ late # NoPacket
  /\ late' = NoPacket
  /\ \/ late = Chat /\ m_OutPackets' = IF Full(m_OutPackets) THEN m_OutPackets
                                                           ELSE Append(m_OutPackets, Chat)
     \/ late # Chat /\ m_OutPackets' = Queue(Append(m_OutPackets, late),
                                             IF public THEN <<>> ELSE <<EnterChat>>)
  /\ UNCHANGED <<connection, chats, outside, lobby, starting>>

NewName(pub) ==
  /\ m_CurrentGame # 0
  /\ late = NoPacket
  /\ names < MaxNames
  /\ names' = names + 1
  /\ m_CurrentGame' = names'
  /\ public' = pub
  /\ m_RefreshError' = FALSE

\* !pub: the refreshes create the game.
RehostPublic ==
  /\ NewName(TRUE)
  /\ m_OutPackets' = Queue(UnqueueGameRefreshes(m_OutPackets), Uncreate)
  /\ UNCHANGED <<connection, chats, late, outside, starting>>

\* !priv: the game is created at once.
RehostPrivate ==
  /\ NewName(FALSE)
  /\ m_OutPackets' = Queue(UnqueueGameRefreshes(m_OutPackets), Uncreate)
  /\ late' = IF m_LoggedIn THEN Advert(names') ELSE NoPacket
  /\ UNCHANGED <<connection, chats, outside, starting>>

\* The game of an autohosting bot gets another name when its name is refused.
AutoRehost ==
  /\ m_RefreshError /\ public
  /\ NewName(TRUE)
  /\ m_OutPackets' = Queue(m_OutPackets, Uncreate)
  /\ UNCHANGED <<connection, chats, late, outside, starting>>

\* CBaseGame::EventGameStarted empties m_CurrentGame under m_GamesMutex...
StartGame ==
  /\ m_CurrentGame # 0
  /\ late = NoPacket
  /\ ~starting
  /\ m_CurrentGame' = 0
  /\ starting' = TRUE
  /\ UNCHANGED <<connection, m_OutPackets, chats, late, outside, names, public, m_RefreshError>>

\* ... and uncreates the game without it.
QueueGameUncreate ==
  /\ starting
  /\ starting' = FALSE
  /\ m_OutPackets' = Queue(m_OutPackets, Uncreate)
  /\ UNCHANGED <<connection, chats, late, outside, lobby>>

----------------------------------------------------------------------------
Update == \/ Connect \/ Connected \/ ConnectTimedOut \/ ConnectionLost \/ Disconnected
          \/ LoggedOn \/ SendPacket \/ Receive

Games == \/ \E pub \in BOOLEAN : CreateGame(pub)
         \/ CloseLobby \/ Refresh \/ SayOnBNET \/ QueueLate
         \/ RehostPublic \/ RehostPrivate \/ AutoRehost
         \/ StartGame \/ QueueGameUncreate

Next == Update \/ Games
Spec == Init /\ [][Next]_vars

\* The main thread updates again and again, an attempt to connect ends, the server answers,
\* and the threads of the games run.  Nobody need log on, play or chat.
FairSpec ==
  /\ Spec
  /\ WF_vars(Connect) /\ WF_vars(Connected \/ ConnectTimedOut) /\ WF_vars(Disconnected)
  /\ WF_vars(SendPacket) /\ WF_vars(Receive)
  /\ WF_vars(Refresh) /\ WF_vars(QueueLate) /\ WF_vars(QueueGameUncreate)

----------------------------------------------------------------------------
(* Properties.                                                                *)

\* The types of the variables; a socket that is idle waits for the next attempt.
TypeOK ==
  /\ socket = "idle" => m_WaitingToConnect
  /\ socket \in {"idle", "connecting", "connected", "lost"}
  /\ {m_WaitingToConnect, m_LoggedIn, public, m_RefreshError, starting} \subseteq BOOLEAN
  /\ m_OutPackets \in Seq(Packets) /\ replies \in Seq(Replies)
  /\ late \in Packets \cup {NoPacket}
  /\ drops \in 0..MaxDrops /\ chats \in 0..MaxChat
  /\ names \in 0..MaxNames /\ {server, m_CurrentGame} \subseteq 0..names

\* Nothing that was queued for an earlier connection is sent on a new one, although the
\* threads of the games queue packets while the bot notices that the connection is gone:
\* until the logon has ended there is nothing in the queue of a connection.
NothingStaleIsSent == socket = "connected" /\ ~m_LoggedIn => m_OutPackets = <<>>

\* On a connection that is logged on, a game that the server advertises, or will when it
\* has taken what is queued, is the current lobby, or will be uncreated: by a packet further
\* back in the queue, or by the thread of the game that is starting.  This has to hold
\* across every race of the threads and across reconnections.
OldGamesAreWithdrawn ==
  socket = "connected" /\ m_LoggedIn /\ ~starting =>
    LET coming == <<Advert(server)>> \o m_OutPackets
    IN  \A i \in DOMAIN coming :
          coming[i][1] = "advert" /\ coming[i][2] \notin {0, m_CurrentGame} =>
            \E j \in i+1..Len(coming) : coming[j] = Stop

\* The queue and the server's advertisement belong to this connection and to this lobby.
QueueIsCurrent == NothingStaleIsSent /\ OldGamesAreWithdrawn

\* A bot without a connection tries again and again: no failure leaves it waiting forever.
TriesAgain == socket \in {"idle", "lost"} ~> socket = "connecting"

\* A public lobby whose name is not refused becomes advertised while the bot is logged on,
\* whatever is queued before its refreshes, and also when a starting game's uncreate takes
\* away the lobby's advertisement.
PublicLobbyIsAdvertised ==
  \A n \in 1..MaxNames :
    m_CurrentGame = n /\ public /\ m_LoggedIn
      ~> server = n \/ m_RefreshError \/ m_CurrentGame # n \/ ~public \/ ~m_LoggedIn

\* Whatever fails, and whatever the server or the queue drops, the bot is back in the list
\* of games once it is logged on again.
BotComesBack == TriesAgain /\ PublicLobbyIsAdvertised

=============================================================================
