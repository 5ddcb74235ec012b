# TLA+ models of the th-ghost hosting bot

th-ghost is a Warcraft III hosting bot: it logs on to battle.net, advertises
lobbies, admits players, relays the game to them and records what happened.
This directory holds TLA+ modules that model its core logic, TLC configurations
that check them on small instances, and TLAPS proofs.

## 1. Inventory of the system

Own code is `src/ghost/*.cpp` plus the two rating tools; StormLib, bncsutil,
zlib, mysql, sqlite3.c, GeoIP, csvparser, sha1, crc32 are vendored.

### Threads and shared state

| thread | loop | owns | shares |
|---|---|---|---|
| main | `CGHost::Update` (ghost.cpp:734) | BNET connections, reconnect listener, callables, `m_CurrentGame`, `m_Games` | `m_GamesMutex`, `m_CallablesMutex`, `m_ReconnectMutex`, `m_DenyMutex`, ... |
| one per game | `CBaseGame::loop` (game_base.cpp:206) | players, slots, timers of its game | posts to the main thread's lists |
| one per database job | `CMySQLCallable::operator()` | one MySQL connection | `m_Ready` of the callable |

### Components, their state, and what makes them correct

* **GProxy++ reconnection** (gameplayer.cpp, gpsprotocol.cpp, ghost.cpp
  950-1059, game_base.cpp 1209-1232).  State: packet counters, the resend
  buffer, `m_ReconnectSockets`, `m_PendingReconnects`.  Hard: TCP loss at any
  moment, two threads, retries, expiry, equal PIDs in different games.
  Correct: each side sees the other's packets once and in order; nothing that
  may still be needed is discarded; every request is answered.
* **Lobby** (game_base.cpp: join, kick, slots, PIDs, virtual host, fake
  players, countdown).  State: `m_Slots`, `m_Players`, `m_VirtualHostPID`,
  `m_FakePlayers`, countdown.  Hard: players deleted later than their slot is
  opened, PIDs freed and reused, reserved players that kick, a countdown that
  runs while people leave.  Correct: one slot per player, one player per PID,
  never more than twelve, the countdown never starts an illegal game.
* **Loading** (game_base.cpp 885-1032, EventPlayerLoaded): everybody must
  receive the same desyncable data in the same order, also with load-in-game.
* **Lag screen and sync counters** (1040-1207, EventPlayerKeepAlive): the game
  pauses exactly while somebody lags and resumes when nobody does.
* **Desync detection** (EventPlayerKeepAlive 2608-2746).  State: the queue of
  checksums of each player.  Hard: the answers come at any pace, and players
  leave with answers waiting.  Correct: what is compared belongs to the same
  update; only a minority goes; two games that differ are found out.
* **Game lifecycle** (CGame, CBaseGame::loop, CGHost::Update).  State:
  `m_CurrentGame`, `m_Games`, `m_DoDelete`, `m_Exiting`, `m_Saving`.  Hard: two
  threads that delete, a flag without a lock, a nice exit in the middle.
  Correct: a game is held once and deleted once, nothing runs on a deleted
  game, a finished game goes, its result is saved.
* **Database jobs** (ghostdb*, CBaseCallable).  State: `m_Ready` and
  `m_Connection` of the callables, `m_IdleConnections`, `m_Callables`.  Hard:
  jobs that outlive their game, threads that cannot be started, failures.
  Correct: each job is given back once, a connection has one user.
* **battle.net connection** (bnet.cpp).  State: the socket, `m_LoggedIn`,
  `m_OutPackets`, the game the server advertises.  Hard: loss at any moment,
  threads of games that queue, answers that name no game.  Correct: the bot
  tries again, nothing stale is sent, the server shows the current lobby only.
* **Action relay** (SendAllActions, EventPlayerAction): every action is
  relayed once to everybody, in order, in sub-packets of bounded size.
* **Votes** (EventPlayerBotCommand, CGame::Update, CStatsDOTA).  State: who has
  voted for what, the victim, the team that forfeits, the winner, the game over
  timer.  Hard: a vote lasts a minute, and who counts changes meanwhile; the
  map reports winners too.  Correct: a kick or a forfeit is what those concerned
  voted for, the recorded result is the one agreed on, the game ends.
* **Autoban**, **stats** (statsdota, statsw3mmd, ghostw3hmc), **admin game**.
* **Deny list** (ghost.cpp 1649-1718).
* **Protocol packing**, maps, replays, save games, config, language: pure
  data conversion and I/O.

## 2. The modules

| module | models | extended by | theorems in |
|---|---|---|---|
| `GProxy` | reliable reconnection of one player | `MCGProxy` | `GProxyProofs` |
| `ReliableStream` | what that promises to Warcraft III: one unbroken stream | refined by `GProxy` | |
| `Lobby` | players, PIDs, slots, fake players, virtual host, countdown | `MCLobby` | `LobbyProofs` |
| `BalanceSlots` | the search for fair teams and the swaps that realise it | `MCBalanceSlots` | `LobbyProofs` |
| `Loading` | from the start of the game until everybody has loaded, load-in-game | `MCLoading` | `LoadingProofs` |
| `LagScreen` | the running game: updates, answers, lag screen, drop votes | `MCLagScreen` | `LagScreenProofs` |
| `Desync` | the comparison of the checksums in the answers | `MCDesync` | `DesyncProofs` |
| `Votes` | the votes to kick, draw and forfeit, the result, the end of the game | `MCVotes` | `VotesProofs` |
| `Callables` | the database jobs and the pool of MySQL connections | `Lifecycle` | `LifecycleProofs` |
| `Lifecycle` | the main thread, the threads of the games, their deletion, the nice exit | `MCLifecycle` | `LifecycleProofs` |
| `BNET` | the connection to battle.net, its queue, the advertised lobby | `MCBNET` | `BNETProofs` |

The modules follow a game through its life: `Lobby` ends where `Loading`
begins (EventGameStarted), `Loading` ends where `LagScreen` begins
(`m_GameLoaded`), `Desync` looks at the answers to the updates of `LagScreen`,
`Votes` at what the players say from the lobby to the result, and `GProxy` at one player's connection through all of them.  `Lifecycle` sees
the games from outside, as threads beside the main one, and composes them with
`Callables`, which it extends: its steps are steps of the pool or leave it
alone.  `BNET` is the main thread's other half, with the game as the thread
that queues.  Names are those of the source where they can be: a variable is the
member it stands for without `m_`, an action the handler it translates.  An
operator whose comment begins with "Mutant" or "Fault" is a plausible mistake
in the operator below it; it is used by no specification and records what each
property is sensitive to.

### How `CBaseGame::Update` becomes actions

A game is one thread that calls `Update` for ever, so nothing in a game runs
concurrently with it.  But `Update` is a long function that visits the players
one by one and has several parts, and what one player's packet does is seen by
the parts that follow.  `Lobby`, `Loading` and `LagScreen` therefore keep a
`phase` (the part of `Update` that is running) and a `turn` (the last player
visited): players act in the order of `m_Players`, a flagged player is deleted
only at its own turn, and the chores at the end find what the packets left.
Every packet handler is one action, with everything it calls.

### `GProxy`

State: the counters `m_TotalPacketsSent/Received`, the buffer, the socket, the
two lists of the main thread (`m_ReconnectSockets`, `m_PendingReconnects`), and
a network of one FIFO per connection and direction that loses what is in flight
when it breaks.  Main thread: `PostReconnect`, `DropListening`,
`ExpireReconnect`.  Game thread: `HandleReconnect`, `BotSend`, `BotReceive*`,
`BotAck`, `BotNoticesLoss`, `DropPlayer`, `GameLoad`.  `StrangerReconnects` and
`OtherGameHandles` are another game's player with the same PID; the reconnect
key tells the two apart.  The client is not in the repository: it counts and
acknowledges what it gets, and asks to reconnect with that number.

The buffer never holds the packets sent before `m_GameLoaded` (variable
`unbuffered`).  A client with `EagerClient = FALSE` reconnects only once it has
seen a buffered packet.  With `EagerClient = TRUE` a packet of the loading phase
can be lost for good: run `gproxy_early_loss`, and the reason why
`ReliableOnceLoaded` has a premise.  With that client the liveness properties
fail for the same reason, so run `gproxy` has a patient one; what is proved of
the buffer holds with both.

Notes on the code: a game takes one matching request per step of its loop;
the answer "not found" is put into a socket that is deleted without having been
in the send set (ghost.cpp 1048-1050), so the client learns of it by the
connection being closed, and that is how it is modelled.

### `Lobby`

State: `m_Players` with PID, reservation, `m_DeleteMe`, `m_LeftMessageSent`;
`m_Slots`; `m_FakePlayers`; `m_VirtualHostPID`; the countdown; and what each
client was told (`roster`).  Actions: joins, with the choice of the slot and
the displacement by reserved players and the owner; kicks from every source
(commands, spoof and ping checks, the announcement of the countdown); slot
commands; fake players; the virtual host; the countdown.  `EventPlayerDeleted`
is the removal, after any number of other events.

Notes on the code: a displaced player is told to have left at once, but its
connection stays in `m_Players` and its PID is free.  `lobby_slot_lost` shows
its second removal taking the successor's slot.  The comment at 580-581 about twelve PIDs is not
met for the moment in which a displaced player is still connected.  A player
kicked in the last `Update` of the countdown is still flagged, not gone, when
the game starts (880, compare the comment at 3284).

### `BalanceSlots`

`BalanceSlotsRecursive` as in the code: of the combinations that
`next_combination` goes through it keeps the first whose largest difference
between the scores of two teams is smallest, and puts the best players first; then
the swaps of `BalanceSlots` over open slots, computers and players.  A combination
is the set of the players it puts on the team.  `Combinations` leaves out the one
the loop starts from and `TriedBefore` is the order, which decides between equally
good ones.  The recursion is a recursive function over the team the call starts
with, so that the module can be proved about.  Observation: the loop over the
leaders counts its blocks from team 0 also in the recursive calls, whose orderings
are shorter, and line 4237 then reads beyond their end; the values are not used.

### `Loading`

State: who has loaded, `m_LoadInGameData` per player (`held`), what each game
has been given (`seen`), the lag screens.  Actions: `EventPlayerLoaded`,
`EventPlayerDeleted` (with the autosave that sends an update first), the check
in `Update` that ends loading or drops those who do not load after 240 seconds
(`LoadingCheck`), the reset of the lag screen with an empty update, and the
updates of the loaded game.  Observation: `FinishedLoading` is what the last
player in the list answered, so the game may be taken as loaded while flagged
players are still loading, without a STOP_LAG for them (history `dropped`).

### `LagScreen`

State: how many answers each player is behind, `m_Lagging` of the players and
of the game, the screen as the clients show it, the votes, and the timer of the
updates with its unsigned arithmetic (`Wait`).  Actions: `KeepAlive`,
`DropRequest`, the commands `!nolag`, `!synclimit`, `!latency`, `!drop`, the
parts of `Update` (`StartLag`, `NobodyLags`, `Lagging`, `SendAllActions`).
Observations on the code:

* `!latency` can make `m_Latency - m_LastActionLateBy` wrap: no update is sent
  any more (run `lag_latency`).  The liveness properties except the behaviours
  in which that happened (`<>~UpdatesAreTimely`).
* An autosave sends an update from `EventPlayerDeleted` although a lag screen
  may be up (1774-1788, against the comment at 1200); its early update makes
  the lateness wrap and be cut to `m_Latency`, so the next one follows at once.
  `saves` counts these updates.  `NobodyIsLeftBehind` allows one for each of them
  beyond `m_SyncLimit + 1`, and does not hold with less; `GameStops` allows
  nothing else behind a lag screen.
* A player with `!nolag` who uses GProxy++ and is gone is never dropped.
* The threshold of a drop vote is evaluated when somebody votes, not when
  somebody leaves.
* Laggers are dropped for time before it is seen that they have caught up.
* `bot_synclimit` is not bounded below when configured: with 0 or 1,
  `m_SyncLimit / 2` is 0 and nobody ever catches up completely.

### `Desync`

State: for each player the world its game is in (what a checksum tells apart),
how many answers it is ahead of the slowest, and `m_CheckSums`.  Actions:
`Split` (a fault in the game or the map, outside the bot), `KeepAlive` (the
whole of EventPlayerKeepAlive: the answer is queued, and if everybody has one
the queues are popped, the bins made and the losers flagged, as often as the
loop runs), `Leave`, `DeletePlayer`.  `Tally` is the loop over the bins in the
order of their checksums (2664-2695), `NextBin` one turn of it: `LargestBin`
begins at the first bin, a larger one takes its place and resets `Tied`, another
of the same size sets it.  The worlds are the order of the checksums, which is
no restriction as groups of any size are in any world.  Updates are without end, so the counts
are taken from the slowest player; `MaxAhead` is `m_SyncLimit`, beyond which
`LagScreen` stops the game.

### `Votes`

State: the players with `m_DeleteMe` and their three votes, `m_KickVotePlayer`,
`m_ForfeitTeam`, whether the forfeit timer and the game over timer run,
`m_SoftGameOver`, and `m_Winner` and `m_Locked` of the statistics.  Actions: the
commands (`StartKickVote`, `Yes`, `EndKickVote`, `Draw`, `Undraw`, `Forfeit`),
`RemoveForfeiters` and `StopPlayers` when their times have come,
`ProcessAction` for what the map reports, which is any number and stands if it
names a team (3 is all those that name none), departures in two steps (flagged, then
deleted: only the second takes the votes away), `SaveGameData`.  The history
`agreed` is who is for the running kick vote, whatever `m_KickVote` says;
`begunLoaded` whether it began in the loaded game.

### `Callables` and `Lifecycle`

`Callables` is one callable after the other: `Threaded` creates it with an idle
connection if there is one, `LookAgain` and `Connect` find one in its own
thread, `Work` is the query and `Close`, `Recover` gives it back.  A thread
that cannot be started leaves a job that is ready at once, and if it had no
connection its NULL goes to the idle queue.

`Lifecycle` has two program counters.  `main` is the part of `CGHost::Update`
(`games`, `nice`, `doDelete`, `forget`, `count`, `sweep`); `thread[g]` is where
`CBaseGame::loop` is (`loop`, `update`, `check`, `true`, `end`, then `mark` or
`self`).  A step ends where another thread can come between, so the nice exit is
four steps: it reads `m_CurrentGame`, calls `doDelete`, forgets the game, counts
the others.  The destructor is two, `UseResult` (is the GameAdd ready?) and
`LeaveJobs`.  A mutex is a guard: `GamesMutexIsFree`, `CallablesMutexIsFree`.  A pointer
to a deleted game that is read is undefined behaviour: `Crash` is one outcome,
going on is the other.

### `BNET`

State: the socket, `m_WaitingToConnect`, `m_LoggedIn`, `m_OutPackets`; outside,
what the server advertises and the answers on their way; of the game, its name,
whether it is public, `m_RefreshError`.  `late` is a packet whose thread has
found `m_LoggedIn` set and not yet taken `m_PacketsMutex`; `starting` is a game
that has left `m_CurrentGame` and not yet uncreated itself.  The server takes
one advertisement at a time and answers in order; it is not in the repository
and is modelled from what `CBNET` does with its answers.

## 3. The runs

A property whose name is a conjunction (`StreamsAreReliable` is
`ReliableOnceLoaded` and `ProcessedOnceInOrder`, and so on) is defined from named
parts with a comment each; the parts belong to one question.

| run | configuration | shows |
|---|---|---|
| `gproxy` | 3 connections, 2 packets, a stranger's request, a patient client, fairness | types, `BufferIsTheTail`, `NothingDiscardedEarly`, `StreamsAreReliable`, the refinement of `ReliableStream`, `ReconnectionWorks` (`ReconnectAnswered`, `CatchesUp`) |
| `gproxy_early_loss` | 2 connections, an eager client | `NoPacketLost` is violated |
| `lobby` | 2 slots, 3 joins of plain, reserved and owner, a fake player, fairness | types, `PIDsDistinct`, `SlotsHaveOwners`, `RosterIsRight`, `CountDownIsHonest`, `PlayersKeepSlots`, `LobbyMovesOn` (the flagged are deleted, the countdown ends) |
| `lobby_slot_lost` | 2 slots | `PlayersHaveSlots` is violated once players displace each other |
| `balance` | 2 teams over 4 slots of anything, 3 teams of 6 players | `BalanceIsAsSearched` (`NobodyIsLost`, `LeaderIsFirst`, `EqualSplitIsOptimal`) |
| `loading` | 3 players, load-in-game or not, GProxy++ or not, 2 updates | types, `SameHistory`, `LoadedTogether`, `ScreenIsRight`, `GameLoads` |
| `lag` | 2 players, limits 2 and 3, latencies 1 and 2 | types, `LagScreenIsRight` (who is shown, the flag, the votes), `NobodyIsLeftBehind`, `GameStops`, `NobodyWaitsForEver` (`GameGoesOn`, `GoneAreRemoved`) |
| `lag_latency` | 2 players | `UpdatesAreTimely` is violated |
| `desync` | 4 players in 3 worlds, so groups of 3+1, 2+2 and 2+1+1 in any order | types, `SameUpdateIsCompared`, `VoteIsFair`, `DesyncIsFound` |
| `lifecycle` | 2 games, `m_MaxGames` 1, 4 jobs, a nice exit at any time | types, `GamesAreHeld`, `JobsAreKept`, `PoolIsSound`, `GamesEnd` |
| `bnet` | 2 names, 1 chat command, 1 lost connection | types, `QueueIsCurrent`, `BotComesBack` (`TriesAgain`, `PublicLobbyIsAdvertised`) |
| `votes` | 2 players against 1, an observer, everybody needed, 4 votes, fairness | types, `KickIsAgreed`, `OutcomeStands`, `GameEnds` |

### Observations

What the modelling showed and no run is about, because no property could be
stated that the repository promises, or because the code accepts it:

* The owner who takes a slot from a fake player leaves that fake player in
  `m_FakePlayers` without a slot; its PID stays in use (game_base.cpp:2223-2240
  looks for a player in the slot and finds none).
* The split of the search for teams begins with the order of the PIDs, and
  `next_combination` moves on before it is looked at (4164): between teams of
  different sizes that first split is never considered, between equal ones its
  mirror image is.
* The answer to a game packet names no game (bnet.cpp:780-792).  A refusal of
  the old name that arrives after `!pub` marks the new name as refused: its
  refreshes stop, and the lobby is closed if it is empty.  The comment at
  game.cpp:1946-1948 accepts "a potential false positive".
  `PublicLobbyIsAdvertised` excepts a lobby marked as refused.
* A game that starts leaves `m_CurrentGame` before it uncreates itself
  (game_base.cpp:3399-3420).  A lobby created in between is uncreated in its
  place; a public one is advertised again by its next refresh, a private one
  stays hidden.
* A nice exit that meets the start of the current game can leave it in
  `m_Games` with `m_DoDelete` 1: it deletes itself and the main thread still
  looks at it (ghost.cpp:787-792).  `GamesAreHeld` speaks of the time before a
  nice exit, `GamesEnd` excepts the game that raced (`Raced`).
* A game that is told to exit before its players leave, or deleted while its
  GameAdd is running, has its players not saved (game.cpp:102-141, 182-191).
* After the losers of a forfeit have been removed the winners can forfeit too,
  until the game over timer ends the game, and `SetWinner` hands the win to the
  team that is no longer there (game.cpp:679-705, 2924-2973).  `OutcomeStands`
  allows just this change of the winner.
* A `!draw` that is agreed after a forfeit or a reported winner announces that
  the game "has now been recorded as a draw" (game.cpp:2903), but the winner
  stays and is what is saved (statsdota.h:65).  `OutcomeStands` says of a draw
  only that nothing changes after it.
* A kick vote that begins in the lobby goes on while the game loads and then
  skips the test for the last player of a team, of which the message says
  "cannot votekick when there is only one player on victim's team"
  (game.cpp:2756).  `KickIsAgreed` speaks of it for votes begun in the game.
* A map that reports a winner that is neither 1 nor 2 starts the game over timer
  like any other, and stops the win conditions of the statistics; it is what is
  saved unless a report that names a team, or a forfeit, follows
  (statsdota.cpp:427-441, 532).
* The votes are counted when somebody votes: nobody is kicked, no
  draw is agreed and no team forfeits because somebody left, until the next vote.

### Bounds, and why they are enough

* `MaxConns`, `MaxSent`, `MaxUp`: two reconnections are needed for a second
  request that meets the effects of the first; two packets for an
  acknowledgement that lies between them.  The proofs remove these bounds for
  the buffer.
* `MaxJoins`, `MaxFakes`, `NumSlots`: two slots and three joins give a full
  lobby, a displacement and the reuse of a PID while its old owner is present.
  `CountFrom = 1` keeps the countdown's first, middle and last tick.
* `MapSlots`, `NumTeams`, `MaxScore` of the balancing: three teams make the
  recursion go two levels deep; four slots have all mixtures of players,
  computers and open slots.  The proofs remove these bounds.
* `MaxUpdates` of `Loading`: one update behind the lag screen and one in the
  loaded game, so that held and sent data interleave; three players give a last
  one, an early one and one who leaves.
* `NumPlayers`, `NumWorlds` of `Desync`: a clear minority, a tie of two groups
  and a tie among the smaller ones need four players and three worlds; one
  answer ahead is enough for a queue that waits.  In the order 1, 1, 2 the flag
  for a tie is set and must be taken back.  That it is set again after that (1, 2,
  2) takes five players; the proof of `VoteIsFair` removes the bound.
* `Games`, `MaxGames` of `Lifecycle`: one game in progress and one in the lobby,
  so that a start meets the limit and the nice exit meets both lists; two jobs
  per game and `MaxIdle = 1` fill the idle queue and close what is too much.
* `MaxNames`, `MaxDrops`, `MaxQueued`, `MaxReplies` of `BNET`: a second name for
  an answer that is late, a lost connection with packets queued, a queue that is
  too full for chat, a refresh that waits for the answers.
* `Players`, `Team`, `MaxCommands` of `Votes`: a kick vote needs four players; a
  team of two can lose one and then forfeit, a team of one is a last player, an
  observer votes too.  Four commands are a vote that passes and one that
  contradicts it.
* `MaxBehind` of `LagScreen` stands for itself and more: it is above every
  `m_SyncLimit + 1`, where nothing depends on the exact number any more, and with
  `m_SyncLimit` 2 above what the one autosave that somebody can live to see adds.
  `TickBits = 3` stands for 32: latencies are 1 and 2, and what matters is that
  a difference can be negative.  A client answers at most as many updates as it
  was sent.

### Deadlock

`CHECK_DEADLOCK FALSE` in all configurations.  In `GProxy` the player may be
deleted and the client out of connections, in `Lobby` and `Loading` the
behaviour ends with the phase they model, in `LagScreen` when everybody has
left, in `BalanceSlots` when the slots are balanced, in `Desync` when everybody
has been dropped, in `Lifecycle` when the process has ended; in `Votes` when the game has been saved; in `BNET` the
counts of names and of lost connections are bounds.  Where being stuck would
be a defect a liveness property says so.

### Fairness

* `GProxy`: both threads loop for ever, so the handlers that are enabled run
  (weak fairness on `HandleReconnect`, `PostReconnect`, `ExpireReconnect`, the
  receivers, `BotNoticesLoss`); the client reads what has arrived.  Nothing is
  assumed of the network; `CatchesUp` speaks of behaviours in which the last
  connection stays up.
* `Lobby`: the parts of `Update` follow each other (weak).  The countdown tick
  and the start are taken when their time has come; they compete with other
  things `Update` may do and are enabled again in every round, hence strong.
* `Loading`: the same, and 240 seconds pass: the check with `drop` set is taken
  if loading goes on (strong, as the check is possible once per round).
* `LagScreen`: the same; 60 seconds under a lag screen pass (strong fairness of
  the timeout); and an update that comes due again and again is sent.  The
  latter is strong because a lag screen can come in between, but at most once
  per player before the next update, since `behind` grows only by updates.
* `Desync`: a client that stays answers or leaves (one that does neither lags
  and is dropped, see `LagScreen`), and a flagged player is deleted.
* `Lifecycle`: every thread runs (weak, per game, for the main thread, and for
  the jobs together), and the database answers every query, be it with an error.
  Players need not leave and nobody need end the bot.
* `BNET`: the main thread updates for ever, an attempt to connect ends in time,
  the server answers, and a game that is about to queue does.  The logon need
  not succeed.
* `Votes`: `Update` runs for ever and time passes, so the timers strike and the
  flagged are deleted.  Nobody need vote or leave.

## 4. The proofs

Everything below is proved for every value of the constants that the module's
assumption admits, without the bounds of the runs where a bound is only a guard.

* **`GProxyProofs`**: `TypeCorrect`, `BufferIsAlwaysTheTail`,
  `NothingIsDiscardedEarly`, `StreamsAreAlwaysReliable` (`StreamsAreReliable`)
  and the refinement `ImplementsReliableStream` (`ImplementsStream`), in two
  layers.  `IInv`, of the buffer, is `TypeOK`, `BufferIsTheTail`,
  `Buffering` (the buffer and `unbuffered` before and after `m_GameLoaded`),
  `AcksAreTrue` (every acknowledgement and request of the own client, in
  flight or pending, names no more than the client has) and
  `NothingDiscardedEarly`.  `AcksAreTrue` is what makes it inductive: the bot
  believes the numbers it is sent, also those that arrive late over an old
  connection.
  `StreamInv`, of the streams, rests on it and speaks of the contents of every
  connection.  `Downstream`: `ReliableOnceLoaded`, and as long as nothing was
  lost, the client's connection carries an unbroken run of packets that begins
  with the next one the client needs and, while the connection works, ends with
  the last one sent; only an eager client may miss packets in between, those sent
  before buffering began.  `Upstream`: the packets of the client that are in
  flight follow those counted by `m_TotalPacketsReceived`.  `Answered`: the
  answer to a reconnection comes first on its connection, while the client waits
  for it, and names the packets extracted so far.  `ConnectionsInUse`,
  `ListenersWait` and `RequestsWait` say what the other connections are: never
  used, listening with one request to read, or posted once and silent, and a
  request over the client's current connection still counts right; without them
  an old connection could be taken for the current one.  `PatientClient`: with
  `EagerClient = FALSE` nothing is ever lost, because the client reconnects only
  when it has a packet sent after buffering began.
  The refinement assumes `EagerClient = FALSE` for the same reason as the runs
  do: `gproxy_early_loss` shows what happens otherwise.  It is then the step
  lemma `StreamStep`: every handler sends one or two packets, hands over the next
  one, or maps to a stutter, which is where `StreamInv` is needed: that the packet
  handed over is the next one.
* **`LobbyProofs`**: `TypeCorrect`, `NewPIDsAreFree`, `ClientsKnowWhoIsThere`.
  `IInv` is `TypeOK` and `People`: `PIDsDistinct`, `RosterIsRight`, everybody
  has a PID and the fakes are at most `MaxFakes`.  The assumption
  `MaxJoins + MaxFakes < 253` says that the 254 PIDs never run out (the map has
  at most 12 slots); with it the set of used PIDs is too small to cover them,
  by cardinality, and the least unused one exists, by well-foundedness.
  Its other theorems are `SlotsBelongToPlayers` (`SlotsHaveOwners`) and the
  action properties `SeatsAreKept` (`PlayersKeepSlots`) and
  `GamesStartAsCounted` (`CountDownIsHonest`).  With `IInv` the invariant is
  `SlotsAreOwned`, which says of every slot with a PID what `SlotsHaveOwners`
  says of the humans' slots.  Its second half, no PID in two slots, makes it
  inductive: slots are opened by PID (`SlotOpened`), so the slot that is opened
  must be the only one with that PID.  `PlayersKeepSlots` is argued step by step
  for a player nobody shares a PID with; where two do, `lobby_slot_lost` shows
  that the seat is lost.  For the countdown, whatever changes who stays also
  clears `countDown` (`CountIsCurrent`).
* **`BalanceSlots` in `LobbyProofs`**: `BalancingLosesNobody` (`NobodyIsLost`),
  `TheLeaderIsAlwaysFirst` (`LeaderIsFirst`) and `EqualTeamsAreBalanced`
  (`EqualSplitIsOptimal`), together `TeamsAreBalanced` (`BalanceIsAsSearched`).
  `BalanceInv` says that before the balancing every slot is of a team and no player is in
  two slots (`Layout`), which `BalanceInit` has to be shown to give; what remains is the
  algorithm.
  The first two theorems hold for every layout, any number of teams and all scores.  Every
  level of the search returns an ordering of the players it was given (`ListsFrom`,
  by induction over the teams from the last to the first), and the swaps of leaders only move
  players within their block.  After k swaps of `PutInPlace`, nothing but players and
  open slots has moved (`Moved`) and the first k players are in their slots: no later swap
  takes them out again, because the targets differ and so do the players.  A team has
  enough slots without a computer (`EnoughSlots`), so the "invalid swap" that the code
  provides for does not happen.
  The third is the question whether the search is right, which the code takes for
  granted: it never sees the combination it starts from, and a recursive call minimises the
  difference among the teams that are left, not among all.  `Optimal` is an
  ordering whose teams differ as little as any split (`Split`) of the same players; `Ideal` is
  stronger: whatever range the scores of the teams of another split lie in, those of this one
  lie in it too.  `SearchIsOptimal`: if what the recursive calls return is ideal, the
  result is optimal, because the best split gives the first team some combination, and the
  recursive call does not make the rest worse.  That the first combination is skipped does no harm: with
  equal sizes the same split is found with two teams exchanged (`OneIsTried`).
  For a single team, and for two of equal size, whose scores have a fixed sum, optimal is
  ideal (`TwoTeamsAreIdeal`), so three teams are searched well; so is any number of teams
  of one or two players, as the worst player with the best one, and so on, is an ideal
  split (`PairUp`, `PairsHaveIdealSplit`), and if there is an ideal split an optimal one is
  ideal (`OptimalIsIdeal`).  That is `FewOrSmallTeams`.  `TeamsAreBalanced` assumes
  `NumTeams <= 3 \/ MapSlots < 12`, as four teams of three are the smallest equal teams
  that are neither few nor small.  With at most twelve players (4281) they are the only
  ones, and the code does not search them: their cost is 369600 (the comment at 4319),
  above the limit of 40000 (4337).  So for teams of equal size the theorems reach
  everything the code searches.
* **`LoadingProofs`**: `TypeCorrect`, `SameData`, `NobodyIsLeftLoading`
  and `ScreensAreRight` (`ScreenIsRight`).
  `IInv` adds to the three properties that players who have loaded have nothing
  held for them and that data is held only with load-in-game.  The step is:
  whatever is sent or held extends seen-then-held of every player by the same
  sequence, and concatenation is associative.  The lag screens have an invariant
  of their own, `Screens`: until the game is loaded the screen of everybody who
  has loaded is exactly the set of those who have not, also of those who were
  given up and still wait to be deleted; from then on it shows at most those
  given up.  `ScreenIsRight`, which leaves those out, is not inductive: the step
  that takes the game as loaded must know that nobody else was on the screens.
* **`LagScreenProofs`**: `TypeCorrect`, `OneLagScreen` (`LagScreenIsRight`),
  `GameWaits`, and the action property `LagScreenStopsGame`.  `IInv` is `TypeOK` and `Waiting`: `ScreenIsRight`,
  `LagFlagIsRight`, `VotesAreFresh`, `NobodyLagsUnseen` (somebody lags only
  while the flag is set) and `Near` (`NobodyIsLeftBehind` sharpened by the
  phase: when an update may be sent nobody is beyond the limit but by the updates
  of autosaves, of which each deletion sends at most one).
* **`DesyncProofs`**: `TypeCorrect`, `AnswersStayInStep`
  (`SameUpdateIsCompared`) and the action property `VoteIsAlwaysFair`.  `IInv`
  is `TypeOK` and `SameUpdateIsCompared`; the counts are renormalised to the
  slowest player in every step, which keeps differences (`CountsFromSlowest`),
  and a comparison takes one answer from each queue.  The vote is an invariant
  of the loop over the bins (`Found`): after n worlds `LargestBin` has players and
  is as large as any of them, and `Tied` is set exactly if another is as large.
  `NextBinFinds` is one turn, with the flag taken back or set, `TallyFinds` the
  induction, so any number of groups is told apart, in any order and of any size.
* **`VotesProofs`**: `TypeCorrect` and the action properties `KicksAreAgreed`
  (`KickIsAgreed`) and `ResultsStand` (`OutcomeStands`).  `IInv` is `TypeOK`,
  `KickVoteIsFair` (the flags counted are those of this vote, and its victim
  still has a team mate: it holds because whoever leaves aborts the vote),
  `DrawIsLocked` (the statistics are locked exactly when a draw was agreed) and
  `ForfeitIsUnanimous` (nobody else can forfeit while a team waits to be removed).
* **`LifecycleProofs`**: of the pool by itself, `PoolTypeCorrect` and
  `PoolIsAlwaysSound`.  `PoolInv` adds `Fresh`: a job that still looks for a
  connection holds none, and the one that it would make is neither held nor idle.
  Of the games, `UsesThePool` (`Spec => PoolSpec`: every step of the
  threads is one step of one job, or none), from which with `PoolIsAlwaysSound`
  follows `GamesKeepThePoolSound` (`PoolIsSound`); `TypeCorrect`;
  `GamesAreAlwaysHeld` (`GamesAreHeld`).  `IInv` adds `Threads` (`m_DoDelete` is
  2 only when the thread has gone), `Lists` (before a nice exit nobody calls
  `doDelete`, and the games started are those of `m_Games`) and `Room` (with a
  lobby open there is room for it among `m_MaxGames`).  That is why testing the
  limit at creation is enough.  `JobsAreAlwaysKept` (`JobsAreKept`) needs a
  second invariant, `JInv`, that follows the two jobs of each game
  (`JobsOfGame`) and what its thread has established about them by the time it
  leaves the game (`ResultOfGame`: `Leaving`, `Finished`, `Accounted`).

* **`BNETProofs`**: `TypeCorrect` and `QueueIsAlwaysCurrent`
  (`QueueIsCurrent`).  `Inv` adds to them `NobodyLate` (a thread that found
  `m_LoggedIn` set has ended before the next connection is made, so nothing is
  queued for a connection that is not logged on), `SilentBefore` (before the
  logon the server advertises nothing and has nothing to answer, so the empty
  queue stays empty), `NotLoggedOn`, `LateIsOfTheLobby` (what a thread is about
  to queue advertises the lobby of now: renaming, closing and starting wait for it) and
  `KnownNames`.  Old games are withdrawn by an argument about positions in the
  sequence "what the server advertises, then the queue" (`Withdrawn`): packets
  are added behind, the server takes them in front, and a Stop that follows an
  advertisement goes on following it.  What `UnqueueGameRefreshes` keeps of a
  queue is defined by recursion over it; `UnqueuedPackets` is proved by
  induction.

Induction over data is done in `BNETProofs`, `LobbyProofs` and `DesyncProofs` without the induction theorems of
the library, which take an operator: `SetInduction` says that a set with 0 and
with the successors of its numbers holds every natural number, from the
well-foundedness of < (a number that is missing would leave a least one), and a
proof by induction defines the set of the numbers for which its claim holds.
That the recursive definition defines a function has to be proved the same way
(`KeptExists`, `SwapsExist`, `LoopExists`).

Only model-checked:

* the liveness properties (`ReconnectionWorks`, `LobbyMovesOn`, `GameLoads`,
  `NobodyWaitsForEver`, `DesyncIsFound`, `GamesEnd`, `BotComesBack`, `GameEnds`): the
  provers have no rule for fairness and ENABLED;
* the violations of the three runs that expect one.

Every safety invariant and action property of the passing runs is proved.  Of the balancing
nothing is claimed, or checked, about teams of different sizes: for them the search does
not always find the best split (section 3).

## 5. What is not modelled, and the plan

Left out inside the modelled parts: chat and wording, the replay, what actions
and updates hold, teams and colours, saved and league games, map downloads, the
total lagging time, the shuffle in place of a too long balancing.  A time limit
is a choice of when it strikes, and so is the autosave setting.

Not modelled for good: byte layouts (protocol packing), sockets, maps, replays,
configuration and language (input and output), the vendored libraries, and the
rating tools (batch computations with floating point).

Not modelled yet, in the order in which it should be (the reasons are beside
each component in `PROJECT.json`):

1. `Actions` (1523-1628): the split of the queued actions against a reference
   that only concatenates; to show and prove: nothing lost, nothing reordered.
2. Teams and colours under joins, swaps and commands.
3. `!votestart` in `Votes`, with the joins and displacements of the lobby.
4. `DenyList`, autoban.
5. In `BNET`: the steps of the logon, bans, friends and clans, BNLS.
