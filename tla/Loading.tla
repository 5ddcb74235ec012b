------------------------------ MODULE Loading ------------------------------
(***************************************************************************)
(* The game from EventGameStarted on: everybody loads the map, then the     *)
(* game runs (CBaseGame with m_GameLoading, then m_GameLoaded).             *)
(*                                                                          *)
(* Warcraft III desyncs unless every client receives the same game data,    *)
(* in the same order: who has loaded, the updates, and who has left.  With  *)
(* "load in game" the players who have loaded already play, behind a lag    *)
(* screen that is reset with an empty update now and then, while whatever   *)
(* concerns those still loading is held back for them.  A client that uses  *)
(* GProxy++ sees empty updates of its own making before each update; the    *)
(* bot sends as many to the other clients.                                  *)
(*                                                                          *)
(* Left out: chat, the replay (which is given the same data), the contents  *)
(* of updates, and what happens when a client falls behind in a loaded game *)
(* (module LagScreen).                                                      *)
(***************************************************************************)
EXTENDS Integers, Sequences

CONSTANTS
  NumPlayers,    \* how many players the game starts with
  EmptyActions,  \* m_GProxyEmptyActions
  MaxUpdates     \* bound: the updates sent

ASSUME LoadingAssumption ==
  /\ NumPlayers \in Nat \ {0}
  /\ EmptyActions \in Nat
  /\ MaxUpdates \in Nat

VARIABLES
  loadInGame,    \* m_LoadInGame
  proxied,       \* the players whose m_GProxy is set
  present,       \* m_Players, in this order
  deleteMe,      \* the players whose m_DeleteMe is set
  finished,      \* the players whose m_FinishedLoading is set
  held,          \* m_LoadInGameData of each player
  seen,          \* what the game of each player has been given
  screen,        \* who is on the lag screen of each player
  gameLoaded,    \* m_GameLoaded; m_GameLoading until then
  phase,         \* the part of CBaseGame::Update that is running
  turn,          \* in phase "players", the players up to this one have been updated
  updates,       \* how many updates were sent
  dropped        \* history: the players who were given up because they did not load

settings == <<loadInGame, proxied>>
streams  == <<held, seen>>
loop     == <<phase, turn>>

vars == <<settings, present, deleteMe, finished, streams, screen, gameLoaded, loop, updates, dropped>>

----------------------------------------------------------------------------

Players == 1..NumPlayers

Loaded(p) == [kind |-> "loaded", player |-> p]
Left(p)   == [kind |-> "left", player |-> p]
Update    == [kind |-> "update", player |-> 0]
Empty     == [kind |-> "empty", player |-> 0]

Item == {Loaded(p) : p \in Players} \cup {Left(p) : p \in Players} \cup {Update, Empty}

Staying == present \ deleteMe

Loading == present \ finished

Empties == [k \in 1..EmptyActions |-> Empty]

UsingGProxy == present \cap proxied # {}

\* An update as the bot sends it to a player.
SentTo(p) == IF UsingGProxy /\ p \notin proxied THEN Empties \o <<Update>> ELSE <<Update>>

\* Mutant: forgets that GProxy++ makes the empty updates by itself.
UpdateForTwice(p) == IF UsingGProxy THEN Empties \o SentTo(p) \o (IF p \in proxied THEN <<Empty>> ELSE <<>>) ELSE SentTo(p)

\* An update as the game of a player sees it: GProxy++ inserts empty updates.
UpdateFor(p) == IF p \in proxied THEN Empties \o SentTo(p) ELSE SentTo(p)

\* Send to everybody in m_Players; what a deleted player was sent is forgotten.
SendAll(what) ==
  /\ seen' = [p \in Players |-> IF p \in present' THEN seen[p] \o what[p] ELSE <<>>]
  /\ held' = [p \in Players |-> IF p \in present' THEN held[p] ELSE <<>>]

\* AddLoadInGameData for those who are loading, Send for the others.
SendOrHold(what) ==
  /\ seen' = [p \in Players |-> IF p \in present' \ finished THEN seen[p]
                                ELSE IF p \in present' THEN seen[p] \o what[p] ELSE <<>>]
  /\ held' = [p \in Players |-> IF p \in present' \ finished THEN held[p] \o what[p]
                                ELSE IF p \in present' THEN held[p] ELSE <<>>]

ToAll(item) == [p \in Players |-> <<item>>]

\* The players are updated in the order of m_Players.
Turn(p) ==
  /\ phase = "players"
  /\ p \in present
  /\ turn < p
  /\ \A q \in present : turn < q => p <= q

----------------------------------------------------------------------------

TypeOK ==
  /\ loadInGame \in BOOLEAN
  /\ proxied \subseteq Players
  /\ present \subseteq Players
  /\ deleteMe \subseteq present
  /\ finished \subseteq present
  /\ held \in [Players -> Seq(Item)]
  /\ seen \in [Players -> Seq(Item)]
  /\ screen \in [Players -> SUBSET Players]
  /\ gameLoaded \in BOOLEAN
  /\ phase \in {"players", "loading", "actions"}
  /\ turn \in 0..NumPlayers
  /\ updates \in Nat
  /\ dropped \subseteq Players

\* EventGameStarted.  Players may be flagged already, and with "load in game"
\* everybody is told once loaded that everybody has loaded.
Init ==
  /\ loadInGame \in BOOLEAN
  /\ proxied \in SUBSET Players
  /\ present = Players
  /\ deleteMe \in SUBSET Players
  /\ finished = {}
  /\ held = [p \in Players |->
               IF loadInGame THEN [q \in 1..NumPlayers |-> Loaded(q)] ELSE <<>>]
  /\ seen = [p \in Players |-> <<>>]
  /\ screen = [p \in Players |-> {}]
  /\ gameLoaded = FALSE
  /\ phase = "loading" /\ turn = 0 /\ updates = 0 /\ dropped = {}

----------------------------------------------------------------------------
(* The Update of one player.                                                *)

\* Mutant: the others are not told to remove the player from their lag screen.
EventPlayerLoadedUnseen(p) ==
  /\ Turn(p)
  /\ ~gameLoaded
  /\ p \notin finished
  /\ finished' = finished \cup {p}
  /\ UNCHANGED present
  /\ IF loadInGame
     THEN /\ seen' = [seen EXCEPT ![p] = @ \o held[p]]
          /\ held' = [held EXCEPT ![p] = <<>>]
          /\ screen' = [screen EXCEPT ![p] = Loading \ {p}]
     ELSE /\ SendAll(ToAll(Loaded(p)))
          /\ UNCHANGED screen
  /\ UNCHANGED <<settings, deleteMe, gameLoaded, loop, updates, dropped>>

\* EventPlayerLoaded.  With "load in game" the player is given what was held
\* back, sees who is still loading, and leaves the lag screens of the others.
EventPlayerLoaded(p) ==
  /\ Turn(p)
  /\ ~gameLoaded
  /\ p \notin finished
  /\ finished' = finished \cup {p}
  /\ UNCHANGED present
  /\ IF loadInGame
     THEN /\ seen' = [seen EXCEPT ![p] = @ \o held[p]]
          /\ held' = [held EXCEPT ![p] = <<>>]
          /\ screen' = [q \in Players |->
                          CASE q = p -> Loading \ {p}
                            [] q # p /\ q \in finished -> screen[q] \ {p}
                            [] OTHER -> screen[q]]
     ELSE /\ SendAll(ToAll(Loaded(p)))
          /\ UNCHANGED screen
  /\ UNCHANGED <<settings, deleteMe, gameLoaded, loop, updates, dropped>>

\* The player leaves, is kicked, times out: m_DeleteMe is set.
Departs(p) ==
  /\ phase = "players"
  /\ p \in present
  /\ deleteMe' = deleteMe \cup {p}
  /\ UNCHANGED <<settings, present, finished, streams, screen, gameLoaded, loop, updates, dropped>>

\* An update of the game to everybody.
UpdateAll == [p \in Players |-> UpdateFor(p)]

\* Mutant: with "load in game" the leave is sent at once to those who load.
EventPlayerDeletedAtOnce(p, autoSave) ==
  LET leave == [q \in Players |->
                  IF autoSave THEN UpdateFor(q) \o <<Left(p)>> ELSE <<Left(p)>>]
  IN /\ autoSave => gameLoaded /\ updates < MaxUpdates
     /\ present' = present \ {p}
     /\ deleteMe' = deleteMe \ {p}
     /\ finished' = finished \ {p}
     /\ updates' = IF autoSave THEN updates + 1 ELSE updates
     /\ SendAll(leave)
     /\ screen' = [q \in Players |-> IF ~gameLoaded /\ loadInGame /\ q \in finished
                                      THEN screen[q] \ {p} ELSE screen[q]]
     /\ UNCHANGED <<settings, gameLoaded, loop, dropped>>

\* EventPlayerDeleted and the erase from m_Players.  An autosave sends an
\* update first.
EventPlayerDeleted(p, autoSave) ==
  LET leave == [q \in Players |->
                  IF autoSave THEN UpdateFor(q) \o <<Left(p)>> ELSE <<Left(p)>>]
  IN /\ autoSave => gameLoaded /\ updates < MaxUpdates
     /\ present' = present \ {p}
     /\ deleteMe' = deleteMe \ {p}
     /\ finished' = finished \ {p}
     /\ updates' = IF autoSave THEN updates + 1 ELSE updates
     /\ IF ~gameLoaded /\ loadInGame
        THEN /\ SendOrHold(leave)
             /\ screen' = [q \in Players |-> IF q \in finished THEN screen[q] \ {p} ELSE screen[q]]
        ELSE /\ SendAll(leave)
             /\ UNCHANGED screen
     /\ UNCHANGED <<settings, gameLoaded, loop, dropped>>

\* A flagged player is deleted; so is one whose connection is lost, unless it
\* may reconnect.
DeletePlayer(p) ==
  /\ Turn(p)
  /\ p \in deleteMe \/ ~(p \in proxied /\ gameLoaded)
  /\ \E autoSave \in BOOLEAN : EventPlayerDeleted(p, autoSave)

\* Mutant: the iterator runs past the end of m_Players.
KeepPlayerLost(p) ==
  /\ Turn(p)
  /\ p \notin deleteMe
  /\ turn' = NumPlayers + p
  /\ UNCHANGED <<settings, present, deleteMe, finished, streams, screen, gameLoaded, phase, updates, dropped>>

KeepPlayer(p) ==
  /\ Turn(p)
  /\ p \notin deleteMe
  /\ turn' = p
  /\ UNCHANGED <<settings, present, deleteMe, finished, streams, screen, gameLoaded, phase, updates, dropped>>

PlayersDone ==
  /\ phase = "players"
  /\ \A p \in present : p <= turn
  /\ phase' = "loading"
  /\ turn' = 0
  /\ UNCHANGED <<settings, present, deleteMe, finished, streams, screen, gameLoaded, updates, dropped>>

----------------------------------------------------------------------------
(* The rest of an Update.                                                   *)

\* Mutant: the last player always decides.
FinishedLoadingByLast(drop) == \A p \in Loading : \E q \in finished : p < q

\* Mutant: nobody counts as loaded while somebody is to be dropped, or was.
FinishedLoadingNever(drop) == ~drop /\ Loading = {} /\ dropped = {}

\* The loop that sets FinishedLoading: it stops at the first player who is
\* loading, but not when those are dropped, and then the last player decides.
FinishedLoading(drop) ==
  IF drop THEN \A p \in Loading : \E q \in finished : p < q ELSE Loading = {}

DropLoading(drop) ==
  /\ deleteMe' = IF drop THEN deleteMe \cup Loading ELSE deleteMe
  /\ dropped' = IF drop THEN dropped \cup Loading ELSE dropped

GameLoaded(drop) ==
  /\ phase = "loading"
  /\ ~gameLoaded
  /\ FinishedLoading(drop)
  /\ DropLoading(drop)
  /\ gameLoaded' = TRUE
  /\ phase' = "actions"
  /\ UNCHANGED <<settings, present, finished, streams, screen, turn, updates>>

StillLoading(drop) ==
  /\ phase = "loading"
  /\ ~gameLoaded
  /\ ~FinishedLoading(drop)
  /\ DropLoading(drop)
  /\ phase' = "actions"
  /\ UNCHANGED <<settings, present, finished, streams, screen, gameLoaded, turn, updates>>

\* With "load in game" the lag screen is reset every 30 seconds, with an update.
ResetLagScreen(drop) ==
  /\ phase = "loading"
  /\ ~gameLoaded
  /\ ~FinishedLoading(drop)
  /\ DropLoading(drop)
  /\ loadInGame
  /\ updates < MaxUpdates
  /\ updates' = updates + 1
  /\ UNCHANGED present
  /\ SendOrHold(UpdateAll)
  /\ screen' = [p \in Players |-> IF p \in finished THEN screen[p] \cup Loading ELSE screen[p]]
  /\ phase' = "actions"
  /\ UNCHANGED <<settings, finished, gameLoaded, turn>>

AlreadyLoaded ==
  /\ phase = "loading"
  /\ gameLoaded
  /\ phase' = "actions"
  /\ UNCHANGED <<settings, present, deleteMe, finished, streams, screen, gameLoaded, turn, updates, dropped>>

SendAllActions ==
  /\ phase = "actions"
  /\ gameLoaded
  /\ updates < MaxUpdates
  /\ updates' = updates + 1
  /\ UNCHANGED present
  /\ SendAll(UpdateAll)
  /\ phase' = "players"
  /\ UNCHANGED <<settings, deleteMe, finished, screen, gameLoaded, turn, dropped>>

UpdateDone ==
  /\ phase = "actions"
  /\ phase' = "players"
  /\ UNCHANGED <<settings, present, deleteMe, finished, streams, screen, gameLoaded, turn, updates, dropped>>

LoadingCheck(drop) == GameLoaded(drop) \/ StillLoading(drop) \/ ResetLagScreen(drop)

Next ==
  \/ \E p \in Players : EventPlayerLoaded(p) \/ Departs(p) \/ DeletePlayer(p) \/ KeepPlayer(p)
  \/ PlayersDone
  \/ \E drop \in BOOLEAN : LoadingCheck(drop)
  \/ AlreadyLoaded
  \/ SendAllActions
  \/ UpdateDone

\* The thread runs; 240 seconds after the start those who load are dropped.
Fairness ==
  /\ WF_vars(PlayersDone) /\ WF_vars(AlreadyLoaded) /\ WF_vars(UpdateDone)
  /\ \A p \in Players : WF_vars(DeletePlayer(p) \/ KeepPlayer(p))
  /\ WF_vars(LoadingCheck(TRUE) \/ LoadingCheck(FALSE))
  /\ SF_vars(LoadingCheck(TRUE))

Spec == Init /\ [][Next]_vars

FairSpec == Spec /\ Fairness

----------------------------------------------------------------------------
(* Properties.                                                              *)

\* "we must make sure every player receives the exact same "desyncable game
\* data" (updates and player leaves) in the exact same order": what the games
\* of two players who stay have been given and will be given once loaded is
\* the same, GProxy++ or not, "load in game" or not.
SameHistory ==
  \A p, q \in Staying : seen[p] \o held[p] = seen[q] \o held[q]

\* The game is taken as loaded only when everybody who stays has loaded.
LoadedTogether == gameLoaded => Staying \subseteq finished

\* A player who has loaded sees on the lag screen exactly those who are still
\* loading with "load in game", and nobody otherwise; those the bot has given
\* up are not counted.
ScreenIsRight ==
  \A p \in Staying \cap finished :
    screen[p] \ dropped = (IF loadInGame /\ ~gameLoaded THEN Loading ELSE {}) \ dropped

\* Loading ends, also when somebody never loads.
GameLoads == <>gameLoaded

=============================================================================
