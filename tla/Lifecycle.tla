----------------------------- MODULE Lifecycle -----------------------------
(***************************************************************************)
(* The life of the games: the main thread (CGHost::Update) creates them,    *)
(* every game runs in a thread of its own (CBaseGame::loop), moves itself   *)
(* from m_CurrentGame to m_Games when it starts, saves its data when its    *)
(* players are gone, and is deleted by the main thread or, after doDelete,  *)
(* by its own.  The jobs that have not finished by then are left to         *)
(* m_Callables.  A nice exit waits for the games and for the jobs.          *)
(*                                                                          *)
(* A step ends where another thread can come between; what runs under a     *)
(* mutex is one step or excludes the others by its guard.  Left out: the    *)
(* order of m_Games, what the games do beyond having players or not, a      *)
(* forced exit, which only ends the process, and the admin game, which is   *)
(* never created.  Of the jobs of a game there are its m_CallableGameAdd,   *)
(* and one for all that its destructor starts.                              *)
(***************************************************************************)
EXTENDS Callables, FiniteSets

CONSTANTS
  Games,     \* every game that is ever created
  MaxGames,  \* m_MaxGames
  NoGame     \* NULL

Add(g) == <<g, "add">>
Rest(g) == <<g, "rest">>
GameJobs == Games \X {"add", "rest"}

ASSUME LifecycleAssumption ==
  /\ MaxGames \in Nat
  /\ NoGame \notin Games
  /\ Jobs = GameJobs

VARIABLES
  m_CurrentGame, m_Games, m_Callables, m_ExitingNice, m_AllGamesFinished,
  bnets,         \* m_BNETs is not empty
  waited,        \* 60 seconds have passed since all games were finished
  main,          \* the part of CGHost::Update that the main thread is in
  target,        \* the game that a nice exit found in the lobby
  thread,        \* where the thread of each game is
  object,        \* how far the life of each game object is
  m_DoDelete, m_Exiting, m_Saving,
  started,       \* the games with m_GameLoading or m_GameLoaded set
  players,       \* the games with players
  saved          \* the games whose players and statistics are saved

exit  == <<m_ExitingNice, m_AllGamesFinished, waited, bnets, target>>
lists == <<m_CurrentGame, m_Games, m_Callables>>
flags == <<m_DoDelete, m_Exiting, m_Saving, started, players, saved>>
vars  == <<exit, lists, main, thread, object, flags, pool>>

Parts == {"games", "nice", "doDelete", "forget", "count", "sweep"}
Ends == {"exited", "crashed"}
Places == {"none", "loop", "update", "check", "true", "end", "self", "mark", "gone"}

Init ==
  /\ m_CurrentGame = NoGame /\ m_Games = {} /\ m_Callables = {}
  /\ m_ExitingNice = FALSE /\ m_AllGamesFinished = FALSE /\ waited = FALSE
  /\ bnets = TRUE
  /\ main = "games" /\ target = NoGame
  /\ thread = [g \in Games |-> "none"]
  /\ object = [g \in Games |-> "none"]
  /\ m_DoDelete = [g \in Games |-> 0]
  /\ m_Exiting = {} /\ m_Saving = {} /\ started = {} /\ players = {} /\ saved = {}
  /\ PoolInit

----------------------------------------------------------------------------

\* The main thread is in one part of Update and goes on with another.
Main(part, next) == main = part /\ main' = next

\* Once the main thread has ended, so has everything.
Running == main \in Parts

\* The games that the main thread holds.
Held == m_Games \cup ({m_CurrentGame} \ {NoGame})

\* The games whose destructor runs.  The main thread holds m_GamesMutex until it has
\* returned from those that it runs; from when it looks at the results until the jobs are
\* left a destructor holds m_CallablesMutex.
Dying == {g \in Games : object[g] \in {"dying", "dead"}}
GamesMutexIsFree == \A g \in Dying : thread[g] = "self"
CallablesMutexIsFree == \A g \in Games : object[g] # "dead"

readyEarly(g) == m_DoDelete[g] >= 2  \* Mutant: also while the thread saves the replay.
readyOnRequest(g) == m_DoDelete[g] = 1  \* Mutant: only after doDelete.

\* A game is ready to be deleted when its thread has left it.
readyDelete(g) == m_DoDelete[g] = 2

----------------------------------------------------------------------------
(* The destructors, of the game by the main thread or by the thread of the game. *)

\* Mutant: it is passed on without a look whether there is one.
Unfinished1(g) == {IF Add(g) \in Live THEN Add(g) ELSE NoConn}

\* A m_CallableGameAdd that was not ready when the destructor looked.
Unfinished(g) == {Add(g)} \cap Live

\* When the game is added to the database its players and statistics are saved with it.
UseResult(g) ==
  /\ object[g] = "dying"
  /\ CallablesMutexIsFree
  /\ object' = [object EXCEPT ![g] = "dead"]
  /\ IF stage[Add(g)] = "ready"
       THEN /\ Recover(Add(g))
            /\ saved' = IF outcome[Add(g)] = "result" THEN saved \cup {g} ELSE saved
       ELSE UNCHANGED <<pool, saved>>
  /\ UNCHANGED <<exit, lists, main, thread, m_DoDelete, m_Exiting, m_Saving, started, players>>

\* The jobs for what is left to save, and one that has not finished, go to m_Callables.
LeaveJobs(g) ==
  /\ object[g] = "dead"
  /\ object' = [object EXCEPT ![g] = "gone"]
  /\ Threaded(Rest(g))
  /\ m_Callables' = m_Callables \cup {Rest(g)} \cup Unfinished(g)
  /\ UNCHANGED <<exit, main, flags>>

\* The main thread forgets the game that it has deleted.
Deleted(g) ==
  /\ LeaveJobs(g)
  /\ thread[g] = "gone"
  /\ m_Games' = m_Games \ {g}
  /\ m_CurrentGame' = IF m_CurrentGame = g THEN NoGame ELSE m_CurrentGame
  /\ UNCHANGED thread

\* After "delete this" the thread ends.
DeletedItself(g) ==
  /\ thread[g] = "self"
  /\ LeaveJobs(g)
  /\ thread' = [thread EXCEPT ![g] = "gone"]
  /\ UNCHANGED <<m_Games, m_CurrentGame>>

----------------------------------------------------------------------------
(* The main thread.                                                           *)

\* It deletes the games that are ready.
DeleteGame(g) ==
  /\ main = "games"
  /\ GamesMutexIsFree
  /\ g \in Held
  /\ object[g] = "alive"
  /\ readyDelete(g)
  /\ object' = [object EXCEPT ![g] = "dying"]
  /\ UNCHANGED <<exit, lists, main, thread, flags, pool>>

\* To look at a game that has deleted itself is undefined: the main thread crashes, or
\* it finds no reason to delete the game and keeps it.
Crash ==
  /\ main = "games"
  /\ GamesMutexIsFree
  /\ \E g \in Held : object[g] = "gone"
  /\ main' = "crashed"
  /\ UNCHANGED <<exit, lists, thread, object, flags, pool>>

GamesDone ==
  /\ Main("games", IF m_ExitingNice THEN "nice" ELSE "sweep")
  /\ \A g \in Held : object[g] \in {"alive", "gone"} /\ (object[g] = "alive" => ~readyDelete(g))
  /\ UNCHANGED <<exit, lists, thread, object, flags, pool>>

\* On a nice exit the connections to battle.net are deleted.  Whether there is a current
\* game is looked up without m_GamesMutex.
ExitNicely ==
  /\ main = "nice"
  /\ bnets' = FALSE
  /\ target' = m_CurrentGame
  /\ main' = IF m_CurrentGame = NoGame THEN "count" ELSE "doDelete"
  /\ UNCHANGED <<m_ExitingNice, m_AllGamesFinished, waited, lists, thread, object, flags, pool>>

\* doDelete is called on the current game.  When the game has started since, the pointer
\* is NULL, or it is still in a register.
DoDelete ==
  /\ main = "doDelete"
  /\ \/ /\ main' = "forget"
        /\ m_DoDelete' = [m_DoDelete EXCEPT ![target] = 1]
     \/ /\ m_CurrentGame = NoGame
        /\ main' = "crashed"
        /\ UNCHANGED m_DoDelete
  /\ UNCHANGED <<exit, lists, thread, object, m_Exiting, m_Saving, started, players, saved, pool>>

ForgetCurrent ==
  /\ Main("forget", "count")
  /\ m_CurrentGame' = NoGame
  /\ target' = NoGame
  /\ UNCHANGED <<m_Games, m_Callables, m_ExitingNice, m_AllGamesFinished, waited, bnets, thread, object,
                 flags, pool>>

\* All threads are finished, or have been waited for long enough.
JobsDone == m_Callables = {} \/ waited

\* When all games are finished it waits for the jobs, and exits.  What the last Update
\* does after that is left out.
CountGames ==
  /\ main = "count"
  /\ m_AllGamesFinished' = (m_AllGamesFinished \/ m_Games = {})
  /\ main' = IF m_Games = {} /\ m_AllGamesFinished /\ JobsDone THEN "exited" ELSE "sweep"
  /\ UNCHANGED <<m_ExitingNice, waited, bnets, target, lists, thread, object, flags, pool>>

SixtySeconds ==
  /\ Running
  /\ m_AllGamesFinished
  /\ ~waited
  /\ waited' = TRUE
  /\ UNCHANGED <<m_ExitingNice, m_AllGamesFinished, bnets, target, lists, main, thread, object, flags, pool>>

\* Under m_CallablesMutex, the jobs in m_Callables that are ready are given back.
SweepJob(j) ==
  /\ main = "sweep"
  /\ CallablesMutexIsFree
  /\ j \in m_Callables
  /\ Recover(j)
  /\ m_Callables' = m_Callables \ {j}
  /\ UNCHANGED <<exit, m_CurrentGame, m_Games, main, thread, object, flags>>

\* Then the commands of battle.net and the autohost have their turn, and Update ends.
AfterSweep ==
  /\ Main("sweep", "games")
  /\ CallablesMutexIsFree
  /\ \A j \in m_Callables : stage[j] # "ready"

\* One game in the lobby, and at most MaxGames others.
MayCreate == m_CurrentGame = NoGame /\ Cardinality(m_Games) < MaxGames

\* CreateGame, by a command or by the autohost, which looks at the same things first.
CreateGame(g) ==
  /\ AfterSweep
  /\ bnets
  /\ thread[g] = "none"
  /\ MayCreate
  /\ m_CurrentGame' = g
  /\ object' = [object EXCEPT ![g] = "alive"]
  /\ thread' = [thread EXCEPT ![g] = "loop"]
  /\ m_Exiting' \in {m_Exiting, m_Exiting \cup {g}}  \* it exits when it cannot listen
  /\ UNCHANGED <<exit, m_Games, m_Callables, m_DoDelete, m_Saving, started, players, saved, pool>>

\* !unhost, or a refresh that failed when there are no players.
CloseLobby ==
  /\ AfterSweep
  /\ bnets
  /\ m_CurrentGame # NoGame
  /\ m_Exiting' = m_Exiting \cup {m_CurrentGame}
  /\ UNCHANGED <<exit, lists, thread, object, m_DoDelete, m_Saving, started, players, saved, pool>>

NothingToDo ==
  /\ AfterSweep
  /\ UNCHANGED <<exit, lists, thread, object, flags, pool>>

\* The signal handler.
SignalCatcher ==
  /\ Running
  /\ ~m_ExitingNice
  /\ m_ExitingNice' = TRUE
  /\ UNCHANGED <<m_AllGamesFinished, waited, bnets, target, lists, main, thread, object, flags, pool>>

MainStep ==
  \/ \E g \in Games : DeleteGame(g) \/ (thread[g] = "gone" /\ UseResult(g)) \/ Deleted(g)
  \/ Crash \/ GamesDone \/ ExitNicely \/ DoDelete \/ ForgetCurrent \/ CountGames
  \/ \E j \in Jobs : SweepJob(j)
  \/ \E g \in Games : CreateGame(g)
  \/ CloseLobby \/ NothingToDo

----------------------------------------------------------------------------
(* The thread of a game.                                                      *)

\* It goes from one place to another while there is a process.
Thread(g, place, next) ==
  /\ Running
  /\ thread[g] = place
  /\ thread' = [thread EXCEPT ![g] = next]

Loop(g) ==
  /\ Thread(g, "loop", IF m_DoDelete[g] = 0 THEN "update" ELSE "end")
  /\ UNCHANGED <<exit, lists, main, object, flags, pool>>

\* Players join the lobby and leave whenever they like.
Players(g) ==
  /\ Thread(g, "update", "check")
  /\ players' \in {players, players \ {g}} \cup {players \cup {h} : h \in {g} \ started}
  /\ UNCHANGED <<exit, lists, main, object, m_DoDelete, m_Exiting, m_Saving, started, saved, pool>>

\* The lobby is closed after a time, or when its socket fails.
LobbyEnds(g) ==
  /\ Thread(g, "update", "true")
  /\ g \notin started
  /\ UNCHANGED <<exit, lists, main, object, flags, pool>>

\* The current game is none, whichever it was.
CurrentAfter(g) == NoGame

\* EventGameStarted: the game moves to m_Games, under m_GamesMutex.
EventGameStarted(g) ==
  /\ Thread(g, "update", "check")
  /\ g \in players \ started
  /\ GamesMutexIsFree
  /\ started' = started \cup {g}
  /\ m_CurrentGame' = CurrentAfter(g)
  /\ m_Games' = m_Games \cup {g}
  /\ UNCHANGED <<exit, m_Callables, main, object, m_DoDelete, m_Exiting, m_Saving, players, saved, pool>>

\* All players have left the game.
IsOver(g) == g \in started \ players

SaveGameData(g) ==
  /\ Thread(g, "check", IF g \in m_Exiting THEN "true" ELSE "loop")
  /\ IsOver(g)
  /\ g \notin m_Saving
  /\ Threaded(Add(g))
  /\ m_Saving' = m_Saving \cup {g}
  /\ UNCHANGED <<exit, lists, main, object, m_DoDelete, m_Exiting, started, players, saved>>

\* Mutant: saved as soon as the job has been started.
IsGameDataSaved0(g) == stage[Add(g)] # "none"

IsGameDataSaved(g) == stage[Add(g)] = "ready"

\* What Update returns when nothing is to be saved, or all is.
EndOfUpdate(g) ==
  /\ Thread(g, "check", IF g \in m_Exiting \/ (IsOver(g) /\ IsGameDataSaved(g)) THEN "true" ELSE "loop")
  /\ IsOver(g) => g \in m_Saving
  /\ UNCHANGED <<exit, lists, main, object, flags, pool>>

\* The thread ends when Update returns true, whatever m_DoDelete was.
UpdateTrue(g) ==
  /\ Thread(g, "true", "end")
  /\ m_DoDelete' = [m_DoDelete EXCEPT ![g] = 3]
  /\ UNCHANGED <<exit, lists, main, object, m_Exiting, m_Saving, started, players, saved, pool>>

\* After it has saved the replay it looks whether it must delete the game itself.
EndOfLoop(g) ==
  /\ Thread(g, "end", IF m_DoDelete[g] = 1 THEN "self" ELSE "mark")
  /\ object' = [object EXCEPT ![g] = IF m_DoDelete[g] = 1 THEN "dying" ELSE @]
  /\ UNCHANGED <<exit, lists, main, flags, pool>>

MarkReady(g) ==
  /\ Thread(g, "mark", "gone")
  /\ m_DoDelete' = [m_DoDelete EXCEPT ![g] = 2]
  /\ UNCHANGED <<exit, lists, main, object, m_Exiting, m_Saving, started, players, saved, pool>>

ThreadStep(g) ==
  \/ Loop(g) \/ Players(g) \/ LobbyEnds(g) \/ EventGameStarted(g)
  \/ SaveGameData(g) \/ EndOfUpdate(g) \/ UpdateTrue(g) \/ EndOfLoop(g) \/ MarkReady(g)
  \/ (thread[g] = "self" /\ Running /\ UseResult(g))
  \/ (Running /\ DeletedItself(g))

JobStep(j) == Running /\ PoolStep(j) /\ UNCHANGED <<exit, lists, main, thread, object, flags>>

Next ==
  \/ MainStep \/ SixtySeconds \/ SignalCatcher
  \/ \E g \in Games : ThreadStep(g)
  \/ \E j \in Jobs : JobStep(j)

Spec == Init /\ [][Next]_vars

\* Every thread gets to run, and the database answers every query, be it with an error.
FairSpec ==
  /\ Spec
  /\ WF_vars(MainStep)
  /\ \A g \in Games : WF_vars(ThreadStep(g))
  /\ WF_vars(\E j \in Jobs : JobStep(j))

----------------------------------------------------------------------------

Raced(g) == g \in m_Games /\ m_DoDelete[g] = 1

TypeOK ==
  /\ m_CurrentGame \in Games \cup {NoGame} /\ target \in Games \cup {NoGame}
  /\ m_Games \subseteq Games /\ m_Callables \subseteq Jobs
  /\ m_ExitingNice \in BOOLEAN /\ m_AllGamesFinished \in BOOLEAN /\ waited \in BOOLEAN
  /\ bnets \in BOOLEAN
  /\ main \in Parts \cup Ends
  /\ thread \in [Games -> Places]
  /\ object \in [Games -> {"none", "alive", "dying", "dead", "gone"}]
  /\ m_DoDelete \in [Games -> 0..3]
  /\ m_Exiting \subseteq Games /\ m_Saving \subseteq Games
  /\ started \subseteq Games /\ players \subseteq Games /\ saved \subseteq Games
  /\ PoolTypeOK

\* The thread of a game only ever runs on a game that has not been deleted, also on a
\* nice exit: the main thread waits for the thread to be gone (loop, readyDelete).
ThreadsRunOnGames ==
  \A g \in Games : thread[g] \notin {"none", "self", "gone"} => object[g] = "alive"

\* Until a nice exit, every game is in the lobby or in m_Games, never in both and never
\* in neither, from its creation to its deletion, whichever thread moves it.
HeldOnce ==
  ~m_ExitingNice =>
    /\ Held = {g \in Games : object[g] \notin {"none", "gone"}}
    /\ m_CurrentGame \notin m_Games

\* At most MaxGames games are in progress, although the limit is tested when a game is
\* created and not when it starts (CreateGame, EventGameStarted).
GamesBounded == ~m_ExitingNice => Cardinality(m_Games) <= MaxGames

\* All of it, although three threads move, delete and count the games.
GamesAreHeld == ThreadsRunOnGames /\ HeldOnce /\ GamesBounded

\* No job is leaked (ghostdb.h): a job that is not given back belongs to a game that has
\* not been deleted, or to m_Callables; and m_Callables has no job twice given back.
NoJobLeaked ==
  /\ \A g \in Games : \A j \in {Add(g), Rest(g)} :
       j \in Live => j \in m_Callables \/ object[g] \in {"alive", "dying", "dead"}
  /\ m_Callables \subseteq Live

\* The players of a game that was added to the database are saved, unless the game was
\* told to exit before its players left.
ResultsAreSaved ==
  \A g \in Games : object[g] = "gone" /\ outcome[Add(g)] = "result" =>
    g \in saved \cup m_Exiting \/ Raced(g)

\* When a nice exit ends before the time is up, every game that was in progress has been
\* deleted and its jobs have been given back.
NiceExitLosesNothing ==
  main = "exited" /\ ~waited =>
    \A g \in started : object[g] = "gone" /\ stage[Rest(g)] = "recovered"

\* Of the jobs of a game none is lost, whether the game is deleted, told to exit, or the
\* bot exits while they run.
JobsAreKept == NoJobLeaked /\ ResultsAreSaved /\ NiceExitLosesNothing

\* A game that all players have left is deleted, and makes room for another.
FinishedIsDeleted ==
  \A g \in Games : g \in m_Games \ players ~> (object[g] = "gone" \/ m_ExitingNice \/ ~Running)

\* A nice exit ends, once the games in progress have ended, unless it raced with the
\* start of a game.
NiceExitEnds ==
  m_ExitingNice ~> (~Running \/ \E g \in m_Games : g \in players \/ Raced(g))

\* Neither a finished game nor a nice exit waits for ever for a job, a thread or a flag.
GamesEnd == FinishedIsDeleted /\ NiceExitEnds

=============================================================================
