----------------------------- MODULE LagScreen -----------------------------
(***************************************************************************)
(* The running game (CBaseGame once m_GameLoaded is set): the bot sends an  *)
(* update every m_Latency milliseconds and every client answers each of     *)
(* them.  When somebody is more than m_SyncLimit answers behind the updates *)
(* stop and all clients show a lag screen until the laggers have caught up, *)
(* left, or been dropped: after a time, by a vote, by an administrator.     *)
(*                                                                          *)
(* A client that is gone without notice, or that GProxy++ has yet to        *)
(* reconnect, is one that does not answer.  Left out: what the updates      *)
(* hold, the chat, the replay, the checksums, and the resets of the lag     *)
(* screen beyond what they change on it.                                    *)
(***************************************************************************)
EXTENDS Integers, FiniteSets

CONSTANTS
  NumPlayers,   \* how many players the game starts with
  SyncLimits,   \* the values of m_SyncLimit
  Latencies,    \* the values of m_Latency, in units of time
  TickBits,     \* the width of the tick counter (32 in the code)
  MayNoLag,     \* the players who use !nolag
  MaxBehind     \* bound: the answers a player can be behind; it stands for more

ASSUME LagScreenAssumption ==
  /\ NumPlayers \in Nat \ {0}
  /\ SyncLimits \subseteq Nat
  /\ Latencies \subseteq Nat \ {0}
  /\ TickBits \in Nat
  /\ MayNoLag \subseteq 1..NumPlayers
  /\ MaxBehind \in Nat

VARIABLES
  syncLimit,    \* m_SyncLimit
  present,      \* m_Players, in this order
  deleteMe,     \* the players whose m_DeleteMe is set
  behind,       \* m_SyncCounter less the m_SyncCounter of the player
  noLag,        \* the players whose m_NoLag is set
  lagging,      \* the players whose m_Lagging is set
  lagScreen,    \* m_Lagging of the game
  screen,       \* who is on the lag screen that the clients show
  vote,         \* m_DropVote: "now" when cast while this screen was up, or "before"
  latency,      \* m_Latency
  lateBy,       \* m_LastActionLateBy
  phase,        \* the part of CBaseGame::Update that is running
  turn,         \* in phase "players", the players up to this one have been updated
  meddled,      \* history: !nolag or !synclimit was used
  saves         \* history: how many autosaves were made as a player was deleted

settings == <<syncLimit, meddled, saves>>
lag      == <<lagging, lagScreen, screen>>
timer    == <<latency, lateBy>>
loop     == <<phase, turn>>

vars == <<settings, present, deleteMe, behind, noLag, lag, vote, timer, loop>>

----------------------------------------------------------------------------

Players == 1..NumPlayers

\* The players are updated in the order of m_Players.
Turn(p) ==
  /\ phase = "players"
  /\ p \in present
  /\ turn < p
  /\ \A q \in present : turn < q => p <= q

\* How long after an update the next one is due, in unsigned arithmetic.
Wait == (latency - lateBy) % 2^TickBits

\* No game lasts for half of the range of the tick counter.
ComesDue == Wait < 2^(TickBits - 1)

\* SendAllActions increments m_SyncCounter and notes how late it was, at most
\* m_Latency.
NextUpdateSent ==
  /\ behind' = [p \in Players |->
                  IF p \in present' THEN IF behind[p] < MaxBehind THEN behind[p] + 1 ELSE MaxBehind
                  ELSE 0]
  /\ lateBy' \in 0..latency
  /\ UNCHANGED latency

NothingSent ==
  /\ behind' = [p \in Players |-> IF p \in present' THEN behind[p] ELSE 0]
  /\ UNCHANGED timer

\* The votes, relabelled when the screen they were cast for is gone.
Outdated(votes) == [p \in Players |-> IF votes[p] = "now" THEN "before" ELSE votes[p]]

TypeOK ==
  /\ syncLimit \in SyncLimits
  /\ present \subseteq Players
  /\ deleteMe \subseteq present
  /\ behind \in [Players -> 0..MaxBehind]
  /\ noLag \subseteq Players
  /\ lagging \subseteq present
  /\ lagScreen \in BOOLEAN
  /\ screen \subseteq Players
  /\ vote \in [Players -> {"none", "now", "before"}]
  /\ latency \in Latencies
  /\ lateBy \in Nat
  /\ phase \in {"players", "lag", "paused", "actions", "over"}
  /\ turn \in 0..NumPlayers
  /\ meddled \in BOOLEAN
  /\ saves \in Nat

\* EventGameLoaded has happened.
Init ==
  /\ syncLimit \in SyncLimits
  /\ present = Players
  /\ deleteMe = {}
  /\ behind = [p \in Players |-> 0]
  /\ noLag = {} /\ lagging = {} /\ screen = {}
  /\ lagScreen = FALSE
  /\ vote = [p \in Players |-> "none"]
  /\ latency \in Latencies
  /\ lateBy = 0
  /\ phase = "lag" /\ turn = 0
  /\ meddled = FALSE /\ saves = 0

----------------------------------------------------------------------------
(* What the players do in their turns.                                      *)

\* Mutant: an answer is counted twice.
KeepAliveTwice(p) ==
  /\ Turn(p)
  /\ behind[p] > 0
  /\ behind' = [behind EXCEPT ![p] = @ - 2]
  /\ UNCHANGED <<settings, present, deleteMe, noLag, lag, vote, timer, loop>>

\* The client answers an update (W3GS_OUTGOING_KEEPALIVE).
KeepAlive(p) ==
  /\ Turn(p)
  /\ behind[p] > 0
  /\ behind' = [behind EXCEPT ![p] = @ - 1]
  /\ UNCHANGED <<settings, present, deleteMe, noLag, lag, vote, timer, loop>>

\* !nolag: the player does not want to be waited for.
NoLag(p) ==
  /\ Turn(p)
  /\ p \in MayNoLag
  /\ noLag' = IF p \in noLag THEN noLag \ {p} ELSE noLag \cup {p}
  /\ meddled' = TRUE
  /\ UNCHANGED <<syncLimit, saves, present, deleteMe, behind, lag, vote, timer, loop>>

\* !synclimit
SetSyncLimit(limit) ==
  /\ \E p \in Players : Turn(p)
  /\ limit # syncLimit
  /\ syncLimit' = limit
  /\ meddled' = TRUE
  /\ UNCHANGED <<saves, noLag, present, deleteMe, behind, lag, vote, timer, loop>>

\* !latency
SetLatency(ticks) ==
  /\ \E p \in Players : Turn(p)
  /\ ticks # latency
  /\ latency' = ticks
  /\ UNCHANGED <<settings, present, deleteMe, behind, noLag, lag, vote, lateBy, loop>>

\* The votes that EventPlayerDropRequest counts.
VotesToDrop(votes) == Cardinality({p \in present : votes[p] # "none"})

\* W3GS_DROPREQ: at least half of the players, laggers included, drop them.
DropRequest(p) ==
  /\ Turn(p)
  /\ vote[p] = "none"
  /\ vote' = [vote EXCEPT ![p] = IF lagScreen THEN "now" ELSE "before"]
  /\ deleteMe' = IF lagScreen /\ VotesToDrop(vote') * 100 > Cardinality(present) * 49
                 THEN deleteMe \cup lagging ELSE deleteMe
  /\ UNCHANGED <<settings, present, behind, noLag, lag, timer, loop>>

\* !drop (StopLaggers), !end (StopPlayers), and the end of the gameover timer.
Drop(players) ==
  /\ \E p \in Players : Turn(p)
  /\ players \in {lagging, present}
  /\ deleteMe' = deleteMe \cup players
  /\ UNCHANGED <<settings, present, behind, noLag, lag, vote, timer, loop>>

\* The player leaves, times out, breaks the protocol, or is kicked.
Departs(p) ==
  /\ phase = "players"
  /\ p \in present
  /\ deleteMe' = deleteMe \cup {p}
  /\ UNCHANGED <<settings, present, behind, noLag, lag, vote, timer, loop>>

\* STOP_LAG for a lagger who leaves.
ShownWithout(p) == IF p \in lagging THEN screen \ {p} ELSE screen

\* EventPlayerDeleted and the erase from m_Players.  An autosave sends an
\* update at once, also while the lag screen is up.
DeletePlayer(p, autoSave) ==
  /\ Turn(p)
  /\ p \in deleteMe
  /\ present' = present \ {p}
  /\ deleteMe' = deleteMe \ {p}
  /\ noLag' = noLag \ {p}
  /\ vote' = [vote EXCEPT ![p] = "none"]
  /\ lagging' = lagging \ {p}
  /\ screen' = ShownWithout(p)
  /\ IF autoSave THEN NextUpdateSent ELSE NothingSent
  /\ saves' = IF autoSave THEN saves + 1 ELSE saves
  /\ UNCHANGED <<syncLimit, meddled, lagScreen, loop>>

KeepPlayer(p) ==
  /\ Turn(p)
  /\ p \notin deleteMe
  /\ turn' = p
  /\ UNCHANGED <<settings, present, deleteMe, behind, noLag, lag, vote, timer, phase>>

PlayersDone ==
  /\ phase = "players"
  /\ \A p \in present : p <= turn
  /\ phase' = "lag"
  /\ turn' = 0
  /\ UNCHANGED <<settings, present, deleteMe, behind, noLag, lag, vote, timer>>

----------------------------------------------------------------------------
(* The lag screen.                                                          *)

\* Mutant: off by one.
SlowLate == {p \in present : behind[p] > syncLimit + 1 /\ p \notin noLag}

\* The players who are too far behind.
Slow == {p \in present : behind[p] > syncLimit /\ p \notin noLag}

\* Everyone's drop vote is reset.
ResetVotes == [p \in Players |-> "none"]

\* The lag screen starts for those, but for the ones who have lagged for more
\* than five minutes in total: they are dropped.
StartLag(tooLong) ==
  /\ phase = "lag"
  /\ ~lagScreen
  /\ tooLong \subseteq Slow
  /\ tooLong # Slow
  /\ deleteMe' = deleteMe \cup tooLong
  /\ lagging' = lagging \cup (Slow \ tooLong)
  /\ lagScreen' = TRUE
  /\ screen' = screen \cup lagging'
  /\ vote' = ResetVotes
  /\ phase' = "paused"
  /\ UNCHANGED <<settings, present, behind, noLag, timer, turn>>

\* Nobody is too far behind but those.
NobodyLags ==
  /\ phase = "lag"
  /\ ~lagScreen
  /\ deleteMe' = deleteMe \cup Slow
  /\ phase' = "actions"
  /\ UNCHANGED <<settings, present, behind, noLag, lag, vote, timer, turn>>

\* Mutant: nobody is dropped.
WaitedForEver(timeout) == {}

\* Whom StopLaggers drops when the lag screen has been up for too long.
WaitedFor(timeout) == IF timeout THEN lagging ELSE {}

\* Mutant: who is about to be deleted counts as well.
SomebodyLagsOrGoes(laggers) == laggers \cup deleteMe # {}

\* Mutant: only the loss of all players ends the lag screen.
SomebodyPlays(laggers) == present # {}

\* Whether the lag screen stays up.
SomebodyLags(laggers) == laggers # {}

\* While the lag screen is up: after 60 seconds, more with GProxy++, the
\* laggers are dropped; who has caught up is taken off; and so is the screen.
Lagging(timeout, reset) ==
  LET caughtUp == {p \in lagging : behind[p] < syncLimit \div 2}
  IN /\ phase = "lag"
     /\ lagScreen
     /\ deleteMe' = deleteMe \cup WaitedFor(timeout)
     /\ screen' = (IF reset THEN (screen \ lagging) \cup lagging ELSE screen) \ caughtUp
     /\ lagging' = lagging \ caughtUp
     /\ lagScreen' = SomebodyLags(lagging')
     /\ vote' = IF lagScreen' THEN vote ELSE Outdated(vote)
     /\ phase' = "paused"
     /\ UNCHANGED <<settings, present, behind, noLag, timer, turn>>

----------------------------------------------------------------------------
(* The updates.                                                             *)

\* Mutant: the lag screen does not stop the updates.
MustSendAlways == Wait = 0

\* m_LastActionSentTicks was reset in this Update: nothing is due but what is
\* due at once.
MustSend == ~lagScreen /\ Wait = 0

MaySend == IF phase = "paused" THEN MustSend ELSE ~lagScreen /\ ComesDue

\* With no players left the game is over.
UpdateDone == phase' = IF present = {} THEN "over" ELSE "players"

SendAllActions ==
  /\ phase \in {"paused", "actions"}
  /\ MaySend
  /\ UNCHANGED present
  /\ NextUpdateSent
  /\ UpdateDone
  /\ UNCHANGED <<settings, deleteMe, noLag, lag, vote, turn>>

NotYet ==
  /\ phase \in {"paused", "actions"}
  /\ ~MustSend
  /\ UpdateDone
  /\ UNCHANGED <<settings, present, deleteMe, behind, noLag, lag, vote, timer, turn>>

Next ==
  \/ \E p \in Players :
       \/ KeepAlive(p) \/ NoLag(p) \/ DropRequest(p)
       \/ Departs(p) \/ KeepPlayer(p)
       \/ \E autoSave \in BOOLEAN : DeletePlayer(p, autoSave)
  \/ \E limit \in SyncLimits : SetSyncLimit(limit)
  \/ \E ticks \in Latencies : SetLatency(ticks)
  \/ \E players \in {lagging, present} : Drop(players)
  \/ PlayersDone
  \/ (\E tooLong \in SUBSET Players : StartLag(tooLong))
  \/ NobodyLags
  \/ \E timeout, reset \in BOOLEAN : Lagging(timeout, reset)
  \/ SendAllActions \/ NotYet

\* The thread runs and time passes: the lag screen times out, and an update
\* that comes due is sent, as the lag screen cannot start again and again
\* without updates in between.
Fairness ==
  /\ WF_vars(PlayersDone)
  /\ \A p \in Players : WF_vars(KeepPlayer(p) \/ \E autoSave \in BOOLEAN : DeletePlayer(p, autoSave))
  /\ WF_vars(NobodyLags \/ \E tooLong \in SUBSET Players : StartLag(tooLong))
  /\ WF_vars(\E reset \in BOOLEAN : Lagging(FALSE, reset) \/ Lagging(TRUE, reset))
  /\ SF_vars(\E reset \in BOOLEAN : Lagging(TRUE, reset))
  /\ WF_vars(SendAllActions \/ NotYet)
  /\ SF_vars(SendAllActions)

Spec == Init /\ [][Next]_vars

FairSpec == Spec /\ Fairness

----------------------------------------------------------------------------
(* Properties.                                                              *)

\* The clients show exactly the laggers, from the first START_LAG to the last
\* STOP_LAG, whoever catches up, leaves or is dropped meanwhile.
ScreenIsRight == screen = lagging

\* When the bot decides whether to send an update it knows whether somebody is
\* lagging: m_Lagging is not left set, or cleared too early, by a departure.
LagFlagIsRight ==
  phase \in {"paused", "actions"} => (lagScreen <=> lagging # {})

\* The game does not run away from a player who does not answer: it stops one
\* update beyond m_SyncLimit, unless it was told otherwise, and every autosave,
\* which sends its update also while the lag screen is up, adds just that one.
NobodyIsLeftBehind ==
  ~meddled => \A p \in present \ deleteMe : behind[p] <= syncLimit + 1 + saves

\* A vote to drop the laggers never counts against the laggers of another time,
\* although it may arrive after the lag screen it was meant for is gone.
VotesAreFresh == lagScreen => \A p \in present : vote[p] # "before"

\* What the clients show, what the bot believes and what the players have voted on are the
\* same lag screen.
LagScreenIsRight == ScreenIsRight /\ LagFlagIsRight /\ VotesAreFresh

\* The clients process no update behind a lag screen, and are sent none: "we
\* want the game to stop running while the lag screen is up".  The one update of
\* an autosave, made as a player is deleted, is the exception.
GameStops ==
  [][\A p \in present' : behind'[p] > behind[p] =>
       \/ lagging = {}
       \/ saves' = saves + 1 /\ present' # present /\ behind'[p] = behind[p] + 1]_vars

\* "send actions every m_Latency milliseconds": the next update is never
\* further away than that.
UpdatesAreTimely == Wait <= latency

\* The game goes on until everybody has left, unless !latency has stopped the
\* timer (see UpdatesAreTimely).
GameGoesOn ==
  \/ []<><<SendAllActions>>_vars
  \/ <>(phase = "over")
  \/ <>~UpdatesAreTimely

\* A player who stops answering is removed, unless it used !nolag.
GoneAreRemoved ==
  \A p \in Players :
    \/ <>(p \notin present)
    \/ []<><<KeepAlive(p)>>_vars
    \/ []<>(p \in noLag)
    \/ <>~UpdatesAreTimely

\* The bot waits for answers and the clients for updates, and yet they never wait for each
\* other for good: neither for somebody who has gone nor for a lag screen nobody is on.
NobodyWaitsForEver == GameGoesOn /\ GoneAreRemoved

=============================================================================
