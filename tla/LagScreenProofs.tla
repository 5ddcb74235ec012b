--------------------------- MODULE LagScreenProofs ---------------------------
(***************************************************************************)
(* For every number of players, every m_SyncLimit and every m_Latency: the  *)
(* clients show exactly the laggers, the game knows whether somebody lags,  *)
(* it does not run away from anybody, and votes count for one lag screen.   *)
(***************************************************************************)
EXTENDS LagScreen, TLAPS

-----------------------------------------------------------------------------
(* The inductive invariant.                                                 *)

\* Without a lag screen nobody lags; the converse is right only once the
\* players have been looked at, as laggers leave before.
NobodyLagsUnseen == ~lagScreen => lagging = {}

\* Who is not waited for is not too far behind, from the time the lag screen
\* was considered until an update is sent.
Near ==
    ~meddled =>
      /\ noLag = {}
      /\ NobodyIsLeftBehind
      /\ lagScreen \/ phase \in {"paused", "actions"} =>
           \A p \in present \ (deleteMe \cup lagging) : behind[p] <= syncLimit + saves

Waiting == ScreenIsRight /\ NobodyLagsUnseen /\ LagFlagIsRight /\ VotesAreFresh /\ Near

IInv == TypeOK /\ Waiting

-----------------------------------------------------------------------------

LEMMA InitIInv == Init => IInv
<1>. SUFFICES ASSUME Init PROVE IInv
  OBVIOUS
<1>. USE LagScreenAssumption DEF Init
<1>1. TypeOK
  <2>1. behind \in [Players -> 0..MaxBehind]
    OBVIOUS
  <2>2. vote \in [Players -> {"none", "now", "before"}]
    OBVIOUS
  <2>3. lateBy \in Nat /\ turn \in 0..NumPlayers
    OBVIOUS
  <2>. QED  BY <2>1, <2>2, <2>3 DEF TypeOK
<1>2. ScreenIsRight /\ NobodyLagsUnseen /\ LagFlagIsRight /\ VotesAreFresh
  BY DEF ScreenIsRight, NobodyLagsUnseen, LagFlagIsRight, VotesAreFresh
<1>3. Near
  <2>1. syncLimit \in Nat
    OBVIOUS
  <2>2. \A p \in present : behind[p] = 0
    OBVIOUS
  <2>. QED  BY <2>1, <2>2 DEF Near, NobodyIsLeftBehind
<1>. QED  BY <1>1, <1>2, <1>3 DEF IInv, Waiting

\* An update puts everybody at most one answer further behind.
LEMMA UpdateTypes ==
    ASSUME TypeOK, present' \subseteq present, NextUpdateSent
    PROVE  /\ behind' \in [Players -> 0..MaxBehind]
           /\ lateBy' \in Nat /\ latency' = latency
           /\ \A p \in Players : behind'[p] <= behind[p] + 1
<1>. USE LagScreenAssumption
<1>1. \A p \in Players : behind[p] \in 0..MaxBehind
  BY DEF TypeOK
<1>2. ASSUME NEW p \in Players
      PROVE  /\ behind'[p] \in 0..MaxBehind
             /\ behind'[p] <= behind[p] + 1
  BY <1>1 DEF NextUpdateSent
<1>3. behind' \in [Players -> 0..MaxBehind]
  BY <1>2 DEF NextUpdateSent
<1>4. lateBy' \in Nat
  BY DEF NextUpdateSent, TypeOK
<1>. QED  BY <1>2, <1>3, <1>4 DEF NextUpdateSent

-----------------------------------------------------------------------------
(* The types.                                                               *)

LEMMA TypeStep == TypeOK /\ [Next]_vars => TypeOK'
<1>. SUFFICES ASSUME TypeOK, [Next]_vars PROVE TypeOK'
  OBVIOUS
<1>. USE LagScreenAssumption DEF settings, lag, timer, loop
<1>1. ASSUME NEW p \in Players, KeepAlive(p) PROVE TypeOK'
  <2>1. behind' \in [Players -> 0..MaxBehind]
    <3>1. behind[p] \in 0..MaxBehind /\ behind[p] > 0
      BY <1>1 DEF KeepAlive, TypeOK
    <3>2. behind[p] - 1 \in 0..MaxBehind
      BY <3>1
    <3>. QED  BY <1>1, <3>2 DEF KeepAlive, TypeOK
  <2>. QED  BY <1>1, <2>1 DEF KeepAlive, TypeOK
<1>2. ASSUME NEW p \in Players, NoLag(p) PROVE TypeOK'
  BY <1>2 DEF NoLag, TypeOK
<1>3. ASSUME NEW limit \in SyncLimits, SetSyncLimit(limit) PROVE TypeOK'
  BY <1>3 DEF SetSyncLimit, TypeOK
<1>4. ASSUME NEW ticks \in Latencies, SetLatency(ticks) PROVE TypeOK'
  BY <1>4 DEF SetLatency, TypeOK
<1>5. ASSUME NEW p \in Players, DropRequest(p) PROVE TypeOK'
  <2>1. vote' \in [Players -> {"none", "now", "before"}]
    BY <1>5 DEF DropRequest, TypeOK
  <2>2. deleteMe' \subseteq present
    <3>1. deleteMe' \in {deleteMe, deleteMe \cup lagging}
      BY <1>5 DEF DropRequest
    <3>. QED  BY <3>1 DEF TypeOK
  <2>3. UNCHANGED <<settings, present, behind, noLag, lag, timer, loop>>
    BY <1>5 DEF DropRequest
  <2>. QED  BY <2>1, <2>2, <2>3 DEF TypeOK
<1>6. ASSUME NEW players \in {lagging, present}, Drop(players) PROVE TypeOK'
  BY <1>6 DEF Drop, TypeOK
<1>7. ASSUME NEW p \in Players, Departs(p) PROVE TypeOK'
  BY <1>7 DEF Departs, TypeOK
<1>8. ASSUME NEW p \in Players, NEW autoSave \in BOOLEAN, DeletePlayer(p, autoSave)
      PROVE  TypeOK'
  <2>1. /\ behind' \in [Players -> 0..MaxBehind]
        /\ lateBy' \in Nat /\ latency' = latency
    <3>1. CASE autoSave
      BY <1>8, <3>1, UpdateTypes DEF DeletePlayer
    <3>2. CASE ~autoSave
      BY <1>8, <3>2 DEF DeletePlayer, NothingSent, TypeOK
    <3>. QED  BY <3>1, <3>2
  <2>2. vote' \in [Players -> {"none", "now", "before"}]
    BY <1>8 DEF DeletePlayer, TypeOK
  <2>3. screen' \subseteq Players
    BY <1>8 DEF DeletePlayer, ShownWithout, TypeOK
  <2>4. meddled' \in BOOLEAN
    BY <1>8 DEF DeletePlayer, TypeOK
  <2>. QED  BY <1>8, <2>1, <2>2, <2>3, <2>4 DEF DeletePlayer, TypeOK
<1>9. ASSUME NEW p \in Players, KeepPlayer(p) PROVE TypeOK'
  BY <1>9 DEF KeepPlayer, TypeOK, Players
<1>10. CASE PlayersDone
  BY <1>10 DEF PlayersDone, TypeOK
<1>11. ASSUME NEW tooLong \in SUBSET Players, StartLag(tooLong) PROVE TypeOK'
  BY <1>11 DEF StartLag, Slow, ResetVotes, TypeOK
<1>12. CASE NobodyLags
  BY <1>12 DEF NobodyLags, Slow, TypeOK
<1>13. ASSUME NEW timeout \in BOOLEAN, NEW reset \in BOOLEAN, Lagging(timeout, reset)
       PROVE  TypeOK'
  <2>1. vote' \in [Players -> {"none", "now", "before"}]
    BY <1>13 DEF Lagging, Outdated, TypeOK
  <2>2. deleteMe' \subseteq present /\ lagging' \subseteq present /\ screen' \subseteq Players
    BY <1>13 DEF Lagging, WaitedFor, TypeOK
  <2>3. lagScreen' \in BOOLEAN
    BY <1>13 DEF Lagging, SomebodyLags
  <2>. QED  BY <1>13, <2>1, <2>2, <2>3 DEF Lagging, TypeOK
<1>14. CASE SendAllActions
  <2>1. /\ behind' \in [Players -> 0..MaxBehind]
        /\ lateBy' \in Nat /\ latency' = latency
    BY <1>14, UpdateTypes DEF SendAllActions
  <2>. QED  BY <1>14, <2>1 DEF SendAllActions, UpdateDone, TypeOK
<1>15. CASE NotYet
  BY <1>15 DEF NotYet, UpdateDone, TypeOK
<1>16. CASE UNCHANGED vars
  BY <1>16 DEF vars, TypeOK
<1>. QED  BY <1>1, <1>2, <1>3, <1>4, <1>5, <1>6, <1>7, <1>8, <1>9, <1>10, <1>11,
             <1>12, <1>13, <1>14, <1>15, <1>16 DEF Next

-----------------------------------------------------------------------------
(* Who is waited for.                                                       *)

\* The numbers that the conjuncts of Near compare.
LEMMA Numbers ==
    ASSUME TypeOK
    PROVE  /\ syncLimit \in Nat /\ saves \in Nat
           /\ \A p \in Players : behind[p] \in Nat
           /\ present \subseteq Players
BY LagScreenAssumption DEF TypeOK

\* A step that only flags players, or makes them answer, or goes on to another
\* phase in which less is known.
LEMMA QuietStep ==
    ASSUME TypeOK, TypeOK', Waiting, UNCHANGED <<settings, lag, vote, present, noLag>>,
           deleteMe \subseteq deleteMe',
           \A p \in present : behind'[p] <= behind[p],
           phase' \in {"players", "lag", phase}
    PROVE  Waiting'
<1>1. ScreenIsRight' /\ NobodyLagsUnseen' /\ LagFlagIsRight' /\ VotesAreFresh'
  BY DEF Waiting, ScreenIsRight, NobodyLagsUnseen, LagFlagIsRight, VotesAreFresh, lag
<1>2. /\ syncLimit \in Nat /\ saves \in Nat /\ present \subseteq Players
      /\ \A p \in Players : behind[p] \in Nat /\ behind'[p] \in Nat
  BY Numbers, LagScreenAssumption DEF TypeOK
<1>3. Near'
  <2>1. SUFFICES ASSUME ~meddled PROVE Near'
    BY DEF Near, settings
  <2>2. noLag' = {}
    BY <2>1 DEF Waiting, Near
  <2>3. ASSUME NEW p \in present \ deleteMe' PROVE behind'[p] <= syncLimit + 1 + saves
    <3>1. behind[p] <= syncLimit + 1 + saves
      BY <2>1 DEF Waiting, Near, NobodyIsLeftBehind
    <3>. QED  BY <1>2, <3>1
  <2>4. ASSUME lagScreen \/ phase' \in {"paused", "actions"},
               NEW p \in present \ (deleteMe' \cup lagging)
        PROVE  behind'[p] <= syncLimit + saves
    <3>1. behind[p] <= syncLimit + saves
      BY <2>1, <2>4 DEF Waiting, Near
    <3>. QED  BY <1>2, <3>1
  <2>. QED  BY <2>2, <2>3, <2>4 DEF Near, NobodyIsLeftBehind, lag, settings
<1>. QED  BY <1>1, <1>3 DEF Waiting

LEMMA DropRequestWaiting ==
    ASSUME TypeOK, Waiting, NEW p \in Players, DropRequest(p)
    PROVE  Waiting'
<1>1. /\ deleteMe' \in {deleteMe, deleteMe \cup lagging}
      /\ vote' = [vote EXCEPT ![p] = IF lagScreen THEN "now" ELSE "before"]
      /\ UNCHANGED <<settings, present, behind, noLag, lag, timer, loop>>
  BY DEF DropRequest
<1>2. ScreenIsRight' /\ NobodyLagsUnseen' /\ LagFlagIsRight'
  BY <1>1 DEF Waiting, ScreenIsRight, NobodyLagsUnseen, LagFlagIsRight, lag, loop
<1>3. VotesAreFresh'
  BY <1>1 DEF Waiting, VotesAreFresh, lag, TypeOK
<1>4. Near'
  BY <1>1 DEF Waiting, Near, NobodyIsLeftBehind, lag, loop, settings
<1>. QED  BY <1>2, <1>3, <1>4 DEF Waiting

LEMMA DeletePlayerWaiting ==
    ASSUME TypeOK, Waiting, NEW p \in Players, NEW autoSave \in BOOLEAN,
           DeletePlayer(p, autoSave)
    PROVE  Waiting'
<1>1. /\ phase = "players" /\ p \in present /\ present' = present \ {p}
      /\ deleteMe' = deleteMe \ {p} /\ noLag' = noLag \ {p}
      /\ vote' = [vote EXCEPT ![p] = "none"]
      /\ lagging' = lagging \ {p}
      /\ saves' = (IF autoSave THEN saves + 1 ELSE saves)
      /\ UNCHANGED <<syncLimit, meddled, lagScreen, phase>>
  BY DEF DeletePlayer, Turn, loop
<1>2. ScreenIsRight'
  BY DEF DeletePlayer, ShownWithout, Waiting, ScreenIsRight
<1>3. NobodyLagsUnseen' /\ LagFlagIsRight'
  BY <1>1 DEF Waiting, NobodyLagsUnseen, LagFlagIsRight
<1>4. VotesAreFresh'
  BY <1>1 DEF Waiting, VotesAreFresh, TypeOK
<1>5. Near'
  <2>1. SUFFICES ASSUME ~meddled PROVE Near'
    BY <1>1 DEF Near
  <2>2. /\ noLag' = {}
        /\ \A q \in present' \ deleteMe' : behind[q] <= syncLimit + 1 + saves
        /\ lagScreen' \/ phase' \in {"paused", "actions"} =>
             \A q \in present' \ (deleteMe' \cup lagging') : behind[q] <= syncLimit + saves
    BY <1>1, <2>1 DEF Waiting, Near, NobodyIsLeftBehind
  \* The update of the autosave is the one that the bound allows for.
  <2>3. \A q \in present' : behind'[q] + saves <= behind[q] + saves'
    <3>1. CASE autoSave
      <4>1. present' \subseteq present /\ NextUpdateSent
        BY <1>1, <3>1 DEF DeletePlayer
      <4>2. /\ behind' \in [Players -> 0..MaxBehind]
            /\ \A q \in Players : behind'[q] <= behind[q] + 1
        BY <4>1, UpdateTypes
      <4>3. \A q \in present' : q \in Players /\ behind'[q] \in Nat /\ behind[q] \in Nat
        BY <4>1, <4>2, Numbers, LagScreenAssumption
      <4>4. saves \in Nat /\ saves' = saves + 1
        BY <1>1, <3>1, Numbers
      <4>. QED  BY <4>2, <4>3, <4>4
    <3>2. CASE ~autoSave
      <4>1. \A q \in present' : q \in Players /\ behind[q] \in Nat
        BY <1>1, Numbers
      <4>2. saves' = saves /\ saves \in Nat /\ \A q \in present' : behind'[q] = behind[q]
        BY <1>1, <3>2, <4>1, Numbers DEF DeletePlayer, NothingSent
      <4>. QED  BY <4>1, <4>2
    <3>. QED  BY <3>1, <3>2
  <2>4. /\ syncLimit \in Nat /\ saves \in Nat /\ saves' \in Nat
        /\ \A q \in present' : behind[q] \in Nat /\ behind'[q] \in Int
    <3>1. /\ syncLimit \in Nat /\ saves \in Nat
          /\ \A q \in present' : q \in Players /\ behind[q] \in Nat
      BY <1>1, Numbers
    <3>2. behind' \in [Players -> 0..MaxBehind]
      BY TypeStep, LagScreenAssumption DEF Next, TypeOK
    <3>. QED  BY <1>1, <3>1, <3>2, LagScreenAssumption
  <2>5. \A q \in present' \ deleteMe' : behind'[q] <= syncLimit + 1 + saves'
    BY <2>2, <2>3, <2>4
  <2>6. lagScreen' \/ phase' \in {"paused", "actions"} =>
          \A q \in present' \ (deleteMe' \cup lagging') : behind'[q] <= syncLimit + saves'
    BY <2>2, <2>3, <2>4
  <2>. QED  BY <1>1, <2>2, <2>5, <2>6 DEF Near, NobodyIsLeftBehind
<1>. QED  BY <1>2, <1>3, <1>4, <1>5 DEF Waiting

LEMMA StartLagWaiting ==
    ASSUME TypeOK, Waiting, NEW tooLong \in SUBSET Players, StartLag(tooLong)
    PROVE  Waiting'
<1>1. /\ ~lagScreen /\ lagScreen' /\ tooLong \subseteq Slow /\ tooLong # Slow
      /\ deleteMe' = deleteMe \cup tooLong
      /\ lagging' = lagging \cup (Slow \ tooLong)
      /\ screen' = screen \cup lagging'
      /\ vote' = [p \in Players |-> "none"]
      /\ UNCHANGED <<settings, present, behind, noLag>>
  BY DEF StartLag, ResetVotes
<1>2. ScreenIsRight' /\ NobodyLagsUnseen' /\ LagFlagIsRight'
  BY <1>1 DEF Waiting, ScreenIsRight, NobodyLagsUnseen, LagFlagIsRight
<1>3. VotesAreFresh'
  BY <1>1 DEF VotesAreFresh, TypeOK
<1>4. Near'
  <2>1. SUFFICES ASSUME ~meddled PROVE Near'
    BY <1>1 DEF Near, settings
  <2>2. noLag = {} /\ NobodyIsLeftBehind
    BY <2>1 DEF Waiting, Near
  <2>3. ASSUME NEW p \in present \ (deleteMe' \cup lagging') PROVE behind[p] <= syncLimit + saves
    <3>1. p \notin Slow
      BY <1>1, <2>3
    <3>. QED  BY <2>2, <3>1, Numbers DEF Slow
  <2>. QED  BY <1>1, <2>2, <2>3 DEF Near, NobodyIsLeftBehind, settings
<1>. QED  BY <1>2, <1>3, <1>4 DEF Waiting

LEMMA NobodyLagsWaiting ==
    ASSUME TypeOK, Waiting, NobodyLags
    PROVE  Waiting'
<1>1. /\ ~lagScreen /\ deleteMe' = deleteMe \cup Slow
      /\ UNCHANGED <<settings, present, behind, noLag, lag, vote>>
  BY DEF NobodyLags
<1>2. ScreenIsRight' /\ NobodyLagsUnseen' /\ LagFlagIsRight' /\ VotesAreFresh'
  BY <1>1 DEF Waiting, ScreenIsRight, NobodyLagsUnseen, LagFlagIsRight, VotesAreFresh, lag
<1>3. Near'
  <2>1. SUFFICES ASSUME ~meddled PROVE Near'
    BY <1>1 DEF Near, settings
  <2>2. noLag = {} /\ NobodyIsLeftBehind
    BY <2>1 DEF Waiting, Near
  <2>3. ASSUME NEW p \in present \ deleteMe' PROVE behind[p] <= syncLimit + saves
    <3>1. p \notin Slow
      BY <1>1, <2>3
    <3>. QED  BY <2>2, <3>1, Numbers DEF Slow
  <2>. QED  BY <1>1, <2>2, <2>3 DEF Near, NobodyIsLeftBehind, settings, lag
<1>. QED  BY <1>2, <1>3 DEF Waiting

LEMMA LaggingWaiting ==
    ASSUME TypeOK, Waiting, NEW timeout \in BOOLEAN, NEW reset \in BOOLEAN,
           Lagging(timeout, reset)
    PROVE  Waiting'
<1>. DEFINE caughtUp == {p \in lagging : behind[p] < syncLimit \div 2}
<1>1. /\ lagScreen /\ deleteMe \subseteq deleteMe'
      /\ screen' = lagging \ caughtUp
      /\ lagging' = lagging \ caughtUp
      /\ lagScreen' = (lagging' # {})
      /\ vote' = (IF lagScreen' THEN vote ELSE Outdated(vote))
      /\ UNCHANGED <<settings, present, behind, noLag>>
  BY DEF Lagging, SomebodyLags, Waiting, ScreenIsRight
<1>2. ScreenIsRight' /\ NobodyLagsUnseen' /\ LagFlagIsRight' /\ VotesAreFresh'
  BY <1>1 DEF Waiting, ScreenIsRight, NobodyLagsUnseen, LagFlagIsRight, VotesAreFresh
<1>3. Near'
  <2>1. SUFFICES ASSUME ~meddled PROVE Near'
    BY <1>1 DEF Near, settings
  <2>2. /\ noLag = {} /\ NobodyIsLeftBehind
        /\ \A p \in present \ (deleteMe \cup lagging) : behind[p] <= syncLimit + saves
    BY <1>1, <2>1 DEF Waiting, Near
  \* Who has caught up is not too far behind either.
  <2>3. ASSUME NEW p \in present \ (deleteMe' \cup lagging') PROVE behind[p] <= syncLimit + saves
    <3>1. CASE p \in lagging
      <4>1. behind[p] < syncLimit \div 2
        BY <1>1, <2>3, <3>1
      <4>. QED  BY <4>1, Numbers
    <3>2. CASE p \notin lagging
      BY <1>1, <2>2, <2>3, <3>2
    <3>. QED  BY <3>1, <3>2
  <2>4. NobodyIsLeftBehind'
    BY <1>1, <2>2 DEF NobodyIsLeftBehind, settings
  <2>. QED  BY <1>1, <2>2, <2>3, <2>4 DEF Near, settings
<1>. QED  BY <1>2, <1>3 DEF Waiting

LEMMA SendAllActionsWaiting ==
    ASSUME TypeOK, Waiting, SendAllActions
    PROVE  Waiting'
<1>1. /\ phase \in {"paused", "actions"} /\ ~lagScreen
      /\ UNCHANGED <<settings, present, deleteMe, noLag, lag, vote>>
      /\ phase' \in {"players", "over"}
      /\ \A p \in Players : behind'[p] <= behind[p] + 1
  BY UpdateTypes DEF SendAllActions, MaySend, MustSend, UpdateDone
<1>2. ScreenIsRight' /\ NobodyLagsUnseen' /\ LagFlagIsRight' /\ VotesAreFresh'
  BY <1>1 DEF Waiting, ScreenIsRight, NobodyLagsUnseen, LagFlagIsRight, VotesAreFresh, lag
<1>3. Near'
  <2>1. SUFFICES ASSUME ~meddled PROVE Near'
    BY <1>1 DEF Near, settings
  <2>2. /\ noLag = {} /\ lagging = {}
        /\ \A p \in present \ deleteMe : behind[p] <= syncLimit + saves
    BY <1>1, <2>1 DEF Waiting, Near, NobodyLagsUnseen
  <2>3. behind' \in [Players -> 0..MaxBehind]
    BY UpdateTypes DEF SendAllActions
  <2>4. ASSUME NEW p \in present \ deleteMe PROVE behind'[p] <= syncLimit + 1 + saves
    <3>1. /\ p \in Players /\ behind[p] \in Nat /\ behind'[p] \in Nat
          /\ syncLimit \in Nat /\ saves \in Nat
      BY <2>3, Numbers, LagScreenAssumption
    <3>2. behind[p] <= syncLimit + saves /\ behind'[p] <= behind[p] + 1
      BY <1>1, <2>2, <3>1
    <3>. QED  BY <3>1, <3>2
  <2>. QED  BY <1>1, <2>2, <2>4 DEF Near, NobodyIsLeftBehind, settings, lag
<1>. QED  BY <1>2, <1>3 DEF Waiting

\* Every step keeps the invariant.
LEMMA NextIInv == IInv /\ [Next]_vars => IInv'
<1>. SUFFICES ASSUME IInv, [Next]_vars PROVE Waiting'
  BY TypeStep DEF IInv
<1>0. TypeOK /\ TypeOK' /\ Waiting
  BY TypeStep DEF IInv
<1>n. \A p \in present : p \in Players /\ behind[p] \in Nat
  BY <1>0, Numbers
<1>1. ASSUME NEW p \in Players, KeepAlive(p) PROVE Waiting'
  <2>1. \A q \in present : behind'[q] <= behind[q]
    <3>1. behind' = [behind EXCEPT ![p] = @ - 1] /\ behind \in [Players -> 0..MaxBehind]
      BY <1>0, <1>1 DEF KeepAlive, TypeOK
    <3>. QED  BY <1>n, <3>1
  <2>2. /\ UNCHANGED <<settings, lag, vote, present, noLag>>
        /\ deleteMe \subseteq deleteMe' /\ phase' = phase
    BY <1>1 DEF KeepAlive, settings, loop
  <2>. QED  BY <1>0, <2>1, <2>2, QuietStep
<1>2. ASSUME NEW p \in Players, NoLag(p) PROVE Waiting'
  BY <1>0, <1>2 DEF NoLag, Waiting, ScreenIsRight, NobodyLagsUnseen, LagFlagIsRight,
                    VotesAreFresh, Near, lag, loop
<1>3. ASSUME NEW limit \in SyncLimits, SetSyncLimit(limit) PROVE Waiting'
  BY <1>0, <1>3 DEF SetSyncLimit, Waiting, ScreenIsRight, NobodyLagsUnseen, LagFlagIsRight,
                    VotesAreFresh, Near, lag, loop
<1>4. ASSUME NEW p \in Players, DropRequest(p) PROVE Waiting'
  BY <1>0, <1>4, DropRequestWaiting
<1>5. ASSUME NEW p \in Players, NEW autoSave \in BOOLEAN, DeletePlayer(p, autoSave)
      PROVE  Waiting'
  BY <1>0, <1>5, DeletePlayerWaiting
<1>6. ASSUME \/ \E ticks \in Latencies : SetLatency(ticks)
             \/ \E players \in {lagging, present} : Drop(players)
             \/ \E p \in Players : Departs(p) \/ KeepPlayer(p)
             \/ PlayersDone
      PROVE  Waiting'
  <2>1. /\ UNCHANGED <<settings, lag, vote, present, noLag, behind>>
        /\ deleteMe \subseteq deleteMe' /\ phase' \in {"lag", phase}
    BY <1>6 DEF SetLatency, Drop, Departs, KeepPlayer, PlayersDone, settings, loop
  <2>2. \A p \in present : behind'[p] <= behind[p]
    BY <1>n, <2>1
  <2>. QED  BY <1>0, <2>1, <2>2, QuietStep
<1>7. ASSUME NEW tooLong \in SUBSET Players, StartLag(tooLong) PROVE Waiting'
  BY <1>0, <1>7, StartLagWaiting
<1>8. CASE NobodyLags
  BY <1>0, <1>8, NobodyLagsWaiting
<1>9. ASSUME NEW timeout \in BOOLEAN, NEW reset \in BOOLEAN, Lagging(timeout, reset)
      PROVE  Waiting'
  BY <1>0, <1>9, LaggingWaiting
<1>10. CASE SendAllActions
  BY <1>0, <1>10, SendAllActionsWaiting
<1>11. CASE NotYet
  <2>1. /\ UNCHANGED <<settings, lag, vote, present, noLag, behind, deleteMe>>
        /\ phase' \in {"players", "over"}
    BY <1>11 DEF NotYet, UpdateDone
  <2>. QED
    BY <1>0, <2>1 DEF Waiting, ScreenIsRight, NobodyLagsUnseen, LagFlagIsRight, VotesAreFresh,
                      Near, NobodyIsLeftBehind, lag, settings
<1>12. CASE UNCHANGED vars
  <2>1. UNCHANGED <<settings, lag, vote, present, noLag, behind, deleteMe, phase>>
    BY <1>12 DEF vars, loop
  <2>. QED
    BY <1>0, <2>1 DEF Waiting, ScreenIsRight, NobodyLagsUnseen, LagFlagIsRight, VotesAreFresh,
                      Near, NobodyIsLeftBehind, lag, settings
<1>. QED  BY <1>1, <1>2, <1>3, <1>4, <1>5, <1>6, <1>7, <1>8, <1>9, <1>10, <1>11,
             <1>12 DEF Next

\* A step that puts somebody further behind is an update, which is not sent while somebody
\* lags, or the autosave of a deletion.
LEMMA OnlyUpdates ==
    ASSUME TypeOK, IInv, [Next]_vars,
           NEW p \in present', behind'[p] > behind[p]
    PROVE  \/ lagging = {}
           \/ saves' = saves + 1 /\ present' # present /\ behind'[p] = behind[p] + 1
<1>1. /\ present' \subseteq Players /\ behind \in [Players -> 0..MaxBehind]
      /\ behind' \in [Players -> 0..MaxBehind] /\ p \in Players
      /\ behind[p] \in Nat /\ behind'[p] \in Nat
  BY TypeStep, LagScreenAssumption DEF TypeOK
<1>2. ~(behind'[p] <= behind[p]) /\ behind' # behind
  BY <1>1
<1>3. CASE SendAllActions
  <2>1. ~lagScreen
    BY <1>3 DEF SendAllActions, MaySend, MustSend
  <2>. QED  BY <2>1 DEF IInv, Waiting, NobodyLagsUnseen
<1>4. CASE \E q \in Players : KeepAlive(q)
  <2>1. PICK q \in Players : behind' = [behind EXCEPT ![q] = @ - 1]
    BY <1>4 DEF KeepAlive
  <2>2. behind'[p] <= behind[p]
    BY <1>1, <2>1
  <2>. QED  BY <1>2, <2>2
<1>5. CASE \E q \in Players, autoSave \in BOOLEAN : DeletePlayer(q, autoSave)
  <2>1. PICK q \in Players, autoSave \in BOOLEAN : DeletePlayer(q, autoSave)
    BY <1>5
  <2>2. q \in present /\ present' = present \ {q}
    BY <2>1 DEF DeletePlayer, Turn
  <2>3. autoSave
    <3>1. SUFFICES ASSUME ~autoSave PROVE FALSE
      BY <2>1
    <3>2. behind'[p] = behind[p]
      BY <1>1, <2>1, <3>1 DEF DeletePlayer, NothingSent
    <3>. QED  BY <1>1, <1>2, <3>2
  <2>4. saves' = saves + 1 /\ NextUpdateSent
    BY <2>1, <2>3 DEF DeletePlayer
  <2>5. behind'[p] <= behind[p] + 1
    BY <1>1, <2>2, <2>4, UpdateTypes
  <2>6. behind'[p] = behind[p] + 1
    BY <1>1, <1>2, <2>5
  <2>. QED  BY <2>2, <2>4, <2>6
<1>6. CASE UNCHANGED behind
  BY <1>2, <1>6
<1>. QED  BY <1>3, <1>4, <1>5, <1>6 DEF Next, vars, NoLag, SetSyncLimit, SetLatency, DropRequest,
             Drop, Departs, KeepPlayer, PlayersDone, StartLag, NobodyLags, Lagging, NotYet

-----------------------------------------------------------------------------

\* Every state of the model has the right types, for games of any size.
THEOREM TypeCorrect == Spec => []TypeOK
<1>1. IInv => TypeOK
  BY DEF IInv
<1>. QED  BY <1>1, InitIInv, NextIInv, PTL DEF Spec

\* The lag screen of the clients shows exactly the players who lag, whether an update is due
\* is decided with m_Lagging telling the truth, and a vote counts only for the lag screen it
\* was cast for.
THEOREM OneLagScreen == Spec => []LagScreenIsRight
<1>1. IInv => LagScreenIsRight
  BY DEF IInv, Waiting, LagScreenIsRight
<1>. QED  BY <1>1, InitIInv, NextIInv, PTL DEF Spec

\* Nobody falls further behind than one update beyond m_SyncLimit, whatever m_SyncLimit is,
\* and one for each autosave.
THEOREM GameWaits == Spec => []NobodyIsLeftBehind
<1>1. IInv => NobodyIsLeftBehind
  BY DEF IInv, Waiting, Near, NobodyIsLeftBehind
<1>. QED  BY <1>1, InitIInv, NextIInv, PTL DEF Spec

\* No update is sent behind a lag screen, but for the one of an autosave.
THEOREM LagScreenStopsGame == Spec => GameStops
<1>. DEFINE Stops == \A p \in present' : behind'[p] > behind[p] =>
                       \/ lagging = {}
                       \/ saves' = saves + 1 /\ present' # present /\ behind'[p] = behind[p] + 1
<1>1. IInv /\ [Next]_vars => Stops
  BY OnlyUpdates DEF IInv
<1>2. GameStops <=> [][Stops]_vars
  BY DEF GameStops
<1>. HIDE DEF Stops
<1>3. IInv /\ [Next]_vars => [Stops]_vars
  BY <1>1
<1>. QED  BY <1>2, <1>3, InitIInv, NextIInv, PTL DEF Spec

=============================================================================
