---------------------------- MODULE LoadingProofs ----------------------------
(***************************************************************************)
(* For every number of players, of empty updates and of updates sent: all   *)
(* the games that stay are given the same data in the same order, the game  *)
(* is not taken as loaded before they have all loaded, and with "load in    *)
(* game" the lag screens show exactly those who are still loading.          *)
(***************************************************************************)
EXTENDS Loading, SequenceTheorems, TLAPS

-----------------------------------------------------------------------------
(* The inductive invariant.  What a game has been given and what is held    *)
(* back for it only add up if nothing is held back that could be overtaken. *)

\* A player who has loaded was given everything that was held back.
LoadedHoldNothing == \A p \in finished : held[p] = <<>>

\* Data is held back with "load in game" only.
HeldInGameOnly == ~loadInGame => \A p \in present : held[p] = <<>>

History == LoadedHoldNothing /\ HeldInGameOnly /\ LoadedTogether /\ SameHistory

IInv == TypeOK /\ History

\* The lag screens, with nothing left out: until the game is loaded those of
\* the players who have loaded show everybody who has not, given up or not;
\* afterwards they may still show those who were given up.
ScreensInGame ==
  loadInGame => \A p \in finished : IF gameLoaded THEN screen[p] \subseteq dropped
                                                  ELSE screen[p] = Loading

\* Without "load in game" there are no lag screens.
NoScreensOtherwise == ~loadInGame => \A p \in Players : screen[p] = {}

Screens == ScreensInGame /\ NoScreensOtherwise

-----------------------------------------------------------------------------
(* Lemmas about what is sent.                                               *)

\* A sequence of empty updates is a sequence of items, and so is an update.
LEMMA UpdateTypes ==
    /\ Empties \in Seq(Item)
    /\ UpdateAll \in [Players -> Seq(Item)]
    /\ \A p \in Players : <<Loaded(p)>> \in Seq(Item) /\ <<Left(p)>> \in Seq(Item)
<1>1. Empty \in Item /\ Update \in Item
  BY DEF Item
<1>2. Empties \in Seq(Item)
  <2>1. EmptyActions \in Nat
    BY LoadingAssumption
  <2>2. Empties \in [1 .. EmptyActions -> Item]
    BY <1>1 DEF Empties
  <2>. QED  BY <2>1, <2>2, SeqDef
<1>3. <<Update>> \in Seq(Item)
  BY <1>1
<1>4. Empties \o <<Update>> \in Seq(Item)
  BY <1>2, <1>3, ConcatProperties
<1>5. Empties \o (Empties \o <<Update>>) \in Seq(Item)
  BY <1>2, <1>4, ConcatProperties
<1>6. ASSUME NEW p \in Players PROVE UpdateFor(p) \in Seq(Item)
  BY <1>3, <1>4, <1>5, Zenon DEF UpdateFor, SentTo
<1>7. UpdateAll \in [Players -> Seq(Item)]
  BY <1>6 DEF UpdateAll
<1>8. ASSUME NEW p \in Players
      PROVE  <<Loaded(p)>> \in Seq(Item) /\ <<Left(p)>> \in Seq(Item)
  <2>1. Loaded(p) \in Item /\ Left(p) \in Item
    BY DEF Item
  <2>. QED  BY <2>1
<1>. QED  BY <1>2, <1>7, <1>8

\* The games of all players see the same update.
LEMMA SameUpdate ==
    ASSUME NEW p \in present, NEW q \in present
    PROVE  UpdateFor(p) = UpdateFor(q)
<1>1. ASSUME NEW r \in present
      PROVE  UpdateFor(r) = IF UsingGProxy THEN Empties \o <<Update>> ELSE <<Update>>
  BY DEF UpdateFor, SentTo, UsingGProxy
<1>. QED  BY <1>1

\* What SendAll gives to a player for whom nothing is held back.
LEMMA SendAllGrows ==
    ASSUME TypeOK, NEW what \in [Players -> Seq(Item)], SendAll(what)
    PROVE  /\ seen' \in [Players -> Seq(Item)]
           /\ held' \in [Players -> Seq(Item)]
           /\ \A p \in Players : held[p] = <<>> => held'[p] = <<>>
           /\ \A p \in present' \cap Players : held[p] = <<>> =>
                seen'[p] \o held'[p] = (seen[p] \o held[p]) \o what[p]
<1>1. \A p \in Players : seen[p] \in Seq(Item) /\ held[p] \in Seq(Item) /\ what[p] \in Seq(Item)
  BY DEF TypeOK
<1>2. \A p \in Players : seen[p] \o what[p] \in Seq(Item)
  BY <1>1, ConcatProperties
<1>3. <<>> \in Seq(Item)
  BY EmptySeq
<1>4. seen' \in [Players -> Seq(Item)]
  BY <1>2, <1>3, Zenon DEF SendAll
<1>5. held' \in [Players -> Seq(Item)]
  BY <1>1, <1>3, Zenon DEF SendAll
<1>6. \A p \in Players : held[p] = <<>> => held'[p] = <<>>
  BY DEF SendAll
<1>7. ASSUME NEW p \in present' \cap Players, held[p] = <<>>
      PROVE  seen'[p] \o held'[p] = (seen[p] \o held[p]) \o what[p]
  <2>1. seen'[p] = seen[p] \o what[p] /\ held'[p] = <<>>
    BY <1>7 DEF SendAll
  <2>2. seen'[p] \o held'[p] = seen[p] \o what[p]
    BY <1>2, <2>1, ConcatEmptySeq
  <2>3. seen[p] \o held[p] = seen[p]
    BY <1>1, <1>7, ConcatEmptySeq
  <2>. QED  BY <2>2, <2>3
<1>. QED  BY <1>4, <1>5, <1>6, <1>7

\* What SendOrHold adds for a player, if nothing is held back for the loaded.
LEMMA SendOrHoldGrows ==
    ASSUME TypeOK, LoadedHoldNothing,
           NEW what \in [Players -> Seq(Item)], SendOrHold(what)
    PROVE  /\ seen' \in [Players -> Seq(Item)]
           /\ held' \in [Players -> Seq(Item)]
           /\ \A p \in finished : held'[p] = <<>>
           /\ \A p \in present' \cap Players :
                seen'[p] \o held'[p] = (seen[p] \o held[p]) \o what[p]
<1>1. \A p \in Players : seen[p] \in Seq(Item) /\ held[p] \in Seq(Item) /\ what[p] \in Seq(Item)
  BY DEF TypeOK
<1>2. \A p \in Players : seen[p] \o what[p] \in Seq(Item) /\ held[p] \o what[p] \in Seq(Item)
  BY <1>1, ConcatProperties
<1>3. <<>> \in Seq(Item)
  BY EmptySeq
<1>4. seen' \in [Players -> Seq(Item)]
  BY <1>1, <1>2, <1>3, Zenon DEF SendOrHold
<1>5. held' \in [Players -> Seq(Item)]
  BY <1>1, <1>2, <1>3, Zenon DEF SendOrHold
<1>6. \A p \in finished : held'[p] = <<>>
  BY DEF SendOrHold, LoadedHoldNothing, TypeOK
<1>7. ASSUME NEW p \in present' \cap Players
      PROVE  seen'[p] \o held'[p] = (seen[p] \o held[p]) \o what[p]
  <2>1. CASE p \in finished
    <3>1. seen'[p] = seen[p] \o what[p] /\ held'[p] = <<>> /\ held[p] = <<>>
      BY <2>1 DEF SendOrHold, LoadedHoldNothing
    <3>2. seen'[p] \o held'[p] = seen[p] \o what[p]
      BY <1>2, <3>1, ConcatEmptySeq
    <3>3. seen[p] \o held[p] = seen[p]
      BY <1>1, <3>1, ConcatEmptySeq
    <3>. QED  BY <3>2, <3>3
  <2>2. CASE p \notin finished
    <3>1. seen'[p] = seen[p] /\ held'[p] = held[p] \o what[p]
      BY <2>2 DEF SendOrHold
    <3>2. (seen[p] \o held[p]) \o what[p] = seen[p] \o (held[p] \o what[p])
      <4>1. p \in Players
        OBVIOUS
      <4>2. seen[p] \in Seq(Item) /\ held[p] \in Seq(Item) /\ what[p] \in Seq(Item)
        BY <1>1, <4>1
      <4>3. \A s, t, u \in Seq(Item) : (s \o t) \o u = s \o (t \o u)
        BY ConcatAssociative
      <4>. QED  BY <4>2, <4>3
    <3>. QED  BY <3>1, <3>2
  <2>. QED  BY <2>1, <2>2
<1>. QED  BY <1>4, <1>5, <1>6, <1>7

\* Everybody who stays is given the same.
LEMMA SameGrowth ==
    ASSUME SameHistory, Staying' \subseteq Staying, NEW what,
           \A q, r \in Staying' : what[q] = what[r],
           \A q \in Staying' : seen'[q] \o held'[q] = (seen[q] \o held[q]) \o what[q]
    PROVE  SameHistory'
<1>1. ASSUME NEW q \in Staying', NEW r \in Staying'
      PROVE  seen'[q] \o held'[q] = seen'[r] \o held'[r]
  <2>1. seen[q] \o held[q] = seen[r] \o held[r]
    BY DEF SameHistory
  <2>2. what[q] = what[r]
    OBVIOUS
  <2>3. /\ seen'[q] \o held'[q] = (seen[q] \o held[q]) \o what[q]
        /\ seen'[r] \o held'[r] = (seen[r] \o held[r]) \o what[r]
    OBVIOUS
  <2>. QED  BY <2>1, <2>2, <2>3, Zenon
<1>. QED  BY <1>1, Zenon DEF SameHistory

-----------------------------------------------------------------------------

LEMMA InitIInv == Init => IInv
<1>. SUFFICES ASSUME Init PROVE IInv
  OBVIOUS
<1>1. NumPlayers \in Nat \ {0}
  BY LoadingAssumption
<1>2. <<>> \in Seq(Item)
  BY EmptySeq
<1>3. [q \in 1 .. NumPlayers |-> Loaded(q)] \in Seq(Item)
  <2>1. [q \in 1 .. NumPlayers |-> Loaded(q)] \in [1 .. NumPlayers -> Item]
    BY DEF Item, Players
  <2>. QED  BY <1>1, <2>1, SeqDef
<1>4. held \in [Players -> Seq(Item)] /\ seen \in [Players -> Seq(Item)]
  BY <1>2, <1>3, Zenon DEF Init
<1>5. TypeOK
  <2>1. turn \in 0 .. NumPlayers /\ updates \in Nat
    BY <1>1 DEF Init
  <2>2. screen \in [Players -> SUBSET Players]
    BY DEF Init
  <2>. QED  BY <1>4, <2>1, <2>2 DEF Init, TypeOK
<1>6. LoadedHoldNothing /\ HeldInGameOnly /\ LoadedTogether
  BY DEF Init, LoadedHoldNothing, HeldInGameOnly, LoadedTogether
<1>7. SameHistory
  BY DEF Init, SameHistory, Staying
<1>. QED  BY <1>5, <1>6, <1>7 DEF IInv, History

\* A step that gives nothing to anybody, lets nobody in and unflags nobody.
LEMMA QuietStep ==
    ASSUME History, UNCHANGED <<loadInGame, streams, present, finished>>,
           deleteMe \subseteq deleteMe', LoadedTogether'
    PROVE  History'
BY DEF History, LoadedHoldNothing, HeldInGameOnly, LoadedTogether, SameHistory, Staying, streams

-----------------------------------------------------------------------------
(* The actions that send something.                                         *)

LEMMA EventPlayerLoadedIInv ==
    ASSUME IInv, NEW p \in Players, EventPlayerLoaded(p)
    PROVE  IInv'
<1>. USE DEF IInv, History
<1>0. /\ p \in present /\ ~gameLoaded /\ p \notin finished
      /\ finished' = finished \cup {p} /\ present' = present
      /\ UNCHANGED <<loadInGame, proxied, deleteMe, gameLoaded, phase, turn, updates, dropped>>
  BY DEF EventPlayerLoaded, Turn, settings, loop
<1>1. \A q \in Players : seen[q] \in Seq(Item) /\ held[q] \in Seq(Item)
  BY DEF TypeOK
<1>2. LoadedTogether'
  BY <1>0 DEF LoadedTogether
<1>3. CASE loadInGame
  <2>1. /\ seen' = [seen EXCEPT ![p] = @ \o held[p]]
        /\ held' = [held EXCEPT ![p] = <<>>]
        /\ screen' \in [Players -> SUBSET Players]
    <3>1. Loading \subseteq Players
      BY DEF Loading, TypeOK
    <3>2. screen' = [q \in Players |->
                          CASE q = p -> Loading \ {p}
                            [] q # p /\ q \in finished -> screen[q] \ {p}
                            [] OTHER -> screen[q]]
      BY <1>3 DEF EventPlayerLoaded
    <3>3. \A q \in Players : screen[q] \in SUBSET Players
      BY DEF TypeOK
    <3>4. ASSUME NEW q \in Players
          PROVE  (CASE q = p -> Loading \ {p}
                    [] q # p /\ q \in finished -> screen[q] \ {p}
                    [] OTHER -> screen[q]) \in SUBSET Players
      BY <3>1, <3>3
    <3>. QED  BY <1>3, <3>2, <3>4 DEF EventPlayerLoaded
  <2>2. seen[p] \o held[p] \in Seq(Item) /\ <<>> \in Seq(Item)
    BY <1>1, ConcatProperties, EmptySeq
  <2>3. seen' \in [Players -> Seq(Item)] /\ held' \in [Players -> Seq(Item)]
    BY <2>1, <2>2 DEF TypeOK
  <2>4. TypeOK'
    BY <1>0, <2>1, <2>3 DEF TypeOK
  <2>5. LoadedHoldNothing' /\ HeldInGameOnly'
    BY <1>0, <1>3, <2>1 DEF LoadedHoldNothing, HeldInGameOnly, TypeOK
  <2>6. \A q \in Players : seen'[q] \o held'[q] = seen[q] \o held[q]
    <3>1. seen'[p] = seen[p] \o held[p] /\ held'[p] = <<>>
      BY <2>1 DEF TypeOK
    <3>2. seen'[p] \o held'[p] = seen[p] \o held[p]
      BY <2>2, <3>1, ConcatEmptySeq
    <3>3. \A q \in Players \ {p} : seen'[q] = seen[q] /\ held'[q] = held[q]
      BY <2>1 DEF TypeOK
    <3>. QED  BY <3>2, <3>3
  <2>7. SameHistory'
    <3>1. Staying' = Staying /\ Staying \subseteq Players
      BY <1>0 DEF Staying, TypeOK
    <3>2. ASSUME NEW q \in Staying, NEW r \in Staying
          PROVE  seen'[q] \o held'[q] = seen'[r] \o held'[r]
      <4>1. seen[q] \o held[q] = seen[r] \o held[r]
        BY DEF SameHistory
      <4>2. /\ seen'[q] \o held'[q] = seen[q] \o held[q]
            /\ seen'[r] \o held'[r] = seen[r] \o held[r]
        BY <2>6, <3>1, Zenon
      <4>. QED  BY <4>1, <4>2, Zenon
    <3>. QED  BY <3>1, <3>2, Zenon DEF SameHistory
  <2>. QED  BY <1>2, <2>4, <2>5, <2>7
<1>4. CASE ~loadInGame
  <2>. DEFINE what == ToAll(Loaded(p))
  <2>1. SendAll(what) /\ screen' = screen
    BY <1>4 DEF EventPlayerLoaded
  <2>2. what \in [Players -> Seq(Item)]
    BY UpdateTypes DEF ToAll
  <2>3. \A q, r \in Players : what[q] = what[r]
    BY DEF ToAll
  <2>. HIDE DEF what
  <2>4. /\ seen' \in [Players -> Seq(Item)]
        /\ held' \in [Players -> Seq(Item)]
        /\ \A q \in Players : held[q] = <<>> => held'[q] = <<>>
        /\ \A q \in present' \cap Players : held[q] = <<>> =>
             seen'[q] \o held'[q] = (seen[q] \o held[q]) \o what[q]
    BY <2>1, <2>2, SendAllGrows
  <2>5. \A q \in present : q \in Players /\ held[q] = <<>>
    BY <1>4 DEF HeldInGameOnly, TypeOK
  <2>6. TypeOK'
    BY <1>0, <2>1, <2>4 DEF TypeOK
  <2>7. LoadedHoldNothing' /\ HeldInGameOnly'
    BY <1>0, <2>4, <2>5 DEF LoadedHoldNothing, HeldInGameOnly, TypeOK
  <2>8. SameHistory'
    <3>1. Staying' = Staying /\ Staying \subseteq Players
      BY <1>0 DEF Staying, TypeOK
    <3>2. \A q \in Staying' : seen'[q] \o held'[q] = (seen[q] \o held[q]) \o what[q]
      BY <1>0, <2>4, <2>5 DEF Staying
    <3>. QED  BY <2>3, <3>1, <3>2, SameGrowth
  <2>. QED  BY <1>2, <2>6, <2>7, <2>8
<1>. QED  BY <1>3, <1>4

LEMMA EventPlayerDeletedIInv ==
    ASSUME IInv, NEW p \in present, NEW autoSave \in BOOLEAN,
           EventPlayerDeleted(p, autoSave)
    PROVE  IInv'
<1>. USE DEF IInv, History
<1>. DEFINE what == [q \in Players |->
                       IF autoSave THEN UpdateFor(q) \o <<Left(p)>> ELSE <<Left(p)>>]
<1>0. /\ present' = present \ {p} /\ deleteMe' = deleteMe \ {p}
      /\ finished' = finished \ {p}
      /\ updates' = IF autoSave THEN updates + 1 ELSE updates
      /\ UNCHANGED <<loadInGame, proxied, gameLoaded, phase, turn, dropped>>
  BY DEF EventPlayerDeleted, settings, loop
<1>1. what \in [Players -> Seq(Item)]
  <2>1. \A q \in Players : UpdateFor(q) \in Seq(Item)
    BY UpdateTypes DEF UpdateAll
  <2>2. p \in Players
    BY DEF TypeOK
  <2>3. <<Left(p)>> \in Seq(Item)
    BY <2>2, UpdateTypes
  <2>4. \A q \in Players : UpdateFor(q) \o <<Left(p)>> \in Seq(Item)
    BY <2>1, <2>3, ConcatProperties
  <2>. QED  BY <2>3, <2>4, Zenon
<1>2. Staying' \subseteq Staying /\ Staying' \subseteq present' \cap Players
      /\ Staying' \subseteq Players
  BY <1>0 DEF Staying, TypeOK
<1>3. \A q, r \in Staying' : what[q] = what[r]
  <2>1. ASSUME NEW q \in Staying', NEW r \in Staying' PROVE what[q] = what[r]
    <3>1. q \in present /\ r \in present /\ q \in Players /\ r \in Players
      BY <1>2 DEF Staying
    <3>2. UpdateFor(q) = UpdateFor(r)
      BY <3>1, SameUpdate
    <3>. QED  BY <3>1, <3>2
  <2>. QED  BY <2>1
<1>4. LoadedTogether'
  BY <1>0, <1>2 DEF LoadedTogether, Staying
<1>5. CASE ~gameLoaded /\ loadInGame
  <2>1. SendOrHold(what)
    BY <1>5 DEF EventPlayerDeleted
  <2>2. screen' = [q \in Players |-> IF q \in finished THEN screen[q] \ {p} ELSE screen[q]]
    BY <1>5 DEF EventPlayerDeleted
  <2>. HIDE DEF what
  <2>3. /\ seen' \in [Players -> Seq(Item)]
        /\ held' \in [Players -> Seq(Item)]
        /\ \A q \in finished : held'[q] = <<>>
        /\ \A q \in present' \cap Players :
             seen'[q] \o held'[q] = (seen[q] \o held[q]) \o what[q]
    BY <1>1, <2>1, SendOrHoldGrows
  <2>4. screen' \in [Players -> SUBSET Players]
    BY <2>2 DEF TypeOK
  <2>5. TypeOK'
    BY <1>0, <2>3, <2>4 DEF TypeOK
  <2>6. LoadedHoldNothing' /\ HeldInGameOnly'
    BY <1>0, <1>5, <2>3 DEF LoadedHoldNothing, HeldInGameOnly
  <2>7. SameHistory'
    BY <1>2, <1>3, <2>3, SameGrowth
  <2>. QED  BY <1>4, <2>5, <2>6, <2>7
<1>6. CASE ~(~gameLoaded /\ loadInGame)
  <2>1. SendAll(what) /\ screen' = screen
    BY <1>6 DEF EventPlayerDeleted
  <2>. HIDE DEF what
  <2>2. /\ seen' \in [Players -> Seq(Item)]
        /\ held' \in [Players -> Seq(Item)]
        /\ \A q \in Players : held[q] = <<>> => held'[q] = <<>>
        /\ \A q \in present' \cap Players : held[q] = <<>> =>
             seen'[q] \o held'[q] = (seen[q] \o held[q]) \o what[q]
    BY <1>1, <2>1, SendAllGrows
  <2>3. TypeOK'
    BY <1>0, <2>1, <2>2 DEF TypeOK
  <2>4. LoadedHoldNothing'
    BY <1>0, <2>2 DEF LoadedHoldNothing, TypeOK
  <2>5. HeldInGameOnly'
    BY <1>0, <2>2 DEF HeldInGameOnly, TypeOK
  <2>6. \A q \in Staying' : held[q] = <<>>
    BY <1>2, <1>6 DEF LoadedTogether, LoadedHoldNothing, HeldInGameOnly, Staying
  <2>7. \A q \in Staying' : seen'[q] \o held'[q] = (seen[q] \o held[q]) \o what[q]
    BY <1>2, <2>2, <2>6
  <2>8. SameHistory'
    BY <1>2, <1>3, <2>7, SameGrowth
  <2>. QED  BY <1>4, <2>3, <2>4, <2>5, <2>8
<1>. QED  BY <1>5, <1>6

LEMMA ResetLagScreenIInv ==
    ASSUME IInv, NEW drop \in BOOLEAN, ResetLagScreen(drop)
    PROVE  IInv'
<1>. USE DEF IInv, History
<1>0. /\ ~gameLoaded /\ loadInGame
      /\ updates' = updates + 1 /\ phase' = "actions"
      /\ UNCHANGED <<present, loadInGame, proxied, finished, gameLoaded, turn>>
      /\ deleteMe \subseteq deleteMe' /\ deleteMe' \subseteq present
      /\ dropped' \subseteq Players
      /\ SendOrHold(UpdateAll)
  BY DEF ResetLagScreen, DropLoading, settings, Loading, TypeOK
<1>1. UpdateAll \in [Players -> Seq(Item)]
  BY UpdateTypes
<1>2. /\ seen' \in [Players -> Seq(Item)]
      /\ held' \in [Players -> Seq(Item)]
      /\ \A q \in finished : held'[q] = <<>>
      /\ \A q \in present' \cap Players :
           seen'[q] \o held'[q] = (seen[q] \o held[q]) \o UpdateAll[q]
  BY <1>0, <1>1, SendOrHoldGrows
<1>3. screen' \in [Players -> SUBSET Players]
  BY DEF ResetLagScreen, Loading, TypeOK
<1>4. TypeOK'
  BY <1>0, <1>2, <1>3 DEF TypeOK
<1>5. LoadedHoldNothing' /\ HeldInGameOnly' /\ LoadedTogether'
  BY <1>0, <1>2 DEF LoadedHoldNothing, HeldInGameOnly, LoadedTogether
<1>6. Staying' \subseteq Staying /\ Staying' \subseteq present' \cap Players
      /\ Staying' \subseteq present
  BY <1>0 DEF Staying, TypeOK
<1>7. \A q, r \in Staying' : UpdateAll[q] = UpdateAll[r]
  BY <1>6, SameUpdate DEF UpdateAll
<1>8. SameHistory'
  BY <1>2, <1>6, <1>7, SameGrowth
<1>. QED  BY <1>4, <1>5, <1>8

LEMMA SendAllActionsIInv ==
    ASSUME IInv, SendAllActions
    PROVE  IInv'
<1>. USE DEF IInv, History
<1>0. /\ gameLoaded /\ updates' = updates + 1 /\ phase' = "players"
      /\ UNCHANGED <<present, deleteMe, loadInGame, proxied, finished, screen, gameLoaded, turn, dropped>>
      /\ SendAll(UpdateAll)
  BY DEF SendAllActions, settings
<1>1. UpdateAll \in [Players -> Seq(Item)]
  BY UpdateTypes
<1>2. /\ seen' \in [Players -> Seq(Item)]
      /\ held' \in [Players -> Seq(Item)]
      /\ \A q \in Players : held[q] = <<>> => held'[q] = <<>>
      /\ \A q \in present' \cap Players : held[q] = <<>> =>
           seen'[q] \o held'[q] = (seen[q] \o held[q]) \o UpdateAll[q]
  BY <1>0, <1>1, SendAllGrows
<1>3. TypeOK'
  BY <1>0, <1>2 DEF TypeOK
<1>4. LoadedHoldNothing' /\ HeldInGameOnly' /\ LoadedTogether'
  BY <1>0, <1>2 DEF LoadedHoldNothing, HeldInGameOnly, LoadedTogether, Staying, TypeOK
<1>5. Staying' \subseteq Staying /\ Staying' \subseteq present' \cap Players
      /\ Staying' \subseteq present /\ \A q \in Staying' : held[q] = <<>>
  BY <1>0 DEF Staying, TypeOK, LoadedTogether, LoadedHoldNothing
<1>6. \A q, r \in Staying' : UpdateAll[q] = UpdateAll[r]
  BY <1>5, SameUpdate DEF UpdateAll
<1>7. \A q \in Staying' : seen'[q] \o held'[q] = (seen[q] \o held[q]) \o UpdateAll[q]
  BY <1>2, <1>5
<1>8. SameHistory'
  BY <1>5, <1>6, <1>7, SameGrowth
<1>. QED  BY <1>3, <1>4, <1>8

-----------------------------------------------------------------------------
(* The check whether everybody has loaded.                                  *)

LEMMA LoadingCheckIInv ==
    ASSUME IInv, NEW drop \in BOOLEAN, LoadingCheck(drop)
    PROVE  IInv'
<1>. USE DEF IInv, History
<1>1. CASE GameLoaded(drop)
  <2>0. /\ FinishedLoading(drop) /\ gameLoaded' = TRUE /\ phase' = "actions"
        /\ UNCHANGED <<loadInGame, proxied, present, finished, held, seen, screen, turn, updates>>
        /\ deleteMe' = (IF drop THEN deleteMe \cup Loading ELSE deleteMe)
        /\ dropped' \subseteq Players
    BY <1>1 DEF GameLoaded, DropLoading, settings, streams, Loading, TypeOK
  \* Who has not loaded when the game is taken as loaded was flagged.
  <2>1. LoadedTogether'
    <3>1. CASE drop
      BY <2>0, <3>1 DEF LoadedTogether, Staying, Loading
    <3>2. CASE ~drop
      <4>1. Loading = {}
        BY <2>0, <3>2 DEF FinishedLoading
      <4>. QED  BY <2>0, <3>2, <4>1 DEF LoadedTogether, Staying, Loading
    <3>. QED  BY <3>1, <3>2
  <2>2. TypeOK'
    BY <2>0 DEF TypeOK, Loading
  <2>3. History'
    BY <2>0, <2>1, QuietStep DEF streams
  <2>. QED  BY <2>2, <2>3
<1>2. CASE StillLoading(drop)
  <2>0. /\ ~gameLoaded /\ phase' = "actions"
        /\ UNCHANGED <<loadInGame, proxied, present, finished, held, seen, screen, gameLoaded, turn, updates>>
        /\ deleteMe' = (IF drop THEN deleteMe \cup Loading ELSE deleteMe)
        /\ dropped' \subseteq Players
    BY <1>2 DEF StillLoading, DropLoading, settings, streams, Loading, TypeOK
  <2>1. TypeOK'
    BY <2>0 DEF TypeOK, Loading
  <2>2. History'
    BY <2>0, QuietStep DEF streams, LoadedTogether
  <2>. QED  BY <2>1, <2>2
<1>3. CASE ResetLagScreen(drop)
  BY <1>3, ResetLagScreenIInv
<1>. QED  BY <1>1, <1>2, <1>3 DEF LoadingCheck

\* Every step keeps the invariant.
LEMMA NextIInv == IInv /\ [Next]_vars => IInv'
<1>. SUFFICES ASSUME IInv, [Next]_vars PROVE IInv'
  OBVIOUS
<1>. USE DEF IInv
<1>1. ASSUME NEW p \in Players, EventPlayerLoaded(p) PROVE IInv'
  BY <1>1, EventPlayerLoadedIInv
<1>2. ASSUME NEW p \in Players, Departs(p) PROVE IInv'
  <2>0. /\ p \in present /\ deleteMe' = deleteMe \cup {p}
        /\ UNCHANGED <<loadInGame, proxied, present, finished, held, seen, screen, gameLoaded, phase, turn, updates, dropped>>
    BY <1>2 DEF Departs, settings, streams, loop
  <2>1. TypeOK'
    BY <2>0 DEF TypeOK
  <2>2. History'
    BY <2>0, QuietStep DEF streams, LoadedTogether, Staying, History
  <2>. QED  BY <2>1, <2>2
<1>3. ASSUME NEW p \in Players, DeletePlayer(p) PROVE IInv'
  BY <1>3, EventPlayerDeletedIInv DEF DeletePlayer, Turn
<1>4. ASSUME NEW p \in Players, KeepPlayer(p) PROVE IInv'
  <2>0. /\ turn' = p
        /\ UNCHANGED <<loadInGame, proxied, present, deleteMe, finished, held, seen, screen, gameLoaded, phase, updates, dropped>>
    BY <1>4 DEF KeepPlayer, settings, streams
  <2>1. TypeOK'
    BY <2>0 DEF TypeOK, Players
  <2>2. History'
    BY <2>0, QuietStep DEF streams, LoadedTogether, Staying, History
  <2>. QED  BY <2>1, <2>2
<1>5. CASE PlayersDone \/ AlreadyLoaded \/ UpdateDone
  <2>0. /\ phase' \in {"players", "loading", "actions"} /\ turn' \in {0, turn}
        /\ UNCHANGED <<loadInGame, proxied, present, deleteMe, finished, held, seen, screen, gameLoaded, updates, dropped>>
    BY <1>5 DEF PlayersDone, AlreadyLoaded, UpdateDone, settings, streams
  <2>1. TypeOK'
    BY <2>0, LoadingAssumption DEF TypeOK
  <2>2. History'
    BY <2>0, QuietStep DEF streams, LoadedTogether, Staying, History
  <2>. QED  BY <2>1, <2>2
<1>6. ASSUME NEW drop \in BOOLEAN, LoadingCheck(drop) PROVE IInv'
  BY <1>6, LoadingCheckIInv
<1>7. CASE SendAllActions
  BY <1>7, SendAllActionsIInv
<1>8. CASE UNCHANGED vars
  <2>0. UNCHANGED <<loadInGame, proxied, present, deleteMe, finished, held, seen, screen, gameLoaded, phase, turn, updates, dropped>>
    BY <1>8 DEF vars, settings, streams, loop
  <2>1. TypeOK'
    BY <2>0 DEF TypeOK
  <2>2. History'
    BY <2>0, QuietStep DEF streams, LoadedTogether, Staying, History
  <2>. QED  BY <2>1, <2>2
<1>. QED  BY <1>1, <1>2, <1>3, <1>4, <1>5, <1>6, <1>7, <1>8 DEF Next

-----------------------------------------------------------------------------

\* Every state of the model has the right types, for games of any size.
THEOREM TypeCorrect == Spec => []TypeOK
<1>1. IInv => TypeOK
  BY DEF IInv
<1>. QED  BY <1>1, InitIInv, NextIInv, PTL DEF Spec

\* All the games that stay are given the same data in the same order, whoever
\* uses GProxy++, loads late or leaves, and whatever was held back for whom.
THEOREM SameData == Spec => []SameHistory
<1>1. IInv => SameHistory
  BY DEF IInv, History
<1>. QED  BY <1>1, InitIInv, NextIInv, PTL DEF Spec

\* The game is not taken as loaded before everybody who stays has loaded,
\* although the last player decides when those who load are dropped.
THEOREM NobodyIsLeftLoading == Spec => []LoadedTogether
<1>1. IInv => LoadedTogether
  BY DEF IInv, History
<1>. QED  BY <1>1, InitIInv, NextIInv, PTL DEF Spec

-----------------------------------------------------------------------------
(* The lag screens: every step keeps Screens, given the types.              *)

LEMMA InitScreens == Init => Screens
BY DEF Init, Screens, ScreensInGame, NoScreensOtherwise

\* A step that touches neither the lag screens nor who is loading.
LEMMA ScreensUntouched ==
    ASSUME Screens, UNCHANGED <<loadInGame, present, finished, screen, gameLoaded>>,
           dropped \subseteq dropped'
    PROVE  Screens'
BY DEF Screens, ScreensInGame, NoScreensOtherwise, Loading

\* Who has loaded sees who is loading, and is removed everywhere else.
LEMMA EventPlayerLoadedScreens ==
    ASSUME TypeOK, Screens, NEW p \in Players, EventPlayerLoaded(p)
    PROVE  Screens'
<1>0. /\ p \in present /\ ~gameLoaded /\ p \notin finished
      /\ finished' = finished \cup {p}
      /\ UNCHANGED <<present, loadInGame, gameLoaded, dropped>>
  BY DEF EventPlayerLoaded, Turn, settings
<1>1. finished \subseteq Players
  BY DEF TypeOK
<1>2. Loading' = Loading \ {p}
  BY <1>0 DEF Loading
<1>3. CASE loadInGame
  <2>1. screen' = [q \in Players |->
                     CASE q = p -> Loading \ {p}
                       [] q # p /\ q \in finished -> screen[q] \ {p}
                       [] OTHER -> screen[q]]
    BY <1>3 DEF EventPlayerLoaded
  <2>2. \A q \in finished : screen[q] = Loading
    BY <1>0, <1>3 DEF Screens, ScreensInGame
  <2>3. screen'[p] = Loading'
    BY <1>2, <2>1
  <2>4. ASSUME NEW q \in finished PROVE screen'[q] = Loading'
    <3>1. q \in Players /\ q # p
      BY <1>0, <1>1
    <3>2. screen'[q] = screen[q] \ {p}
      BY <2>1, <3>1
    <3>. QED  BY <1>2, <2>2, <3>2
  <2>5. \A q \in finished' : screen'[q] = Loading'
    BY <1>0, <2>3, <2>4
  <2>. QED  BY <1>0, <1>3, <2>5 DEF Screens, ScreensInGame, NoScreensOtherwise
<1>4. CASE ~loadInGame
  <2>1. screen' = screen
    BY <1>4 DEF EventPlayerLoaded
  <2>. QED  BY <1>0, <1>4, <2>1 DEF Screens, ScreensInGame, NoScreensOtherwise
<1>. QED  BY <1>3, <1>4

\* Who leaves is removed from the lag screens of those who have loaded.
LEMMA EventPlayerDeletedScreens ==
    ASSUME TypeOK, Screens, NEW p \in present, NEW autoSave \in BOOLEAN,
           EventPlayerDeleted(p, autoSave)
    PROVE  Screens'
<1>0. /\ present' = present \ {p} /\ finished' = finished \ {p}
      /\ UNCHANGED <<loadInGame, gameLoaded, dropped>>
  BY DEF EventPlayerDeleted, settings
<1>1. finished \subseteq Players
  BY DEF TypeOK
<1>2. CASE ~gameLoaded /\ loadInGame
  <2>1. screen' = [q \in Players |-> IF q \in finished THEN screen[q] \ {p} ELSE screen[q]]
    BY <1>2 DEF EventPlayerDeleted
  <2>2. Loading' = Loading \ {p}
    BY <1>0 DEF Loading
  <2>3. ASSUME NEW q \in finished' PROVE screen'[q] = Loading'
    <3>1. q \in finished /\ q \in Players
      BY <1>0, <1>1
    <3>2. screen[q] = Loading
      BY <1>2, <3>1 DEF Screens, ScreensInGame
    <3>3. screen'[q] = screen[q] \ {p}
      BY <2>1, <3>1
    <3>. QED  BY <2>2, <3>2, <3>3
  <2>. QED  BY <1>0, <1>2, <2>3 DEF Screens, ScreensInGame, NoScreensOtherwise
<1>3. CASE ~(~gameLoaded /\ loadInGame)
  <2>1. screen' = screen
    BY <1>3 DEF EventPlayerDeleted
  <2>. QED  BY <1>0, <1>3, <2>1 DEF Screens, ScreensInGame, NoScreensOtherwise
<1>. QED  BY <1>2, <1>3

\* When the game is taken as loaded, only those who were given up are shown.
LEMMA LoadingCheckScreens ==
    ASSUME TypeOK, Screens, NEW drop \in BOOLEAN, LoadingCheck(drop)
    PROVE  Screens'
<1>1. CASE GameLoaded(drop)
  <2>0. /\ FinishedLoading(drop) /\ ~gameLoaded /\ gameLoaded' = TRUE
        /\ UNCHANGED <<loadInGame, present, finished, screen>>
        /\ dropped' = (IF drop THEN dropped \cup Loading ELSE dropped)
    BY <1>1 DEF GameLoaded, DropLoading, settings, streams
  <2>1. Loading \subseteq dropped'
    BY <2>0 DEF FinishedLoading
  <2>. QED  BY <2>0, <2>1 DEF Screens, ScreensInGame, NoScreensOtherwise
<1>2. CASE StillLoading(drop)
  <2>1. /\ UNCHANGED <<loadInGame, present, finished, screen, gameLoaded>>
        /\ dropped \subseteq dropped'
    BY <1>2 DEF StillLoading, DropLoading, settings, streams
  <2>. QED  BY <2>1, ScreensUntouched
<1>3. CASE ResetLagScreen(drop)
  <2>0. /\ ~gameLoaded /\ loadInGame
        /\ UNCHANGED <<loadInGame, present, finished, gameLoaded>>
        /\ screen' = [p \in Players |-> IF p \in finished THEN screen[p] \cup Loading ELSE screen[p]]
    BY <1>3 DEF ResetLagScreen, settings
  <2>1. ASSUME NEW p \in finished PROVE screen'[p] = Loading
    <3>1. p \in Players /\ screen[p] = Loading
      BY <2>0 DEF TypeOK, Screens, ScreensInGame
    <3>. QED  BY <2>0, <3>1
  <2>2. Loading' = Loading
    BY <2>0 DEF Loading
  <2>. QED  BY <2>0, <2>1, <2>2 DEF Screens, ScreensInGame, NoScreensOtherwise
<1>. QED  BY <1>1, <1>2, <1>3 DEF LoadingCheck

LEMMA NextScreens == TypeOK /\ Screens /\ [Next]_vars => Screens'
<1>. SUFFICES ASSUME TypeOK, Screens, [Next]_vars PROVE Screens'
  OBVIOUS
<1>1. ASSUME NEW p \in Players, EventPlayerLoaded(p) PROVE Screens'
  BY <1>1, EventPlayerLoadedScreens
<1>2. ASSUME NEW p \in Players, DeletePlayer(p) PROVE Screens'
  BY <1>2, EventPlayerDeletedScreens DEF DeletePlayer, Turn
<1>3. ASSUME NEW p \in Players, Departs(p) \/ KeepPlayer(p) PROVE Screens'
  BY <1>3, ScreensUntouched DEF Departs, KeepPlayer, settings
<1>4. ASSUME NEW drop \in BOOLEAN, LoadingCheck(drop) PROVE Screens'
  BY <1>4, LoadingCheckScreens
<1>5. CASE PlayersDone \/ AlreadyLoaded \/ SendAllActions \/ UpdateDone
  BY <1>5, ScreensUntouched DEF PlayersDone, AlreadyLoaded, SendAllActions, UpdateDone, settings
<1>6. CASE UNCHANGED vars
  BY <1>6, ScreensUntouched DEF vars, settings
<1>. QED  BY <1>1, <1>2, <1>3, <1>4, <1>5, <1>6 DEF Next

\* For games of any size: a player who has loaded sees on the lag screen
\* exactly those who are still loading, however players load, leave, are given
\* up and are shown again in between.
THEOREM ScreensAreRight == Spec => []ScreenIsRight
<1>1. TypeOK /\ Screens => ScreenIsRight
  <2>. SUFFICES ASSUME TypeOK, Screens, NEW p \in Staying \cap finished
                PROVE  screen[p] \ dropped = (IF loadInGame /\ ~gameLoaded THEN Loading ELSE {}) \ dropped
    BY DEF ScreenIsRight
  <2>1. p \in Players
    BY DEF TypeOK
  <2>. QED  BY <2>1 DEF Screens, ScreensInGame, NoScreensOtherwise
<1>2. Init => TypeOK /\ Screens
  BY InitIInv, InitScreens DEF IInv
<1>3. IInv /\ Screens /\ [Next]_vars => IInv' /\ Screens'
  BY NextIInv, NextScreens DEF IInv
<1>4. IInv => TypeOK
  BY DEF IInv
<1>. QED  BY <1>1, <1>2, <1>3, <1>4, InitIInv, PTL DEF Spec

=============================================================================
