------------------------------- MODULE Lobby -------------------------------
(***************************************************************************)
(* The lobby of a hosted game (CBaseGame before EventGameStarted): the      *)
(* players in m_Players, the slots of the map, the fake players, the        *)
(* virtual host player, and what every client has been told about them.     *)
(*                                                                          *)
(* One thread runs CBaseGame::Update in a loop and everything here happens  *)
(* inside it, but an Update is not atomic for the lobby: it runs the        *)
(* database checks, then every player in the order they joined (and the     *)
(* packets of one player change what the next one finds), then the joining  *)
(* connections, then the chores (virtual host, announcer commands, auto     *)
(* start, countdown).  A player is kicked by a flag, m_DeleteMe, and is     *)
(* removed only when its own turn comes, so there is always a window in     *)
(* which a player is gone for one part of the code and present for another. *)
(*                                                                          *)
(* Left out: teams (BalanceSlots has their balancing) and colours, saved    *)
(* games and league games (slots fixed by a file or a database), map        *)
(* download percentages (which displaced player is chosen is a free         *)
(* choice), the kick of nine connections from one IP.                       *)
(***************************************************************************)
EXTENDS Integers, FiniteSets, FiniteSetsExt

CONSTANTS
  NumSlots,     \* the slots of the map, m_Slots.size()
  MaxJoins,     \* bound: how many players ever join
  MaxFakes,     \* bound: how many fake players at a time
  CountFrom,    \* the first value of m_CountDownCounter (5 or 10 in the code)
  Kinds         \* who joins: "plain", "reserved", "owner"

ASSUME LobbyAssumption ==
  /\ NumSlots \in Nat \ {0}
  /\ MaxJoins \in Nat
  /\ MaxFakes \in Nat
  /\ MaxJoins + MaxFakes < 253
  /\ CountFrom \in Nat
  /\ Kinds \subseteq {"plain", "reserved", "owner"}

VARIABLES
  present,      \* m_Players: players are numbered, and kept, in the order they join
  pidOf,        \* m_PID
  kindOf,       \* m_Reserved, and whether it is the owner of the game
  deleteMe,     \* the players whose m_DeleteMe is set
  leftSent,     \* the players whose m_LeftMessageSent is set
  slots,        \* m_Slots
  fakes,        \* the PIDs of m_FakePlayers
  vhost,        \* m_VirtualHostPID
  roster,       \* the PIDs each client has been told about and not told have left
  phase,        \* the part of CBaseGame::Update that is running
  turn,         \* in phase "players", the players up to this one have been updated
  joined,       \* how many players have joined so far
  countDown,    \* m_CountDownStarted
  counter,      \* m_CountDownCounter
  counted,      \* history: who was in the game when the running countdown started
  gameLoading   \* m_GameLoading

playerVars == <<present, pidOf, kindOf, deleteMe, leftSent>>
clockVars  == <<countDown, counter, counted>>
loopVars   == <<phase, turn, joined, gameLoading>>

vars == <<playerVars, slots, fakes, vhost, roster, clockVars, loopVars>>

----------------------------------------------------------------------------
(* Data.                                                                    *)

NoPID == 255
PIDs  == 1..254
SIDs  == 1..NumSlots
Ids   == 1..MaxJoins

Open       == [status |-> "open",     pid |-> 0, computer |-> FALSE]
Closed     == [status |-> "closed",   pid |-> 0, computer |-> FALSE]
Computer   == [status |-> "occupied", pid |-> 0, computer |-> TRUE]
Human(pid) == [status |-> "occupied", pid |-> pid, computer |-> FALSE]

Slot == {Open, Closed, Computer} \cup {Human(pid) : pid \in PIDs \cup {NoPID}}

\* The players the clients still know: m_LeftMessageSent is not set.
Staying == present \ leftSent

\* GetPlayerFromSID: nobody when the slot holds no player, or a fake one.
PlayersInSlot(s) == {i \in Staying : pidOf[i] = slots[s].pid}

SlotsWith(status) == {s \in SIDs : slots[s].status = status}

GetSlotsAllocated == Max({Cardinality(present), Cardinality(SlotsWith("occupied"))})

\* Mutant: the fake players are not looked at.
GetNewPIDIgnoringFakes(used) ==
  CHOOSE pid \in PIDs : pid \notin used \ fakes /\ \A q \in PIDs : q < pid => q \in used \ fakes

\* GetNewPID: the lowest PID that is not used, 255 when all are.
GetNewPID(used) ==
  IF PIDs \subseteq used THEN NoPID
  ELSE CHOOSE pid \in PIDs : pid \notin used /\ \A q \in PIDs : q < pid => q \in used

PIDsOf(ids) == {pidOf[i] : i \in ids}

\* The PID of the virtual host, if there is one.
HostPIDs(host) == {host} \ {NoPID}

\* OpenSlot, CloseSlot and ComputerSlot, on the slot alone.
WithSlot(s, value) == [slots EXCEPT ![s] = value]

\* OpenSlot(GetSIDFromPID(pid)): the first slot with this PID, if there is one.
OpenSlotOf(pid) ==
  LET mine == {s \in SIDs : slots[s].pid = pid}
  IN IF mine = {} THEN slots ELSE WithSlot(Min(mine), Open)

\* SendAll: every connection in m_Players is told that some leave, some are new.
Told(gone, new) ==
  [i \in Ids |-> IF i \in present THEN (roster[i] \ gone) \cup new ELSE roster[i]]

\* Mutant: the slot is forgotten.
DropKeepingSlot(i) ==
  /\ deleteMe' = deleteMe \cup {i}
  /\ UNCHANGED <<present, pidOf, kindOf, leftSent, slots, fakes, vhost, roster, clockVars, loopVars>>

\* A player is flagged and the slot with its PID is opened.
Drop(i) ==
  /\ deleteMe' = deleteMe \cup {i}
  /\ slots' = OpenSlotOf(pidOf[i])
  /\ UNCHANGED <<present, pidOf, kindOf, leftSent, fakes, vhost, roster, clockVars, loopVars>>

In(p) == phase = p /\ ~gameLoading

\* Players whose Update is still to come; the first of them is having its turn.
Waiting == {i \in present : i > turn}

Acting(i) == In("players") /\ Waiting # {} /\ i = Min(Waiting)

----------------------------------------------------------------------------

TypeOK ==
  /\ present \subseteq Ids
  /\ pidOf \in [Ids -> PIDs \cup {0, NoPID}]
  /\ kindOf \in [Ids -> Kinds \cup {"none"}]
  /\ deleteMe \subseteq present
  /\ leftSent \subseteq deleteMe
  /\ slots \in [SIDs -> Slot]
  /\ fakes \subseteq PIDs \cup {NoPID}
  /\ vhost \in PIDs \cup {NoPID}
  /\ roster \in [Ids -> SUBSET (PIDs \cup {NoPID})]
  /\ phase \in {"checks", "players", "joins", "chores"}
  /\ turn \in 0..MaxJoins
  /\ joined \in 0..MaxJoins
  /\ countDown \in BOOLEAN
  /\ counter \in 0..CountFrom
  /\ counted \subseteq Ids
  /\ gameLoading \in BOOLEAN

Init ==
  /\ present = {} /\ deleteMe = {} /\ leftSent = {}
  /\ pidOf = [i \in Ids |-> 0]
  /\ kindOf = [i \in Ids |-> "none"]
  /\ slots = [s \in SIDs |-> Open]
  /\ fakes = {}
  /\ vhost = NoPID
  /\ roster = [i \in Ids |-> {}]
  /\ phase = "checks" /\ turn = 0 /\ joined = 0 /\ gameLoading = FALSE
  /\ countDown = FALSE /\ counter = 0 /\ counted = {}

----------------------------------------------------------------------------
(* The database checks that come first in an Update.                        *)

\* The session check of a player failed.  It is found by name, in all of m_Players.
ConnectCheckFails(i) ==
  /\ In("checks")
  /\ Drop(i)

ChecksDone ==
  /\ In("checks")
  /\ phase' = "players"
  /\ UNCHANGED <<playerVars, slots, fakes, vhost, roster, clockVars, turn, joined, gameLoading>>

----------------------------------------------------------------------------
(* The Update of one player: its timeouts and its packets.                  *)

\* The player left (LEAVEGAME) or was given up by a timeout.
Departs(i) ==
  /\ Acting(i)
  /\ Drop(i)

\* !kick: the name search skips those whose leave message was sent.
Kick(i, victim) ==
  /\ Acting(i)
  /\ Drop(victim)

\* Mutant: the slot is taken and its player stays.
SetSlotWithoutKick(i, s, value) ==
  /\ Acting(i)
  /\ slots' = WithSlot(s, value)
  /\ UNCHANGED <<playerVars, fakes, vhost, roster, clockVars, loopVars>>

\* !open, !close and !comp: whoever is in the slot is kicked; a fake player is
\* removed at once.
SetSlot(i, s, value) ==
  LET fake == IF PlayersInSlot(s) = {} THEN fakes \cap {slots[s].pid} ELSE {}
  IN /\ Acting(i)
     /\ deleteMe' = deleteMe \cup PlayersInSlot(s)
     /\ fakes' = fakes \ fake
     /\ roster' = Told(fake, {})
     /\ slots' = WithSlot(s, value)
     /\ UNCHANGED <<present, pidOf, kindOf, leftSent, vhost, clockVars, loopVars>>

\* !openall and !closeall.
SetAllSlots(i, from, value) ==
  /\ Acting(i)
  /\ slots' = [s \in SIDs |-> IF slots[s] = from THEN value ELSE slots[s]]
  /\ UNCHANGED <<playerVars, fakes, vhost, roster, clockVars, loopVars>>

\* !swap, and a player moving to an open slot of another team; !sp is a series
\* of swaps.
SwapSlots(i, s, t) ==
  /\ Acting(i)
  /\ s # t
  /\ slots' = [slots EXCEPT ![s] = slots[t], ![t] = slots[s]]
  /\ UNCHANGED <<playerVars, fakes, vhost, roster, clockVars, loopVars>>

\* !fakeplayer: the PID is taken before the virtual host makes room.
CreateFakePlayer(i) ==
  LET pid  == GetNewPID({vhost} \cup fakes \cup PIDsOf(Staying))
      host == IF GetSlotsAllocated >= NumSlots - 1 THEN NoPID ELSE vhost
  IN /\ Acting(i)
     /\ ~countDown
     /\ Cardinality(fakes) < MaxFakes
     /\ SlotsWith("open") # {}
     /\ fakes' = fakes \cup {pid}
     /\ vhost' = host
     /\ roster' = Told(HostPIDs(vhost) \ HostPIDs(host), {pid})
     /\ slots' = WithSlot(Min(SlotsWith("open")), Human(pid))
     /\ UNCHANGED <<playerVars, clockVars, loopVars>>

DeleteFakePlayer(i) ==
  /\ Acting(i)
  /\ ~countDown
  /\ fakes # {}
  /\ slots' = [s \in SIDs |-> IF slots[s].pid \in fakes THEN Open ELSE slots[s]]
  /\ roster' = Told(fakes, {})
  /\ fakes' = {}
  /\ UNCHANGED <<playerVars, vhost, clockVars, loopVars>>

StartsCountDown ==
  /\ ~countDown
  /\ countDown' = TRUE
  /\ counter' = CountFrom
  /\ counted' = Staying
  /\ UNCHANGED <<playerVars, slots, fakes, vhost, roster, loopVars>>

AbortsCountDown ==
  /\ countDown' = FALSE
  /\ counted' = {}
  /\ UNCHANGED counter

\* !start force, or !start when its conditions hold.
StartCountDown(i) ==
  /\ Acting(i)
  /\ StartsCountDown

\* !abort
Abort(i) ==
  /\ Acting(i)
  /\ countDown
  /\ AbortsCountDown
  /\ UNCHANGED <<playerVars, slots, fakes, vhost, roster, loopVars>>

Command(i) ==
  \/ \E victim \in Staying : Kick(i, victim)
  \/ \E s \in SIDs, value \in {Open, Closed, Computer} : SetSlot(i, s, value)
  \/ SetAllSlots(i, Closed, Open)
  \/ SetAllSlots(i, Open, Closed)
  \/ \E s, t \in SIDs : s < t /\ SwapSlots(i, s, t)
  \/ CreateFakePlayer(i)
  \/ DeleteFakePlayer(i)
  \/ StartCountDown(i)
  \/ Abort(i)

\* What both the code and its mutants do to m_Players.
Erased(i) ==
  /\ present' = present \ {i}
  /\ deleteMe' = deleteMe \ {i}
  /\ leftSent' = leftSent \ {i}
  /\ pidOf' = [pidOf EXCEPT ![i] = 0]
  /\ kindOf' = [kindOf EXCEPT ![i] = "none"]

\* Mutant: the leave message is sent again.
EventPlayerDeletedTwice(i) ==
  /\ Erased(i)
  /\ roster' = [Told({pidOf[i]}, {}) EXCEPT ![i] = {}]
  /\ AbortsCountDown

\* Mutant: a player who leaves does not abort the countdown.
EventPlayerDeletedQuietly(i) ==
  /\ Erased(i)
  /\ roster' = [(IF i \in leftSent THEN roster ELSE Told({pidOf[i]}, {})) EXCEPT ![i] = {}]
  /\ UNCHANGED clockVars

\* EventPlayerDeleted and the erase from m_Players.  When the leave message
\* went out early the rest of EventPlayerDeleted is skipped.
EventPlayerDeleted(i) ==
  /\ Erased(i)
  /\ IF i \in leftSent
     THEN /\ roster' = [roster EXCEPT ![i] = {}]
          /\ UNCHANGED clockVars
     ELSE /\ roster' = [Told({pidOf[i]}, {}) EXCEPT ![i] = {}]
          /\ AbortsCountDown

\* The end of the player's Update: it stays, or it is deleted because it is
\* flagged, or it is deleted because its connection is broken or closed.
KeepPlayer(i) ==
  /\ Acting(i)
  /\ i \notin deleteMe
  /\ turn' = i
  /\ UNCHANGED <<playerVars, slots, fakes, vhost, roster, clockVars, phase, joined, gameLoading>>

DeletePlayer(i) ==
  /\ Acting(i)
  /\ i \in deleteMe
  /\ EventPlayerDeleted(i)
  /\ UNCHANGED <<slots, fakes, vhost, loopVars>>

LosePlayer(i) ==
  /\ Acting(i)
  /\ slots' = OpenSlotOf(pidOf[i])
  /\ EventPlayerDeleted(i)
  /\ UNCHANGED <<fakes, vhost, loopVars>>

PlayersDone ==
  /\ In("players")
  /\ Waiting = {}
  /\ phase' = "joins" /\ turn' = 0
  /\ UNCHANGED <<playerVars, slots, fakes, vhost, roster, clockVars, joined, gameLoading>>

----------------------------------------------------------------------------
(* The connections that ask to join.                                        *)

Displaceable == {s \in SIDs : \E i \in PlayersInSlot(s) : kindOf[i] = "plain"}

OwnerSlots == {s \in SlotsWith("occupied") : ~slots[s].computer}

\* The slots a new player may be given: an open one; for a reserved player a
\* closed one, else one of a player without a reservation; for the owner the
\* first slot that is not a computer's, else the first slot.
SlotsFor(kind) ==
  IF SlotsWith("open") # {} THEN {Min(SlotsWith("open"))}
  ELSE IF kind = "plain" THEN {}
  ELSE IF SlotsWith("closed") # {} THEN {Min(SlotsWith("closed"))}
  ELSE IF Displaceable # {} THEN Displaceable
  ELSE IF kind = "reserved" THEN {}
  ELSE IF OwnerSlots # {} THEN {Min(OwnerSlots)}
  ELSE {1}

\* EventPlayerJoined: whoever is in the chosen slot is kicked and everybody is
\* told so at once; the virtual host makes room when this could be the last
\* slot; the new player takes a PID and the slot, and aborts a countdown.
EventPlayerJoined(kind, s) ==
  LET id     == joined + 1
      kicked == PlayersInSlot(s)
      others == Staying \ kicked
      host   == IF GetSlotsAllocated >= NumSlots - 1 THEN NoPID ELSE vhost
      pid    == GetNewPID({host} \cup fakes \cup PIDsOf(others))
      gone   == PIDsOf(kicked) \cup (HostPIDs(vhost) \ HostPIDs(host))
  IN /\ joined' = id
     /\ present' = present \cup {id}
     /\ pidOf' = [pidOf EXCEPT ![id] = pid]
     /\ kindOf' = [kindOf EXCEPT ![id] = kind]
     /\ deleteMe' = deleteMe \cup kicked
     /\ leftSent' = leftSent \cup kicked
     /\ vhost' = host
     /\ slots' = WithSlot(s, Human(pid))
     /\ roster' = [i \in Ids |->
                     CASE i = id        -> HostPIDs(host) \cup fakes \cup PIDsOf(others)
                       [] i \in others  -> (roster[i] \ gone) \cup {pid}
                       [] i \in present \ others -> roster[i] \ gone
                       [] OTHER         -> roster[i]]
     /\ AbortsCountDown

\* A name that is in the game cannot join again, so there is one owner at most.
Join(kind, s) ==
  /\ In("joins")
  /\ joined < MaxJoins
  /\ kind = "owner" => \A i \in Staying : kindOf[i] # "owner"
  /\ EventPlayerJoined(kind, s)
  /\ UNCHANGED <<fakes, phase, turn, gameLoading>>

\* When all connections are served the virtual host is created if there is room.
CreateVirtualHost ==
  LET host == IF vhost = NoPID /\ GetSlotsAllocated < NumSlots
              THEN GetNewPID({vhost} \cup fakes \cup PIDsOf(Staying)) ELSE vhost
  IN /\ In("joins")
     /\ vhost' = host
     /\ roster' = Told({}, HostPIDs(host) \ HostPIDs(vhost))
     /\ phase' = "chores"
     /\ UNCHANGED <<playerVars, slots, fakes, clockVars, turn, joined, gameLoading>>

----------------------------------------------------------------------------
(* The rest of an Update.                                                   *)

\* The "/kick" of the announcer, found by name.
AnnounceKick(i) ==
  /\ In("chores")
  /\ Drop(i)

\* The kick of a player who has not spoof checked: not during a countdown, and
\* in all of m_Players.
SpoofKick(i) ==
  /\ In("chores")
  /\ ~countDown
  /\ Drop(i)

StartCountDownAuto ==
  /\ In("chores")
  /\ Staying # {}
  /\ StartsCountDown

NextUpdate ==
  /\ phase' = "checks"
  /\ UNCHANGED <<playerVars, slots, fakes, countDown, counted, turn, joined>>

UpdateDone ==
  /\ In("chores")
  /\ NextUpdate
  /\ UNCHANGED <<vhost, roster, counter, gameLoading>>

\* Mutant: the number 0 is counted too.
CountDownTickPastZero ==
  /\ In("chores")
  /\ countDown
  /\ counter' = counter - 1
  /\ NextUpdate
  /\ UNCHANGED <<vhost, roster, gameLoading>>

\* Mutant: the counter is not decremented.
CountDownTickStuck ==
  /\ In("chores")
  /\ countDown /\ counter > 0
  /\ NextUpdate
  /\ UNCHANGED <<vhost, roster, counter, gameLoading>>

\* 500 ms have passed since the last number of the countdown.
CountDownTick ==
  /\ In("chores")
  /\ countDown /\ counter > 0
  /\ counter' = counter - 1
  /\ NextUpdate
  /\ UNCHANGED <<vhost, roster, gameLoading>>

\* The virtual host leaves and nobody joins any more.
EventGameStarted ==
  /\ In("chores")
  /\ countDown /\ counter = 0
  /\ gameLoading' = TRUE
  /\ vhost' = NoPID
  /\ roster' = Told(HostPIDs(vhost), {})
  /\ NextUpdate
  /\ UNCHANGED counter

PlayerTurn(i) == KeepPlayer(i) \/ DeletePlayer(i) \/ LosePlayer(i)

Next ==
  \/ \E i \in present : ConnectCheckFails(i) \/ Departs(i) \/ Command(i) \/ PlayerTurn(i) \/ SpoofKick(i)
  \/ \E i \in Staying : AnnounceKick(i)
  \/ \E kind \in Kinds : \E s \in SlotsFor(kind) : Join(kind, s)
  \/ ChecksDone
  \/ PlayersDone
  \/ CreateVirtualHost
  \/ StartCountDownAuto
  \/ UpdateDone
  \/ CountDownTick
  \/ EventGameStarted

Spec == Init /\ [][Next]_vars

----------------------------------------------------------------------------
(* Properties.                                                              *)

\* GetNewPID finds an unused PID: no two of the players that stay, the fake
\* players and the virtual host ever share one, although the PID of a displaced
\* player is given away while that player is still in m_Players.
PIDsDistinct ==
  /\ \A i, j \in Staying : pidOf[i] = pidOf[j] => i = j
  /\ \A i \in Staying : pidOf[i] \notin fakes \cup {vhost}
  /\ vhost \notin fakes

\* Every slot a human is in belongs to a player that is not being removed or to
\* a fake player, and nobody has two slots.
SlotsHaveOwners ==
  /\ \A s \in OwnerSlots : slots[s].pid \in PIDsOf(Staying \ deleteMe) \cup fakes
  /\ \A s, t \in OwnerSlots : slots[s].pid = slots[t].pid => s = t

\* Every player that is not being removed, and every fake player, has a slot.
PlayersHaveSlots ==
  \A pid \in PIDsOf(Staying \ deleteMe) \cup fakes : \E s \in OwnerSlots : slots[s].pid = pid

Seated(i) == \E s \in OwnerSlots : slots[s].pid = pidOf[i]

\* A player with a slot keeps it until it is removed or displaced: no join, command, move or
\* removal of somebody else takes it, except while a displaced player who had the same PID
\* is still in m_Players.
PlayersKeepSlots ==
  [][\A i \in Staying : Seated(i) /\ ~Seated(i)' =>
       \/ i \notin present' \ (leftSent' \cup deleteMe')
       \/ \E j \in present : j # i /\ pidOf[j] = pidOf[i]]_vars

\* Each client that stays has been told about exactly the other players that
\* stay, the fake players and the virtual host, whatever joined, left, was
\* kicked or displaced in whatever order.
RosterIsRight ==
  \A i \in Staying :
    roster[i] = PIDsOf(Staying \ {i}) \cup fakes \cup HostPIDs(vhost)

\* The game starts with the players that were there when the countdown started:
\* joining and leaving abort it.
CountDownIsHonest == [][EventGameStarted => counted = Staying]_vars

----------------------------------------------------------------------------
(* Fairness: the thread calls Update again and again and every loop in it    *)
(* ends, and time passes, so a running countdown is due again and again.     *)

Fairness ==
  /\ WF_vars(ChecksDone) /\ WF_vars(PlayersDone) /\ WF_vars(CreateVirtualHost) /\ WF_vars(UpdateDone)
  /\ \A i \in Ids : WF_vars(PlayerTurn(i))
  /\ SF_vars(CountDownTick) /\ SF_vars(EventGameStarted)

FairSpec == Spec /\ Fairness

\* A player that is flagged does not linger in m_Players.
FlaggedAreDeleted ==
  \A i \in Ids : (i \in deleteMe) ~> (i \notin present \/ gameLoading)

\* A countdown ends: the game starts or the countdown is aborted.
CountDownEnds == countDown ~> (gameLoading \/ ~countDown)

\* The lobby gets around to both, whatever else happens in the rounds of Update.
LobbyMovesOn == FlaggedAreDeleted /\ CountDownEnds

=============================================================================
