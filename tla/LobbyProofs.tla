----------------------------- MODULE LobbyProofs -----------------------------
(***************************************************************************)
(* What holds of the lobby for every map, every number of players and fake *)
(* players within the bounds, and every mix of reservations: the PIDs are  *)
(* distinct, every client knows exactly who is there, who has a slot keeps *)
(* it, and a game starts with those its countdown was started with.        *)
(*                                                                         *)
(* Then the balancing of the teams, which happens in the lobby when the    *)
(* last player has joined, for every layout and all scores: nobody is lost *)
(* over it, the best player of each team comes first, and equal teams      *)
(* differ as little as they can.                                           *)
(***************************************************************************)
EXTENDS Lobby, BalanceSlots, FiniteSetTheorems, SequenceTheorems, TLAPS

-----------------------------------------------------------------------------
(* The inductive invariant.  GetNewPID finds a free PID only while there is *)
(* one, so the players and the fake players are counted; a leave message    *)
(* takes a PID off the clients' lists, so it must not be somebody else's.   *)

\* Nobody is numbered before joining, and who is in the game has a real PID.
PlayersHavePIDs ==
    /\ present \subseteq 1 .. joined
    /\ \A i \in present : pidOf[i] \in PIDs

FakesAreFew ==
    /\ fakes \subseteq PIDs
    /\ IsFiniteSet(fakes)
    /\ Cardinality(fakes) <= MaxFakes

People == PlayersHavePIDs /\ FakesAreFew /\ PIDsDistinct /\ RosterIsRight

IInv == TypeOK /\ People

-----------------------------------------------------------------------------
(* Lemmas about the operators of the model.                                 *)

\* A set of natural numbers that has a member has a smallest one.
LEMMA SmallestMember ==
    ASSUME NEW S \in SUBSET Nat, S # {}
    PROVE  \E n \in S : \A k \in S : n <= k
<1>. DEFINE less == {ss \in Nat \X Nat : ss[1] < ss[2]}
<1>1. IsWellFoundedOn(less, Nat)
  BY NatLessThanWellFounded DEF OpToRel
<1>2. \E x \in S : \A y \in S : ~ (<<y, x>> \in less)
  <2>. HIDE DEF less
  <2>. QED  BY <1>1, WFMin
<1>3. PICK x \in S : \A y \in S : ~ (<<y, x>> \in less)
  BY <1>2
<1>4. ASSUME NEW y \in S PROVE x <= y
  <2>1. x \in Nat /\ y \in Nat /\ ~ (y < x)
    BY <1>3
  <2>. QED  BY <2>1
<1>. QED  BY <1>4

\* GetNewPID finds a free PID when fewer than all of them are used.
LEMMA NewPIDIsFree ==
    ASSUME NEW used, IsFiniteSet(used), Cardinality(used) < 254
    PROVE  GetNewPID(used) \in PIDs /\ GetNewPID(used) \notin used
<1>1. ~ (PIDs \subseteq used)
  <2>1. Cardinality(PIDs) = 254
    <3>1. 1 \in Int /\ 254 \in Int
      OBVIOUS
    <3>2. Cardinality(1 .. 254) = IF 1 > 254 THEN 0 ELSE 254 - 1 + 1
      BY <3>1, FS_Interval
    <3>. QED  BY <3>2 DEF PIDs
  <2>2. ASSUME PIDs \subseteq used PROVE FALSE
    <3>1. Cardinality(PIDs) <= Cardinality(used)
      BY <2>2, FS_Subset
    <3>2. Cardinality(used) \in Nat
      BY FS_CardinalityType
    <3>. QED  BY <2>1, <3>1, <3>2
  <2>. QED  BY <2>2
<1>2. PIDs \ used \in SUBSET Nat /\ PIDs \ used # {}
  BY <1>1 DEF PIDs
<1>3. PICK n \in PIDs \ used : \A k \in PIDs \ used : n <= k
  BY <1>2, SmallestMember
<1>4. n \in PIDs /\ n \notin used /\ \A q \in PIDs : q < n => q \in used
  BY <1>3 DEF PIDs
<1>5. GetNewPID(used)
        = CHOOSE pid \in PIDs : pid \notin used /\ \A q \in PIDs : q < pid => q \in used
  BY <1>1 DEF GetNewPID
<1>. QED  BY <1>4, <1>5

\* Players have at most as many PIDs as there are players.
LEMMA FewPIDs ==
    ASSUME TypeOK, NEW S \in SUBSET Ids
    PROVE  IsFiniteSet(PIDsOf(S)) /\ Cardinality(PIDsOf(S)) <= MaxJoins
<1>1. IsFiniteSet(Ids) /\ Cardinality(Ids) = MaxJoins
  BY FS_Interval, LobbyAssumption DEF Ids
<1>2. IsFiniteSet(S) /\ Cardinality(S) <= MaxJoins
  BY <1>1, FS_Subset
<1>. DEFINE f == [i \in S |-> pidOf[i]]
<1>3. f \in Surjection(S, PIDsOf(S))
  BY DEF Surjection, PIDsOf
<1>4. IsFiniteSet(PIDsOf(S)) /\ Cardinality(PIDsOf(S)) <= Cardinality(S)
  BY <1>2, <1>3, FS_Surjection
<1>5. Cardinality(S) \in Nat /\ Cardinality(PIDsOf(S)) \in Nat
  BY <1>2, <1>4, FS_CardinalityType
<1>. QED  BY <1>2, <1>4, <1>5, LobbyAssumption

\* The PIDs in use never exhaust those there are.
LEMMA FewUsed ==
    ASSUME TypeOK, FakesAreFew, NEW S \in SUBSET Ids, NEW host
    PROVE  LET used == {host} \cup fakes \cup PIDsOf(S)
           IN  GetNewPID(used) \in PIDs /\ GetNewPID(used) \notin used
<1>1. IsFiniteSet(PIDsOf(S)) /\ Cardinality(PIDsOf(S)) <= MaxJoins
  BY FewPIDs
<1>2. IsFiniteSet({host}) /\ Cardinality({host}) = 1
  BY FS_Singleton
<1>3. /\ IsFiniteSet({host} \cup fakes)
      /\ Cardinality({host} \cup fakes) <= 1 + MaxFakes
  <2>1. IsFiniteSet({host} \cup fakes) /\ IsFiniteSet({host} \cap fakes)
    BY <1>2, FS_Union, FS_Intersection DEF FakesAreFew
  <2>2. Cardinality({host} \cup fakes)
          = Cardinality({host}) + Cardinality(fakes) - Cardinality({host} \cap fakes)
    BY <1>2, FS_Union DEF FakesAreFew
  <2>3. Cardinality(fakes) \in Nat /\ Cardinality({host} \cap fakes) \in Nat
    BY <2>1, FS_CardinalityType DEF FakesAreFew
  <2>. QED  BY <1>2, <2>1, <2>2, <2>3, LobbyAssumption DEF FakesAreFew
<1>. DEFINE base == {host} \cup fakes
            used == base \cup PIDsOf(S)
<1>4. IsFiniteSet(used) /\ Cardinality(used) < 254
  <2>1. /\ IsFiniteSet(used)
        /\ Cardinality(used) = Cardinality(base) + Cardinality(PIDsOf(S)) - Cardinality(base \cap PIDsOf(S))
    BY <1>1, <1>3, FS_Union
  <2>2. IsFiniteSet(base \cap PIDsOf(S))
    BY <1>3, FS_Intersection
  <2>3. /\ Cardinality(base) \in Nat
        /\ Cardinality(PIDsOf(S)) \in Nat
        /\ Cardinality(base \cap PIDsOf(S)) \in Nat
    BY <1>1, <1>3, <2>2, FS_CardinalityType
  <2>. HIDE DEF used, base
  <2>4. Cardinality(base) <= 1 + MaxFakes
    BY <1>3 DEF base
  <2>. QED  BY <1>1, <2>1, <2>3, <2>4, LobbyAssumption
<1>. QED  BY <1>4, NewPIDIsFree

\* The slot functions of the model give slots.
LEMMA SlotTypes ==
    ASSUME TypeOK
    PROVE  /\ {Open, Closed, Computer} \subseteq Slot
           /\ \A pid \in PIDs \cup {NoPID} : Human(pid) \in Slot
           /\ \A s : \A value \in Slot : WithSlot(s, value) \in [SIDs -> Slot]
           /\ \A pid : OpenSlotOf(pid) \in [SIDs -> Slot]
<1>1. {Open, Closed, Computer} \subseteq Slot /\ \A pid \in PIDs \cup {NoPID} : Human(pid) \in Slot
  BY DEF Slot
<1>2. slots \in [SIDs -> Slot]
  BY DEF TypeOK
<1>3. \A s : \A value \in Slot : WithSlot(s, value) \in [SIDs -> Slot]
  BY <1>2 DEF WithSlot
<1>4. ASSUME NEW pid PROVE OpenSlotOf(pid) \in [SIDs -> Slot]
  <2>. DEFINE mine == {s \in SIDs : slots[s].pid = pid}
  <2>1. OpenSlotOf(pid) = IF mine = {} THEN slots ELSE WithSlot(Min(mine), Open)
    BY DEF OpenSlotOf
  <2>2. WithSlot(Min(mine), Open) \in [SIDs -> Slot]
    BY <1>1, <1>3
  <2>. QED  BY <1>2, <2>1, <2>2
<1>. QED  BY <1>1, <1>3, <1>4

\* Telling the clients keeps their lists typed.
LEMMA ToldType ==
    ASSUME TypeOK, NEW gone, NEW new \in SUBSET (PIDs \cup {NoPID})
    PROVE  /\ Told(gone, new) \in [Ids -> SUBSET (PIDs \cup {NoPID})]
           /\ \A i \in present : Told(gone, new)[i] = (roster[i] \ gone) \cup new
<1>1. roster \in [Ids -> SUBSET (PIDs \cup {NoPID})] /\ present \subseteq Ids
  BY DEF TypeOK
<1>2. \A i \in Ids : Told(gone, new)[i]
                       = IF i \in present THEN (roster[i] \ gone) \cup new ELSE roster[i]
  BY DEF Told
<1>3. \A i \in Ids : Told(gone, new)[i] \in SUBSET (PIDs \cup {NoPID})
  BY <1>1, <1>2
<1>4. Told(gone, new) \in [Ids -> SUBSET (PIDs \cup {NoPID})]
  BY <1>3 DEF Told
<1>. QED  BY <1>1, <1>2, <1>4

\* What is on a client's list: other players, fake players, the virtual host.
Knows(i, p) ==
    \/ \E j \in Staying : j # i /\ pidOf[j] = p
    \/ p \in fakes
    \/ p = vhost /\ p # NoPID

LEMMA RosterMembers ==
    RosterIsRight <=> \A i \in Staying : \A p : p \in roster[i] <=> Knows(i, p)
<1>1. ASSUME NEW i \in Staying
      PROVE  (roster[i] = PIDsOf(Staying \ {i}) \cup fakes \cup HostPIDs(vhost))
               <=> \A p : p \in roster[i] <=> Knows(i, p)
  <2>1. \A p : p \in PIDsOf(Staying \ {i}) \cup fakes \cup HostPIDs(vhost) <=> Knows(i, p)
    BY DEF PIDsOf, HostPIDs, Knows
  <2>2. (roster[i] = PIDsOf(Staying \ {i}) \cup fakes \cup HostPIDs(vhost))
          <=> \A p : p \in roster[i] <=> p \in PIDsOf(Staying \ {i}) \cup fakes \cup HostPIDs(vhost)
    OBVIOUS
  <2>. QED  BY <2>1, <2>2, Zenon
<1>. QED  BY <1>1 DEF RosterIsRight

\* The same after a step.
LEMMA RosterMembersNext ==
    RosterIsRight' <=> \A i \in Staying' : \A p : p \in roster'[i] <=> Knows(i, p)'
<1>1. ASSUME NEW i \in Staying'
      PROVE  (roster'[i] = (PIDsOf(Staying \ {i}) \cup fakes \cup HostPIDs(vhost))')
               <=> \A p : p \in roster'[i] <=> Knows(i, p)'
  <2>1. \A p : p \in (PIDsOf(Staying \ {i}) \cup fakes \cup HostPIDs(vhost))' <=> Knows(i, p)'
    BY DEF PIDsOf, HostPIDs, Knows
  <2>2. (roster'[i] = (PIDsOf(Staying \ {i}) \cup fakes \cup HostPIDs(vhost))')
          <=> \A p : p \in roster'[i] <=> p \in (PIDsOf(Staying \ {i}) \cup fakes \cup HostPIDs(vhost))'
    OBVIOUS
  <2>. QED  BY <2>1, <2>2, Zenon
<1>. QED  BY <1>1 DEF RosterIsRight

-----------------------------------------------------------------------------
(* The initial state, and the steps one by one.                             *)

LEMMA IInvInit == Init => IInv
<1>. SUFFICES ASSUME Init PROVE IInv
  OBVIOUS
<1>1. TypeOK
  <2>1. slots \in [SIDs -> Slot]
    BY DEF Init, Slot
  <2>2. /\ present \subseteq Ids /\ deleteMe \subseteq present /\ leftSent \subseteq deleteMe
        /\ fakes \subseteq PIDs \cup {NoPID} /\ counted \subseteq Ids
    BY DEF Init
  <2>3. /\ pidOf \in [Ids -> PIDs \cup {0, NoPID}]
        /\ kindOf \in [Ids -> Kinds \cup {"none"}]
        /\ roster \in [Ids -> SUBSET (PIDs \cup {NoPID})]
    BY DEF Init
  <2>4. turn \in 0 .. MaxJoins /\ joined \in 0 .. MaxJoins /\ counter \in 0 .. CountFrom
    BY LobbyAssumption DEF Init
  <2>5. /\ vhost \in PIDs \cup {NoPID}
        /\ phase \in {"checks", "players", "joins", "chores"}
        /\ countDown \in BOOLEAN /\ gameLoading \in BOOLEAN
    BY DEF Init
  <2>. QED  BY <2>1, <2>2, <2>3, <2>4, <2>5 DEF TypeOK
<1>2. Staying = {}
  BY DEF Init, Staying
<1>3. FakesAreFew
  BY FS_EmptySet, LobbyAssumption DEF Init, FakesAreFew
<1>. QED  BY <1>1, <1>2, <1>3 DEF Init, IInv, People, PlayersHavePIDs, PIDsDistinct, RosterIsRight

\* Steps that leave the players, their PIDs, the fake players, the virtual host
\* and the clients' lists alone; players may be flagged and slots may change.
LEMMA PeopleFrame ==
    ASSUME People, UNCHANGED <<present, pidOf, leftSent, fakes, vhost, roster, joined>>
    PROVE  People'
<1>1. Staying' = Staying
  BY DEF Staying
<1>2. PlayersHavePIDs' /\ FakesAreFew'
  BY DEF People, PlayersHavePIDs, FakesAreFew
<1>3. PIDsDistinct'
  BY <1>1 DEF People, PIDsDistinct
<1>4. RosterIsRight'
  BY <1>1 DEF People, RosterIsRight, PIDsOf, HostPIDs
<1>. QED  BY <1>2, <1>3, <1>4 DEF People

LEMMA DropStep ==
    ASSUME IInv, NEW i \in present, Drop(i)
    PROVE  IInv'
<1>1. OpenSlotOf(pidOf[i]) \in [SIDs -> Slot]
  BY SlotTypes DEF IInv
<1>2. TypeOK'
  BY <1>1 DEF Drop, IInv, TypeOK, clockVars, loopVars
<1>3. People'
  BY PeopleFrame DEF Drop, IInv, loopVars
<1>. QED  BY <1>2, <1>3 DEF IInv

\* A command flags the player in a slot, or removes the fake player in it.
LEMMA SetSlotStep ==
    ASSUME IInv, NEW i \in present, NEW s \in SIDs, NEW value \in {Open, Closed, Computer},
           SetSlot(i, s, value)
    PROVE  IInv'
<1>. DEFINE fake == IF PlayersInSlot(s) = {} THEN fakes \cap {slots[s].pid} ELSE {}
<1>1. /\ deleteMe' = deleteMe \cup PlayersInSlot(s)
      /\ fakes' = fakes \ fake
      /\ roster' = Told(fake, {})
      /\ slots' = WithSlot(s, value)
      /\ UNCHANGED <<present, pidOf, kindOf, leftSent, vhost, clockVars, loopVars>>
  BY DEF SetSlot
<1>2. fake \subseteq fakes
  OBVIOUS
<1>. HIDE DEF fake
<1>3. PlayersInSlot(s) \subseteq present
  BY DEF PlayersInSlot, Staying
<1>4. WithSlot(s, value) \in [SIDs -> Slot]
  BY SlotTypes DEF IInv
<1>5. /\ Told(fake, {}) \in [Ids -> SUBSET (PIDs \cup {NoPID})]
      /\ \A j \in present : Told(fake, {})[j] = (roster[j] \ fake) \cup {}
  BY ToldType DEF IInv
<1>6. TypeOK'
  BY <1>1, <1>3, <1>4, <1>5 DEF IInv, TypeOK, clockVars, loopVars
<1>7. Staying' = Staying /\ Staying \subseteq present
  BY <1>1 DEF Staying
<1>8. PlayersHavePIDs'
  BY <1>1 DEF IInv, People, PlayersHavePIDs, loopVars
<1>9. FakesAreFew'
  <2>1. fakes' \subseteq fakes
    BY <1>1
  <2>2. IsFiniteSet(fakes') /\ Cardinality(fakes') <= Cardinality(fakes)
    BY <2>1, FS_Subset DEF IInv, People, FakesAreFew
  <2>3. Cardinality(fakes') \in Nat /\ Cardinality(fakes) \in Nat
    BY <2>2, FS_CardinalityType DEF IInv, People, FakesAreFew
  <2>. QED  BY <2>1, <2>2, <2>3, LobbyAssumption DEF IInv, People, FakesAreFew
<1>10. PIDsDistinct'
  BY <1>1, <1>7 DEF IInv, People, PIDsDistinct
<1>11. RosterIsRight'
  <2>1. ASSUME NEW j \in Staying', NEW p PROVE p \in roster'[j] <=> Knows(j, p)'
    <3>1. j \in Staying /\ j \in present /\ roster'[j] = roster[j] \ fake
      BY <1>1, <1>5, <1>7
    <3>2. p \in roster[j] <=> Knows(j, p)
      BY <3>1, RosterMembers DEF IInv, People
    <3>3. p \in fake => ~ (\E k \in Staying : k # j /\ pidOf[k] = p) /\ p # vhost
      BY <1>2 DEF IInv, People, PIDsDistinct
    <3>. QED  BY <1>1, <1>2, <1>7, <3>1, <3>2, <3>3 DEF Knows
  <2>. QED  BY <2>1, RosterMembersNext
<1>. QED  BY <1>6, <1>8, <1>9, <1>10, <1>11 DEF IInv, People

\* A new fake player gets a PID of its own, and the virtual host may leave.
LEMMA CreateFakePlayerStep ==
    ASSUME IInv, NEW i \in present, CreateFakePlayer(i)
    PROVE  IInv'
<1>. DEFINE pid  == GetNewPID({vhost} \cup fakes \cup PIDsOf(Staying))
            host == IF GetSlotsAllocated >= NumSlots - 1 THEN NoPID ELSE vhost
            gone == HostPIDs(vhost) \ HostPIDs(host)
<1>1. /\ Cardinality(fakes) < MaxFakes
      /\ fakes' = fakes \cup {pid}
      /\ vhost' = host
      /\ roster' = Told(gone, {pid})
      /\ slots' = WithSlot(Min(SlotsWith("open")), Human(pid))
      /\ UNCHANGED <<present, pidOf, kindOf, deleteMe, leftSent, clockVars, loopVars>>
  BY DEF CreateFakePlayer, playerVars
<1>2. Staying' = Staying /\ Staying \subseteq present /\ Staying \in SUBSET Ids
  BY <1>1 DEF Staying, IInv, TypeOK
<1>3. pid \in PIDs /\ pid \notin {vhost} \cup fakes \cup PIDsOf(Staying)
  BY <1>2, FewUsed DEF IInv, People
<1>4. host = vhost \/ host = NoPID
  OBVIOUS
<1>5. NoPID \notin PIDs
  BY DEF NoPID, PIDs
<1>. HIDE DEF pid, host
<1>6. \A p : p \in gone => p = vhost
  BY DEF HostPIDs
<1>7. \A p : p = vhost /\ p # NoPID /\ p \notin gone => p = host
  BY DEF HostPIDs
<1>8. host # NoPID => host \notin gone
  BY DEF HostPIDs
<1>. HIDE DEF gone
<1>9. WithSlot(Min(SlotsWith("open")), Human(pid)) \in [SIDs -> Slot]
  BY <1>3, SlotTypes DEF IInv
<1>10. /\ Told(gone, {pid}) \in [Ids -> SUBSET (PIDs \cup {NoPID})]
       /\ \A j \in present : Told(gone, {pid})[j] = (roster[j] \ gone) \cup {pid}
  BY <1>3, ToldType DEF IInv
<1>11. TypeOK'
  BY <1>1, <1>3, <1>4, <1>9, <1>10 DEF IInv, TypeOK, clockVars, loopVars
<1>12. PlayersHavePIDs'
  BY <1>1 DEF IInv, People, PlayersHavePIDs, loopVars
<1>13. FakesAreFew'
  <2>1. /\ IsFiniteSet(fakes \cup {pid})
        /\ Cardinality(fakes \cup {pid}) = Cardinality(fakes) + 1
    BY <1>3, FS_AddElement DEF IInv, People, FakesAreFew
  <2>2. Cardinality(fakes) \in Nat
    BY FS_CardinalityType DEF IInv, People, FakesAreFew
  <2>. QED  BY <1>1, <1>3, <2>1, <2>2, LobbyAssumption DEF IInv, People, FakesAreFew
<1>14. PIDsDistinct'
  <2>1. \A j \in Staying : pidOf[j] \in PIDs /\ pidOf[j] # pid
    BY <1>2, <1>3 DEF IInv, People, PlayersHavePIDs, PIDsOf
  <2>2. fakes \subseteq PIDs
    BY DEF IInv, People, FakesAreFew
  <2>. QED  BY <1>1, <1>2, <1>3, <1>4, <1>5, <2>1, <2>2 DEF IInv, People, PIDsDistinct
<1>15. RosterIsRight'
  <2>1. ASSUME NEW j \in Staying', NEW p PROVE p \in roster'[j] <=> Knows(j, p)'
    <3>1. j \in Staying /\ roster'[j] = (roster[j] \ gone) \cup {pid}
      BY <1>1, <1>2, <1>10
    <3>2. p \in roster[j] <=> Knows(j, p)
      BY <3>1, RosterMembers DEF IInv, People
    <3>3. p = vhost => ~ (\E k \in Staying : k # j /\ pidOf[k] = p) /\ p \notin fakes
      BY DEF IInv, People, PIDsDistinct
    <3>. QED  BY <1>1, <1>2, <1>3, <1>4, <1>6, <1>7, <1>8, <3>1, <3>2, <3>3 DEF Knows
  <2>. QED  BY <2>1, RosterMembersNext
<1>. QED  BY <1>11, <1>12, <1>13, <1>14, <1>15 DEF IInv, People

\* All fake players leave.
LEMMA DeleteFakePlayerStep ==
    ASSUME IInv, NEW i \in present, DeleteFakePlayer(i)
    PROVE  IInv'
<1>1. /\ slots' = [s \in SIDs |-> IF slots[s].pid \in fakes THEN Open ELSE slots[s]]
      /\ roster' = Told(fakes, {})
      /\ fakes' = {}
      /\ UNCHANGED <<present, pidOf, kindOf, deleteMe, leftSent, vhost, clockVars, loopVars>>
  BY DEF DeleteFakePlayer, playerVars
<1>2. Staying' = Staying /\ Staying \subseteq present
  BY <1>1 DEF Staying
<1>3. slots' \in [SIDs -> Slot]
  <2>1. Open \in Slot /\ slots \in [SIDs -> Slot]
    BY SlotTypes DEF IInv, TypeOK
  <2>. QED  BY <1>1, <2>1
<1>4. /\ Told(fakes, {}) \in [Ids -> SUBSET (PIDs \cup {NoPID})]
      /\ \A j \in present : Told(fakes, {})[j] = (roster[j] \ fakes) \cup {}
  BY ToldType DEF IInv
<1>5. TypeOK'
  BY <1>1, <1>3, <1>4 DEF IInv, TypeOK, clockVars, loopVars
<1>6. PlayersHavePIDs'
  BY <1>1 DEF IInv, People, PlayersHavePIDs, loopVars
<1>7. FakesAreFew'
  BY <1>1, FS_EmptySet, LobbyAssumption DEF FakesAreFew
<1>8. PIDsDistinct'
  BY <1>1, <1>2 DEF IInv, People, PIDsDistinct
<1>9. RosterIsRight'
  <2>1. ASSUME NEW j \in Staying', NEW p PROVE p \in roster'[j] <=> Knows(j, p)'
    <3>1. j \in Staying /\ roster'[j] = roster[j] \ fakes
      BY <1>1, <1>2, <1>4
    <3>2. p \in roster[j] <=> Knows(j, p)
      BY <3>1, RosterMembers DEF IInv, People
    <3>3. p \in fakes => ~ (\E k \in Staying : k # j /\ pidOf[k] = p) /\ p # vhost
      BY DEF IInv, People, PIDsDistinct
    <3>. QED  BY <1>1, <1>2, <3>1, <3>2, <3>3 DEF Knows
  <2>. QED  BY <2>1, RosterMembersNext
<1>. QED  BY <1>5, <1>6, <1>7, <1>8, <1>9 DEF IInv, People

\* A player is deleted.  Its leave message goes out unless it went out when the
\* player was displaced: then the PID may be somebody else's by now.
LEMMA DeletedStep ==
    ASSUME IInv, NEW i \in present, EventPlayerDeleted(i),
           slots' \in [SIDs -> Slot], UNCHANGED <<fakes, vhost, loopVars>>
    PROVE  IInv'
<1>1. /\ present' = present \ {i} /\ deleteMe' = deleteMe \ {i} /\ leftSent' = leftSent \ {i}
      /\ pidOf' = [pidOf EXCEPT ![i] = 0]
      /\ kindOf' = [kindOf EXCEPT ![i] = "none"]
  BY DEF EventPlayerDeleted, Erased
<1>2. i \in Ids /\ present \subseteq Ids /\ pidOf \in [Ids -> PIDs \cup {0, NoPID}]
  BY DEF IInv, TypeOK
<1>3. /\ Told({pidOf[i]}, {}) \in [Ids -> SUBSET (PIDs \cup {NoPID})]
      /\ \A j \in present : Told({pidOf[i]}, {})[j] = (roster[j] \ {pidOf[i]}) \cup {}
  BY ToldType DEF IInv
<1>4. /\ roster \in [Ids -> SUBSET (PIDs \cup {NoPID})]
      /\ roster' \in [Ids -> SUBSET (PIDs \cup {NoPID})]
  BY <1>3 DEF IInv, TypeOK, EventPlayerDeleted
<1>5. /\ countDown' \in BOOLEAN /\ counter' \in 0 .. CountFrom /\ counted' \subseteq Ids
  BY DEF EventPlayerDeleted, AbortsCountDown, clockVars, IInv, TypeOK
<1>6. TypeOK'
  BY <1>1, <1>4, <1>5 DEF IInv, TypeOK, loopVars
<1>7. Staying' = Staying \ {i}
  BY <1>1 DEF Staying
<1>8. \A j \in present : j # i => pidOf'[j] = pidOf[j]
  BY <1>1, <1>2
<1>9. PlayersHavePIDs'
  BY <1>1, <1>8 DEF IInv, People, PlayersHavePIDs, loopVars
<1>10. FakesAreFew'
  BY DEF IInv, People, FakesAreFew
<1>11. Staying \subseteq present
  BY DEF Staying
<1>12. PIDsDistinct'
  BY <1>7, <1>8, <1>11 DEF IInv, People, PIDsDistinct
<1>13. RosterIsRight'
  <2>1. ASSUME NEW j \in Staying', NEW p PROVE p \in roster'[j] <=> Knows(j, p)'
    <3>1. j \in Staying /\ j \in present /\ j \in Ids /\ j # i
      BY <1>2, <1>7, <1>11
    <3>2. p \in roster[j] <=> Knows(j, p)
      BY <3>1, RosterMembers DEF IInv, People
    <3>3. CASE i \in leftSent
      <4>1. roster'[j] = roster[j] /\ Staying' = Staying
        BY <1>7, <3>1, <3>3, <1>4 DEF EventPlayerDeleted, Staying
      <4>2. \A k \in Staying : pidOf'[k] = pidOf[k]
        BY <1>8, <1>11, <3>3 DEF Staying
      <4>3. Knows(j, p)' <=> Knows(j, p)
        BY <4>1, <4>2 DEF Knows
      <4>. QED  BY <3>2, <4>1, <4>3
    <3>4. CASE i \notin leftSent
      <4>1. roster'[j] = roster[j] \ {pidOf[i]}
        BY <1>3, <3>1, <3>4 DEF EventPlayerDeleted
      <4>2. i \in Staying
        BY <3>4 DEF Staying
      <4>3. p = pidOf[i] => p \notin fakes /\ p # vhost /\ \A k \in Staying : pidOf[k] = p => k = i
        BY <4>2 DEF IInv, People, PIDsDistinct
      <4>. QED  BY <1>7, <1>8, <1>11, <3>1, <3>2, <4>1, <4>2, <4>3 DEF Knows
    <3>. QED  BY <3>3, <3>4
  <2>. QED  BY <2>1, RosterMembersNext
<1>. QED  BY <1>6, <1>9, <1>10, <1>12, <1>13 DEF IInv, People

\* The virtual host is created with a PID of its own, or there is no change.
LEMMA CreateVirtualHostStep ==
    ASSUME IInv, CreateVirtualHost
    PROVE  IInv'
<1>. DEFINE pid  == GetNewPID({vhost} \cup fakes \cup PIDsOf(Staying))
            host == IF vhost = NoPID /\ GetSlotsAllocated < NumSlots THEN pid ELSE vhost
            new  == HostPIDs(host) \ HostPIDs(vhost)
<1>1. /\ vhost' = host
      /\ roster' = Told({}, new)
      /\ phase' = "chores"
      /\ UNCHANGED <<playerVars, slots, fakes, clockVars, turn, joined, gameLoading>>
  BY DEF CreateVirtualHost
<1>2. Staying' = Staying /\ Staying \subseteq present /\ Staying \in SUBSET Ids
  BY <1>1 DEF Staying, IInv, TypeOK, playerVars
<1>3. pid \in PIDs /\ pid \notin {vhost} \cup fakes \cup PIDsOf(Staying)
  BY <1>2, FewUsed DEF IInv, People
<1>4. host = vhost \/ (vhost = NoPID /\ host = pid)
  OBVIOUS
<1>5. NoPID \notin PIDs
  BY DEF NoPID, PIDs
<1>. HIDE DEF pid, host
<1>6. \A p : p \in new <=> (p = host /\ p # NoPID /\ p # vhost)
  BY DEF HostPIDs
<1>7. new \in SUBSET (PIDs \cup {NoPID})
  BY <1>3, <1>4, <1>6
<1>. HIDE DEF new
<1>8. /\ Told({}, new) \in [Ids -> SUBSET (PIDs \cup {NoPID})]
      /\ \A j \in present : Told({}, new)[j] = (roster[j] \ {}) \cup new
  BY <1>7, ToldType DEF IInv
<1>9. TypeOK'
  BY <1>1, <1>3, <1>4, <1>8 DEF IInv, TypeOK, clockVars, playerVars
<1>10. PlayersHavePIDs' /\ FakesAreFew'
  BY <1>1 DEF IInv, People, PlayersHavePIDs, FakesAreFew, playerVars
<1>11. PIDsDistinct'
  <2>1. \A j \in Staying : pidOf[j] # pid
    BY <1>3 DEF PIDsOf
  <2>. QED  BY <1>1, <1>2, <1>3, <1>4, <2>1 DEF IInv, People, PIDsDistinct, playerVars
<1>12. RosterIsRight'
  <2>1. ASSUME NEW j \in Staying', NEW p PROVE p \in roster'[j] <=> Knows(j, p)'
    <3>1. j \in Staying /\ roster'[j] = roster[j] \cup new
      BY <1>1, <1>2, <1>8
    <3>2. p \in roster[j] <=> Knows(j, p)
      BY <3>1, RosterMembers DEF IInv, People
    <3>. QED  BY <1>1, <1>2, <1>4, <1>6, <3>1, <3>2 DEF Knows, playerVars
  <2>. QED  BY <2>1, RosterMembersNext
<1>. QED  BY <1>9, <1>10, <1>11, <1>12 DEF IInv, People

\* The virtual host leaves when the game starts.
LEMMA EventGameStartedStep ==
    ASSUME IInv, EventGameStarted
    PROVE  IInv'
<1>. DEFINE gone == HostPIDs(vhost)
<1>1. /\ gameLoading' = TRUE /\ vhost' = NoPID /\ roster' = Told(gone, {}) /\ phase' = "checks"
      /\ UNCHANGED <<playerVars, slots, fakes, countDown, counter, counted, turn, joined>>
  BY DEF EventGameStarted, NextUpdate
<1>2. \A p : p \in gone <=> p = vhost /\ p # NoPID
  BY DEF HostPIDs
<1>. HIDE DEF gone
<1>3. Staying' = Staying /\ Staying \subseteq present
  BY <1>1 DEF Staying, playerVars
<1>4. NoPID \notin PIDs
  BY DEF NoPID, PIDs
<1>5. /\ Told(gone, {}) \in [Ids -> SUBSET (PIDs \cup {NoPID})]
      /\ \A j \in present : Told(gone, {})[j] = (roster[j] \ gone) \cup {}
  BY ToldType DEF IInv
<1>6. TypeOK'
  BY <1>1, <1>5 DEF IInv, TypeOK, playerVars
<1>7. PlayersHavePIDs' /\ FakesAreFew'
  BY <1>1 DEF IInv, People, PlayersHavePIDs, FakesAreFew, playerVars
<1>8. PIDsDistinct'
  BY <1>1, <1>3, <1>4 DEF IInv, People, PIDsDistinct, PlayersHavePIDs, FakesAreFew, playerVars
<1>9. RosterIsRight'
  <2>1. ASSUME NEW j \in Staying', NEW p PROVE p \in roster'[j] <=> Knows(j, p)'
    <3>1. j \in Staying /\ roster'[j] = roster[j] \ gone
      BY <1>1, <1>3, <1>5
    <3>2. p \in roster[j] <=> Knows(j, p)
      BY <3>1, RosterMembers DEF IInv, People
    <3>3. p = vhost => ~ (\E k \in Staying : k # j /\ pidOf[k] = p) /\ p \notin fakes
      BY DEF IInv, People, PIDsDistinct
    <3>. QED  BY <1>1, <1>2, <1>3, <1>4, <3>1, <3>2, <3>3
              DEF Knows, playerVars, IInv, People, PlayersHavePIDs, FakesAreFew
  <2>. QED  BY <2>1, RosterMembersNext
<1>. QED  BY <1>6, <1>7, <1>8, <1>9 DEF IInv, People

\* A player joins: whoever is in its slot is displaced and everybody is told, the
\* virtual host may leave, and the new player takes a PID that is free then.
LEMMA JoinStep ==
    ASSUME IInv, NEW kind \in Kinds, NEW s, Join(kind, s)
    PROVE  IInv'
<1>. DEFINE id     == joined + 1
            kicked == PlayersInSlot(s)
            others == Staying \ kicked
            host   == IF GetSlotsAllocated >= NumSlots - 1 THEN NoPID ELSE vhost
            pid    == GetNewPID({host} \cup fakes \cup PIDsOf(others))
            lost   == HostPIDs(vhost) \ HostPIDs(host)
            gone   == PIDsOf(kicked) \cup lost
<1>1. /\ joined < MaxJoins
      /\ joined' = id
      /\ present' = present \cup {id}
      /\ pidOf' = [pidOf EXCEPT ![id] = pid]
      /\ kindOf' = [kindOf EXCEPT ![id] = kind]
      /\ deleteMe' = deleteMe \cup kicked
      /\ leftSent' = leftSent \cup kicked
      /\ vhost' = host
      /\ slots' = WithSlot(s, Human(pid))
      /\ countDown' = FALSE /\ counted' = {} /\ counter' = counter
      /\ UNCHANGED <<fakes, phase, turn, gameLoading>>
  BY DEF Join, EventPlayerJoined, AbortsCountDown
<1>2. roster' = [i \in Ids |->
                   CASE i = id        -> HostPIDs(host) \cup fakes \cup PIDsOf(others)
                     [] i \in others  -> (roster[i] \ gone) \cup {pid}
                     [] i \in present \ others -> roster[i] \ gone
                     [] OTHER         -> roster[i]]
  BY DEF Join, EventPlayerJoined
<1>3. /\ id \in Ids /\ id \in 1 .. id /\ id \in 0 .. MaxJoins /\ id \notin present
      /\ 1 .. joined \subseteq 1 .. id
  BY <1>1, LobbyAssumption DEF IInv, TypeOK, People, PlayersHavePIDs, Ids
<1>4. /\ Staying \subseteq present /\ Staying \in SUBSET Ids /\ kicked \subseteq Staying
      /\ others \in SUBSET Ids /\ others \subseteq present
  BY DEF Staying, PlayersInSlot, IInv, TypeOK
<1>5. pid \in PIDs /\ pid \notin {host} \cup fakes \cup PIDsOf(others)
  BY <1>4, FewUsed DEF IInv, People
<1>6. host = vhost \/ host = NoPID
  OBVIOUS
<1>7. NoPID \notin PIDs
  BY DEF NoPID, PIDs
<1>8. \A j \in others : j \in Staying /\ j \notin kicked
  OBVIOUS
<1>9. Staying' = others \cup {id}
  <2>1. id \notin leftSent
    BY <1>3 DEF IInv, TypeOK
  <2>. QED  BY <1>1, <1>3, <1>4, <2>1 DEF Staying
<1>10. pidOf'[id] = pid /\ \A j \in present : pidOf'[j] = pidOf[j]
  BY <1>1, <1>3 DEF IInv, TypeOK
<1>11. /\ \A p : p \in lost => p = vhost
       /\ \A p : p \in HostPIDs(host) <=> p = host /\ p # NoPID
       /\ host = vhost => lost = {}
       /\ host # vhost /\ vhost # NoPID => vhost \in lost
  BY DEF HostPIDs
<1>. HIDE DEF pid, host, lost
<1>12. \A p : p \in gone <=> (\E j \in kicked : pidOf[j] = p) \/ p \in lost
  BY DEF PIDsOf
<1>13. \A p : p \in PIDsOf(others) <=> \E j \in others : pidOf[j] = p
  BY DEF PIDsOf
<1>14. \A j \in others : pidOf[j] # pid
  BY <1>5, <1>13
<1>. HIDE DEF gone, kicked, others, id
<1>15. roster' \in [Ids -> SUBSET (PIDs \cup {NoPID})]
  <2>1. HostPIDs(host) \cup fakes \cup PIDsOf(others) \in SUBSET (PIDs \cup {NoPID})
    <3>1. \A j \in others : pidOf[j] \in PIDs
      BY <1>4 DEF IInv, People, PlayersHavePIDs
    <3>2. host \in PIDs \cup {NoPID} /\ fakes \in SUBSET PIDs
      BY <1>6 DEF IInv, TypeOK, People, FakesAreFew
    <3>. QED  BY <1>11, <1>13, <3>1, <3>2
  <2>2. \A i \in Ids : roster[i] \in SUBSET (PIDs \cup {NoPID})
    BY DEF IInv, TypeOK
  <2>. QED  BY <1>2, <1>5, <2>1, <2>2
<1>16. WithSlot(s, Human(pid)) \in [SIDs -> Slot]
  BY <1>5, SlotTypes DEF IInv
<1>17. TypeOK'
  <2>1. pidOf' \in [Ids -> PIDs \cup {0, NoPID}] /\ kindOf' \in [Ids -> Kinds \cup {"none"}]
    BY <1>1, <1>5 DEF IInv, TypeOK
  <2>2. present' \subseteq Ids /\ deleteMe' \subseteq present' /\ leftSent' \subseteq deleteMe'
    BY <1>1, <1>3, <1>4 DEF IInv, TypeOK
  <2>3. vhost' \in PIDs \cup {NoPID} /\ joined' \in 0 .. MaxJoins
    BY <1>1, <1>3, <1>6 DEF IInv, TypeOK
  <2>. QED  BY <1>1, <1>15, <1>16, <2>1, <2>2, <2>3 DEF IInv, TypeOK
<1>18. PlayersHavePIDs'
  BY <1>1, <1>3, <1>5, <1>10 DEF IInv, People, PlayersHavePIDs
<1>19. FakesAreFew'
  BY <1>1 DEF IInv, People, FakesAreFew
<1>20. PIDsDistinct'
  <2>1. \A i, j \in Staying' : pidOf'[i] = pidOf'[j] => i = j
    BY <1>4, <1>8, <1>9, <1>10, <1>14 DEF IInv, People, PIDsDistinct
  <2>2. \A i \in Staying' : pidOf'[i] \notin fakes' \cup {vhost'}
    BY <1>1, <1>4, <1>5, <1>6, <1>7, <1>8, <1>9, <1>10
    DEF IInv, People, PIDsDistinct, PlayersHavePIDs
  <2>3. vhost' \notin fakes'
    BY <1>1, <1>6, <1>7 DEF IInv, People, PIDsDistinct, FakesAreFew
  <2>. QED  BY <2>1, <2>2, <2>3 DEF PIDsDistinct
<1>21. RosterIsRight'
  <2>1. ASSUME NEW i \in Staying', NEW p PROVE p \in roster'[i] <=> Knows(i, p)'
    <3>1. Knows(i, p)' <=> \/ \E j \in others : j # i /\ pidOf[j] = p
                           \/ id # i /\ pid = p
                           \/ p \in fakes
                           \/ p = host /\ p # NoPID
      BY <1>1, <1>4, <1>9, <1>10 DEF Knows
    <3>2. CASE i = id
      <4>1. roster'[i] = HostPIDs(host) \cup fakes \cup PIDsOf(others)
        BY <1>2, <1>3, <1>4, <3>2
      <4>2. \A j \in others : j # id
        BY <1>3, <1>4
      <4>. QED  BY <1>11, <1>13, <3>1, <3>2, <4>1, <4>2
    <3>3. CASE i \in others
      <4>1. i # id /\ i \in Ids /\ i \in Staying
        BY <1>3, <1>4, <1>8, <3>3
      <4>2. roster'[i] = (roster[i] \ gone) \cup {pid}
        BY <1>2, <3>3, <4>1
      <4>3. p \in roster[i] <=> Knows(i, p)
        BY <4>1, RosterMembers DEF IInv, People
      <4>4. p \in gone => ~ (\E j \in others : pidOf[j] = p) /\ p \notin fakes
        BY <1>4, <1>8, <1>11, <1>12 DEF IInv, People, PIDsDistinct
      <4>5. p = host /\ p # NoPID => p \notin gone
        BY <1>4, <1>6, <1>11, <1>12 DEF IInv, People, PIDsDistinct
      <4>6. \A j \in Staying : j \in others \/ j \in kicked
        BY DEF others
      <4>. QED  BY <1>4, <1>6, <1>8, <1>11, <1>12, <3>1, <4>1, <4>2, <4>3, <4>4, <4>5, <4>6
                DEF Knows
    <3>. QED  BY <1>9, <3>2, <3>3
  <2>. QED  BY <2>1, RosterMembersNext
<1>. QED  BY <1>17, <1>18, <1>19, <1>20, <1>21 DEF IInv, People

-----------------------------------------------------------------------------
(* Every step preserves the invariant.                                      *)

LEMMA IInvNext == IInv /\ [Next]_vars => IInv'
<1>. SUFFICES ASSUME IInv, [Next]_vars PROVE IInv'
  OBVIOUS
<1>. USE DEF IInv
<1>0. Staying \subseteq present /\ present \subseteq Ids
  BY DEF Staying, TypeOK
<1>1. ASSUME NEW i \in present, Drop(i) PROVE IInv'
  BY <1>1, DropStep
<1>2. ASSUME NEW i \in present, ConnectCheckFails(i) \/ Departs(i) \/ SpoofKick(i) PROVE IInv'
  BY <1>1, <1>2 DEF ConnectCheckFails, Departs, SpoofKick
<1>3. ASSUME NEW i \in Staying, AnnounceKick(i) PROVE IInv'
  BY <1>0, <1>1, <1>3 DEF AnnounceKick
<1>4. ASSUME NEW i \in present, Command(i) PROVE IInv'
  <2>1. ASSUME NEW victim \in Staying, Kick(i, victim) PROVE IInv'
    BY <1>0, <1>1, <2>1 DEF Kick
  <2>2. ASSUME NEW s \in SIDs, NEW value \in {Open, Closed, Computer}, SetSlot(i, s, value)
        PROVE  IInv'
    BY <2>2, SetSlotStep
  <2>3. ASSUME NEW from \in Slot, NEW value \in Slot, SetAllSlots(i, from, value) PROVE IInv'
    <3>1. slots' \in [SIDs -> Slot]
      BY <2>3 DEF SetAllSlots, TypeOK
    <3>2. TypeOK'
      BY <2>3, <3>1 DEF SetAllSlots, TypeOK, playerVars, clockVars, loopVars
    <3>. QED  BY <2>3, <3>2, PeopleFrame DEF SetAllSlots, playerVars, loopVars
  <2>4. ASSUME NEW s \in SIDs, NEW t \in SIDs, SwapSlots(i, s, t) PROVE IInv'
    <3>1. slots' \in [SIDs -> Slot]
      BY <2>4 DEF SwapSlots, TypeOK
    <3>2. TypeOK'
      BY <2>4, <3>1 DEF SwapSlots, TypeOK, playerVars, clockVars, loopVars
    <3>. QED  BY <2>4, <3>2, PeopleFrame DEF SwapSlots, playerVars, loopVars
  <2>5. CASE CreateFakePlayer(i)
    BY <2>5, CreateFakePlayerStep
  <2>6. CASE DeleteFakePlayer(i)
    BY <2>6, DeleteFakePlayerStep
  <2>7. CASE StartCountDown(i)
    <3>1. TypeOK'
      BY <1>0, <2>7, LobbyAssumption
      DEF StartCountDown, StartsCountDown, TypeOK, playerVars, loopVars
    <3>. QED  BY <2>7, <3>1, PeopleFrame DEF StartCountDown, StartsCountDown, playerVars, loopVars
  <2>8. CASE Abort(i)
    <3>1. TypeOK'
      BY <2>8 DEF Abort, AbortsCountDown, TypeOK, playerVars, loopVars
    <3>. QED  BY <2>8, <3>1, PeopleFrame DEF Abort, playerVars, loopVars
  <2>9. Open \in Slot /\ Closed \in Slot
    BY SlotTypes
  <2>. QED  BY <1>4, <2>1, <2>2, <2>3, <2>4, <2>5, <2>6, <2>7, <2>8, <2>9 DEF Command
<1>5. ASSUME NEW i \in present, PlayerTurn(i) PROVE IInv'
  <2>0. i \in 0 .. MaxJoins
    BY <1>0, LobbyAssumption DEF Ids
  <2>1. CASE KeepPlayer(i)
    <3>1. TypeOK'
      BY <2>0, <2>1 DEF KeepPlayer, TypeOK, playerVars, clockVars
    <3>. QED  BY <2>1, <3>1, PeopleFrame DEF KeepPlayer, playerVars
  <2>2. CASE DeletePlayer(i)
    <3>1. slots' \in [SIDs -> Slot]
      BY <2>2 DEF DeletePlayer, TypeOK
    <3>. QED  BY <2>2, <3>1, DeletedStep DEF DeletePlayer
  <2>3. CASE LosePlayer(i)
    <3>1. slots' \in [SIDs -> Slot]
      BY <2>3, SlotTypes DEF LosePlayer
    <3>. QED  BY <2>3, <3>1, DeletedStep DEF LosePlayer
  <2>. QED  BY <1>5, <2>1, <2>2, <2>3 DEF PlayerTurn
<1>6. ASSUME NEW kind \in Kinds, NEW s \in SlotsFor(kind), Join(kind, s) PROVE IInv'
  BY <1>6, JoinStep
<1>7. CASE ChecksDone
  <2>1. TypeOK'
    BY <1>7 DEF ChecksDone, TypeOK, playerVars, clockVars
  <2>. QED  BY <1>7, <2>1, PeopleFrame DEF ChecksDone, playerVars
<1>8. CASE PlayersDone
  <2>1. TypeOK'
    BY <1>8, LobbyAssumption DEF PlayersDone, TypeOK, playerVars, clockVars
  <2>. QED  BY <1>8, <2>1, PeopleFrame DEF PlayersDone, playerVars
<1>9. CASE CreateVirtualHost
  BY <1>9, CreateVirtualHostStep
<1>10. CASE StartCountDownAuto
  <2>1. TypeOK'
    BY <1>0, <1>10, LobbyAssumption
    DEF StartCountDownAuto, StartsCountDown, TypeOK, playerVars, loopVars
  <2>. QED  BY <1>10, <2>1, PeopleFrame DEF StartCountDownAuto, StartsCountDown, playerVars, loopVars
<1>11. CASE UpdateDone
  <2>1. TypeOK'
    BY <1>11 DEF UpdateDone, NextUpdate, TypeOK, playerVars
  <2>. QED  BY <1>11, <2>1, PeopleFrame DEF UpdateDone, NextUpdate, playerVars
<1>12. CASE CountDownTick
  <2>1. counter' \in 0 .. CountFrom
    BY <1>12, LobbyAssumption DEF CountDownTick, TypeOK
  <2>2. TypeOK'
    BY <1>12, <2>1 DEF CountDownTick, NextUpdate, TypeOK, playerVars
  <2>. QED  BY <1>12, <2>2, PeopleFrame DEF CountDownTick, NextUpdate, playerVars
<1>13. CASE EventGameStarted
  BY <1>13, EventGameStartedStep
<1>14. CASE UNCHANGED vars
  <2>1. TypeOK'
    BY <1>14 DEF vars, TypeOK, playerVars, clockVars, loopVars
  <2>. QED  BY <1>14, <2>1, PeopleFrame DEF vars, playerVars, loopVars
<1>. QED
  BY <1>2, <1>3, <1>4, <1>5, <1>6, <1>7, <1>8, <1>9, <1>10, <1>11, <1>12, <1>13, <1>14 DEF Next

-----------------------------------------------------------------------------
(* The theorems.                                                            *)

THEOREM Invariance == Spec => []IInv
<1>1. Init => IInv
  BY IInvInit
<1>2. IInv /\ [Next]_vars => IInv'
  BY IInvNext
<1>. QED  BY <1>1, <1>2, PTL DEF Spec

\* Players, slots, clients' lists and the countdown keep their types, whatever
\* the map and the number of players: in particular a player that is flagged or
\* whose leave message was sent is in m_Players.
THEOREM TypeCorrect == Spec => []TypeOK
<1>1. IInv => TypeOK
  BY DEF IInv
<1>. QED  BY <1>1, Invariance, PTL

\* GetNewPID never gives out a PID that a staying player, a fake player or the
\* virtual host has, although it passes over the PIDs of displaced players.
THEOREM NewPIDsAreFree == Spec => []PIDsDistinct
<1>1. IInv => PIDsDistinct
  BY DEF IInv, People
<1>. QED  BY <1>1, Invariance, PTL

\* The join, leave, fake player and virtual host messages leave every client
\* with the right list, in whatever order players join, leave and are displaced.
THEOREM ClientsKnowWhoIsThere == Spec => []RosterIsRight
<1>1. IInv => RosterIsRight
  BY DEF IInv, People
<1>. QED  BY <1>1, Invariance, PTL

-----------------------------------------------------------------------------
(* The slots.  A slot is opened by the PID of its player, so the PIDs in the *)
(* slots have to be distinct for the right one to be opened.                 *)

\* The players that are not being removed.
Keepers == Staying \ deleteMe

\* SlotsHaveOwners, for every slot with a PID in it: the inductive form.
SlotsAreOwned ==
    /\ \A s \in SIDs : slots[s].pid # 0 =>
         (\E i \in Keepers : pidOf[i] = slots[s].pid) \/ slots[s].pid \in fakes
    /\ \A s, t \in SIDs : slots[s].pid # 0 /\ slots[s].pid = slots[t].pid => s = t

\* A slot that is neither a computer's nor empty has the PID of somebody.
LEMMA SlotsWithPIDs ==
    ASSUME TypeOK, SlotsAreOwned
    PROVE  SlotsHaveOwners
<1>1. ASSUME NEW s \in OwnerSlots PROVE s \in SIDs /\ slots[s].pid # 0
  <2>1. s \in SIDs /\ slots[s].status = "occupied" /\ ~ slots[s].computer
    BY <1>1 DEF OwnerSlots, SlotsWith
  <2>2. slots[s] \in Slot
    BY <2>1 DEF TypeOK
  <2>3. PICK pid \in PIDs \cup {NoPID} : slots[s] = Human(pid)
    BY <2>1, <2>2 DEF Slot, Open, Closed, Computer
  <2>. QED  BY <2>1, <2>3 DEF Human, PIDs, NoPID
<1>. QED  BY <1>1 DEF SlotsAreOwned, SlotsHaveOwners, Keepers, PIDsOf

\* The least of some slots is one of them.
LEMMA LeastSlot ==
    ASSUME NEW S \in SUBSET SIDs, S # {}
    PROVE  Min(S) \in S
<1>1. S \in SUBSET Nat
  BY LobbyAssumption DEF SIDs
<1>2. PICK n \in S : \A k \in S : n <= k
  BY <1>1, SmallestMember
<1>. QED  BY <1>2 DEF Min

\* No slot is left with a PID whose slot was opened, and no other changes.
LEMMA SlotOpened ==
    ASSUME TypeOK, SlotsAreOwned, NEW pid \in PIDs, NEW s \in SIDs
    PROVE  OpenSlotOf(pid)[s] = IF slots[s].pid = pid THEN Open ELSE slots[s]
<1>. DEFINE mine == {t \in SIDs : slots[t].pid = pid}
<1>0. pid # 0 /\ slots \in [SIDs -> Slot]
  BY DEF PIDs, TypeOK
<1>1. OpenSlotOf(pid) = IF mine = {} THEN slots ELSE WithSlot(Min(mine), Open)
  BY DEF OpenSlotOf
<1>2. CASE mine = {}
  BY <1>1, <1>2
<1>3. CASE mine # {}
  <2>1. Min(mine) \in mine
    BY <1>3, LeastSlot
  <2>2. \A t \in mine : t = Min(mine)
    BY <1>0, <2>1 DEF SlotsAreOwned
  <2>. QED  BY <1>0, <1>1, <1>3, <2>1, <2>2 DEF WithSlot
<1>. QED  BY <1>2, <1>3

\* Steps that leave the slots and the fake players alone, and the PIDs of the
\* players that are not being removed.
LEMMA SlotsFrame ==
    ASSUME SlotsAreOwned, UNCHANGED <<slots, fakes>>, Keepers' = Keepers,
           \A i \in Keepers : pidOf'[i] = pidOf[i]
    PROVE  SlotsAreOwned'
BY DEF SlotsAreOwned

\* The slot of a player is opened, and only that player is flagged or gone.
LEMMA SlotOfOneOpened ==
    ASSUME IInv, SlotsAreOwned, NEW i \in present,
           slots' = OpenSlotOf(pidOf[i]), UNCHANGED fakes,
           Keepers' = Keepers \ {i}, \A j \in Keepers \ {i} : pidOf'[j] = pidOf[j]
    PROVE  SlotsAreOwned'
<1>1. pidOf[i] \in PIDs
  BY DEF IInv, People, PlayersHavePIDs
<1>2. \A s \in SIDs : slots'[s] = IF slots[s].pid = pidOf[i] THEN Open ELSE slots[s]
  BY <1>1, SlotOpened DEF IInv
<1>3. Open.pid = 0
  BY DEF Open
<1>4. \A s \in SIDs : slots'[s].pid # 0 => slots'[s] = slots[s] /\ slots[s].pid # pidOf[i]
  BY <1>2, <1>3
<1>. QED  BY <1>4 DEF SlotsAreOwned

\* A player is flagged and its slot opened.
LEMMA DropSlots ==
    ASSUME IInv, SlotsAreOwned, NEW i \in present, Drop(i)
    PROVE  SlotsAreOwned'
<1>1. Keepers' = Keepers \ {i}
  BY DEF Drop, Keepers, Staying
<1>. QED  BY <1>1, SlotOfOneOpened DEF Drop

\* The slot that is set loses its player, flagged, or its fake player.
LEMMA SetSlotSlots ==
    ASSUME IInv, SlotsAreOwned, NEW i \in present,
           NEW s \in SIDs, NEW value \in {Open, Closed, Computer}, SetSlot(i, s, value)
    PROVE  SlotsAreOwned'
<1>. DEFINE fake == IF PlayersInSlot(s) = {} THEN fakes \cap {slots[s].pid} ELSE {}
<1>1. /\ Keepers' = Keepers \ PlayersInSlot(s) /\ pidOf' = pidOf
      /\ fakes' = fakes \ fake /\ slots' = WithSlot(s, value)
  BY DEF SetSlot, Keepers, Staying
<1>2. value.pid = 0
  BY DEF Open, Closed, Computer
<1>3. \A t \in SIDs : slots'[t].pid # 0 => t # s /\ slots'[t] = slots[t]
  BY <1>1, <1>2 DEF WithSlot, IInv, TypeOK
<1>4. \A p : p \in fakes /\ p # slots[s].pid => p \in fakes'
  BY <1>1
<1>5. \A j \in Keepers : pidOf[j] # slots[s].pid => j \in Keepers'
  BY <1>1 DEF PlayersInSlot
<1>6. \A t \in SIDs : slots'[t].pid # 0 => slots[t].pid # slots[s].pid
  BY <1>3 DEF SlotsAreOwned
<1>. HIDE DEF fake
<1>7. ASSUME NEW t \in SIDs, slots'[t].pid # 0
      PROVE  (\E j \in Keepers' : pidOf'[j] = slots'[t].pid) \/ slots'[t].pid \in fakes'
  BY <1>1, <1>3, <1>4, <1>5, <1>6, <1>7 DEF SlotsAreOwned
<1>. QED  BY <1>3, <1>7 DEF SlotsAreOwned

\* A new fake player has a slot and a PID of its own.
LEMMA CreateFakePlayerSlots ==
    ASSUME IInv, SlotsAreOwned, NEW i \in present, CreateFakePlayer(i)
    PROVE  SlotsAreOwned'
<1>. DEFINE pid == GetNewPID({vhost} \cup fakes \cup PIDsOf(Staying))
            own == Min(SlotsWith("open"))
<1>1. /\ Keepers' = Keepers /\ pidOf' = pidOf
      /\ fakes' = fakes \cup {pid} /\ slots' = WithSlot(own, Human(pid))
  BY DEF CreateFakePlayer, playerVars, Keepers, Staying
<1>2. Staying \in SUBSET Ids
  BY DEF Staying, IInv, TypeOK
<1>3. pid \in PIDs /\ pid \notin {vhost} \cup fakes \cup PIDsOf(Staying)
  BY <1>2, FewUsed DEF IInv, People
<1>. HIDE DEF pid, own
<1>4. \A s \in SIDs : slots'[s] = IF s = own THEN Human(pid) ELSE slots[s]
  BY <1>1 DEF WithSlot, IInv, TypeOK
<1>5. Human(pid).pid = pid
  BY DEF Human
<1>6. \A s \in SIDs : slots[s].pid # pid
  BY <1>3 DEF SlotsAreOwned, Keepers, PIDsOf, PIDs
<1>. QED  BY <1>1, <1>4, <1>5, <1>6 DEF SlotsAreOwned

\* The slots of the fake players are opened.
LEMMA DeleteFakePlayerSlots ==
    ASSUME IInv, SlotsAreOwned, NEW i \in present, DeleteFakePlayer(i)
    PROVE  SlotsAreOwned'
<1>1. /\ Keepers' = Keepers /\ pidOf' = pidOf
      /\ slots' = [s \in SIDs |-> IF slots[s].pid \in fakes THEN Open ELSE slots[s]]
  BY DEF DeleteFakePlayer, playerVars, Keepers, Staying
<1>2. Open.pid = 0
  BY DEF Open
<1>3. \A s \in SIDs : slots'[s].pid # 0 => slots'[s] = slots[s] /\ slots[s].pid \notin fakes
  BY <1>1, <1>2
<1>. QED  BY <1>1, <1>3 DEF SlotsAreOwned

\* The slots a new player may be given are slots of the map.
LEMMA SlotsForType ==
    ASSUME NEW kind
    PROVE  SlotsFor(kind) \subseteq SIDs
<1>1. \A status : SlotsWith(status) \subseteq SIDs
  BY DEF SlotsWith
<1>2. Displaceable \subseteq SIDs /\ OwnerSlots \subseteq SIDs /\ 1 \in SIDs
  BY <1>1, LobbyAssumption DEF Displaceable, OwnerSlots, SIDs
<1>3. /\ SlotsWith("open") # {} => Min(SlotsWith("open")) \in SIDs
      /\ SlotsWith("closed") # {} => Min(SlotsWith("closed")) \in SIDs
      /\ OwnerSlots # {} => Min(OwnerSlots) \in SIDs
  BY <1>1, <1>2, LeastSlot
<1>. QED  BY <1>2, <1>3 DEF SlotsFor

\* The new player has the slot alone; whoever was in it is displaced.
LEMMA JoinSlots ==
    ASSUME IInv, SlotsAreOwned, NEW kind \in Kinds, NEW s \in SIDs, Join(kind, s)
    PROVE  SlotsAreOwned'
<1>. DEFINE id     == joined + 1
            kicked == PlayersInSlot(s)
            others == Staying \ kicked
            host   == IF GetSlotsAllocated >= NumSlots - 1 THEN NoPID ELSE vhost
            pid    == GetNewPID({host} \cup fakes \cup PIDsOf(others))
<1>1. /\ joined < MaxJoins
      /\ present' = present \cup {id} /\ pidOf' = [pidOf EXCEPT ![id] = pid]
      /\ deleteMe' = deleteMe \cup kicked /\ leftSent' = leftSent \cup kicked
      /\ slots' = WithSlot(s, Human(pid)) /\ fakes' = fakes
  BY DEF Join, EventPlayerJoined
<1>2. id \in Ids /\ id \notin present
  BY <1>1, LobbyAssumption DEF IInv, TypeOK, People, PlayersHavePIDs, Ids
<1>3. Staying \subseteq present /\ kicked \subseteq Staying /\ others \in SUBSET Ids
  BY DEF Staying, PlayersInSlot, IInv, TypeOK
<1>4. pid \in PIDs /\ pid \notin {host} \cup fakes \cup PIDsOf(others)
  BY <1>3, FewUsed DEF IInv, People
<1>5. \A j \in Staying : j \notin kicked <=> pidOf[j] # slots[s].pid
  BY DEF PlayersInSlot
<1>6. \A j \in others : pidOf[j] # pid
  BY <1>4 DEF PIDsOf
<1>7. \A j : j \in others <=> j \in Staying /\ j \notin kicked
  OBVIOUS
<1>. HIDE DEF id, kicked, host, pid, others
<1>8. /\ id \in Keepers' /\ pidOf'[id] = pid
      /\ \A j \in Keepers : j \notin kicked => j \in Keepers' /\ pidOf'[j] = pidOf[j]
  BY <1>1, <1>2, <1>3 DEF Keepers, Staying, IInv, TypeOK
<1>9. \A t \in SIDs : slots'[t] = IF t = s THEN Human(pid) ELSE slots[t]
  BY <1>1 DEF WithSlot, IInv, TypeOK
<1>10. Human(pid).pid = pid
  BY DEF Human
<1>11. ASSUME NEW t \in SIDs, t # s, slots[t].pid # 0
       PROVE  /\ slots[t].pid # pid
              /\ (\E j \in Keepers' : pidOf'[j] = slots[t].pid) \/ slots[t].pid \in fakes
  <2>1. slots[t].pid # slots[s].pid
    BY <1>11 DEF SlotsAreOwned
  <2>2. CASE slots[t].pid \in fakes
    BY <1>4, <2>2
  <2>3. CASE \E j \in Keepers : pidOf[j] = slots[t].pid
    <3>1. PICK j \in Keepers : pidOf[j] = slots[t].pid
      BY <2>3
    <3>2. j \in Staying /\ j \notin kicked /\ j \in others
      BY <1>5, <1>7, <2>1, <3>1 DEF Keepers
    <3>. QED  BY <1>6, <1>8, <3>1, <3>2
  <2>. QED  BY <1>11, <2>2, <2>3 DEF SlotsAreOwned
<1>12. \A t \in SIDs : slots'[t].pid # 0 =>
         (\E j \in Keepers' : pidOf'[j] = slots'[t].pid) \/ slots'[t].pid \in fakes'
  BY <1>1, <1>8, <1>9, <1>10, <1>11
<1>13. \A t, u \in SIDs : slots'[t].pid # 0 /\ slots'[t].pid = slots'[u].pid => t = u
  BY <1>9, <1>10, <1>11 DEF SlotsAreOwned
<1>. QED  BY <1>12, <1>13 DEF SlotsAreOwned

\* A player is deleted, and its slot was opened when it was flagged or is now.
LEMMA DeletePlayerSlots ==
    ASSUME IInv, SlotsAreOwned, NEW i \in present, DeletePlayer(i) \/ LosePlayer(i)
    PROVE  SlotsAreOwned'
<1>1. /\ UNCHANGED fakes /\ Keepers' = Keepers \ {i}
      /\ pidOf' = [pidOf EXCEPT ![i] = 0]
  BY DEF DeletePlayer, LosePlayer, EventPlayerDeleted, Erased, Keepers, Staying
<1>2. \A j \in Keepers \ {i} : pidOf'[j] = pidOf[j]
  BY <1>1 DEF IInv, TypeOK
<1>3. CASE DeletePlayer(i)
  <2>1. i \notin Keepers /\ slots' = slots
    BY <1>3 DEF DeletePlayer, Keepers
  <2>. QED  BY <1>1, <1>2, <2>1, SlotsFrame
<1>4. CASE LosePlayer(i)
  BY <1>1, <1>2, <1>4, SlotOfOneOpened DEF LosePlayer
<1>. QED  BY <1>3, <1>4

\* Every step preserves the ownership of the slots.
LEMMA SlotsAreOwnedNext == IInv /\ SlotsAreOwned /\ [Next]_vars => SlotsAreOwned'
<1>. SUFFICES ASSUME IInv, SlotsAreOwned, [Next]_vars PROVE SlotsAreOwned'
  OBVIOUS
<1>0. Staying \subseteq present
  BY DEF Staying
<1>1. ASSUME NEW i \in present, Drop(i) PROVE SlotsAreOwned'
  BY <1>1, DropSlots
<1>2. ASSUME NEW i \in present, ConnectCheckFails(i) \/ Departs(i) \/ SpoofKick(i)
      PROVE  SlotsAreOwned'
  BY <1>1, <1>2 DEF ConnectCheckFails, Departs, SpoofKick
<1>3. ASSUME NEW i \in Staying, AnnounceKick(i) PROVE SlotsAreOwned'
  BY <1>0, <1>1, <1>3 DEF AnnounceKick
<1>4. ASSUME UNCHANGED <<playerVars, slots, fakes>> PROVE SlotsAreOwned'
  <2>1. Keepers' = Keepers /\ pidOf' = pidOf /\ UNCHANGED <<slots, fakes>>
    BY <1>4 DEF playerVars, Keepers, Staying
  <2>. QED  BY <2>1, SlotsFrame
<1>5. ASSUME NEW i \in present, Command(i) PROVE SlotsAreOwned'
  <2>1. ASSUME NEW victim \in Staying, Kick(i, victim) PROVE SlotsAreOwned'
    BY <1>0, <1>1, <2>1 DEF Kick
  <2>2. ASSUME NEW s \in SIDs, NEW value \in {Open, Closed, Computer}, SetSlot(i, s, value)
        PROVE  SlotsAreOwned'
    BY <2>2, SetSlotSlots
  <2>3. ASSUME NEW from, NEW value \in {Open, Closed}, SetAllSlots(i, from, value)
        PROVE  SlotsAreOwned'
    <3>1. Keepers' = Keepers /\ UNCHANGED <<pidOf, fakes>>
      BY <2>3 DEF SetAllSlots, playerVars, Keepers, Staying
    <3>2. value.pid = 0
      BY DEF Open, Closed
    <3>3. \A s \in SIDs : slots'[s].pid # 0 => slots'[s] = slots[s]
      BY <2>3, <3>2 DEF SetAllSlots
    <3>. QED  BY <3>1, <3>3 DEF SlotsAreOwned
  <2>4. ASSUME NEW s \in SIDs, NEW t \in SIDs, SwapSlots(i, s, t) PROVE SlotsAreOwned'
    <3>1. Keepers' = Keepers /\ UNCHANGED <<pidOf, fakes>>
      BY <2>4 DEF SwapSlots, playerVars, Keepers, Staying
    <3>2. \A u \in SIDs : slots'[u] = IF u = s THEN slots[t] ELSE IF u = t THEN slots[s] ELSE slots[u]
      BY <2>4 DEF SwapSlots, IInv, TypeOK
    <3>. QED  BY <3>1, <3>2 DEF SlotsAreOwned
  <2>5. CASE CreateFakePlayer(i)
    BY <2>5, CreateFakePlayerSlots
  <2>6. CASE DeleteFakePlayer(i)
    BY <2>6, DeleteFakePlayerSlots
  <2>7. CASE StartCountDown(i) \/ Abort(i)
    BY <1>4, <2>7 DEF StartCountDown, StartsCountDown, Abort
  <2>. QED  BY <1>5, <2>1, <2>2, <2>3, <2>4, <2>5, <2>6, <2>7 DEF Command
<1>6. ASSUME NEW i \in present, PlayerTurn(i) PROVE SlotsAreOwned'
  <2>1. CASE KeepPlayer(i)
    BY <1>4, <2>1 DEF KeepPlayer
  <2>. QED  BY <1>6, <2>1, DeletePlayerSlots DEF PlayerTurn
<1>7. ASSUME NEW kind \in Kinds, NEW s \in SlotsFor(kind), Join(kind, s) PROVE SlotsAreOwned'
  <2>1. s \in SIDs
    BY <1>7, SlotsForType
  <2>. QED  BY <1>7, <2>1, JoinSlots
<1>8. CASE ChecksDone \/ PlayersDone \/ CreateVirtualHost \/ StartCountDownAuto
  BY <1>4, <1>8 DEF ChecksDone, PlayersDone, CreateVirtualHost, StartCountDownAuto, StartsCountDown
<1>9. CASE UpdateDone \/ CountDownTick \/ EventGameStarted
  BY <1>4, <1>9 DEF UpdateDone, CountDownTick, EventGameStarted, NextUpdate
<1>10. CASE UNCHANGED vars
  BY <1>4, <1>10 DEF vars
<1>. QED
  BY <1>2, <1>3, <1>5, <1>6, <1>7, <1>8, <1>9, <1>10 DEF Next

\* Opening slots by PID, filling them, swapping them and displacing players never
\* leaves a slot with a player that is being removed, or a player with two slots:
\* although the PID of a displaced player is in use again before it is deleted.
THEOREM SlotsBelongToPlayers == Spec => []SlotsHaveOwners
<1>1. Init => SlotsAreOwned
  BY DEF Init, SlotsAreOwned, Open
<1>2. IInv /\ SlotsAreOwned /\ [Next]_vars => SlotsAreOwned'
  BY SlotsAreOwnedNext
<1>3. IInv /\ SlotsAreOwned => SlotsHaveOwners
  BY SlotsWithPIDs DEF IInv
<1>. QED  BY <1>1, <1>2, <1>3, Invariance, PTL DEF Spec

-----------------------------------------------------------------------------
(* A seat is lost only with the player.                                      *)

\* Some slot has the PID of the player.
Sits(i) == \E s \in SIDs : slots[s].pid = pidOf[i]

\* A seated player sits.
LEMMA SeatedSits ==
    ASSUME NEW i, Seated(i)
    PROVE  Sits(i)
BY DEF Seated, Sits, OwnerSlots, SlotsWith

\* After a step: a slot with the PID of a player is a human's.
LEMMA SitsSeated ==
    ASSUME IInv', NEW i \in present', Sits(i)'
    PROVE  Seated(i)'
<1>1. PICK s \in SIDs : slots'[s].pid = pidOf'[i]
  BY DEF Sits
<1>2. pidOf'[i] \in PIDs /\ slots'[s] \in Slot
  BY DEF IInv, TypeOK, People, PlayersHavePIDs
<1>3. slots'[s].status = "occupied" /\ ~ slots'[s].computer
  BY <1>1, <1>2 DEF Slot, Open, Closed, Computer, Human, PIDs
<1>. QED  BY <1>1, <1>3 DEF Seated, OwnerSlots, SlotsWith

\* A player nobody shares a PID with sits until it is flagged or gone.
LEMMA SitsNext ==
    ASSUME IInv, SlotsAreOwned, [Next]_vars,
           NEW i \in Keepers, Sits(i), i \in Keepers',
           \A j \in present : j # i => pidOf[j] # pidOf[i]
    PROVE  Sits(i)'
<1>0. /\ Staying \subseteq present /\ i \in Staying /\ i \in present /\ i \in Ids
      /\ pidOf[i] \in PIDs /\ pidOf[i] # 0 /\ pidOf[i] \notin fakes
  BY DEF Keepers, Staying, IInv, TypeOK, People, PlayersHavePIDs, PIDsDistinct, PIDs
<1>. PICK u \in SIDs : slots[u].pid = pidOf[i]
  BY DEF Sits
<1>1. ASSUME slots'[u] = slots[u], pidOf'[i] = pidOf[i] PROVE Sits(i)'
  BY <1>1 DEF Sits
<1>2. ASSUME NEW j \in present, j # i, slots' = OpenSlotOf(pidOf[j]), pidOf'[i] = pidOf[i]
      PROVE  Sits(i)'
  <2>1. pidOf[j] # pidOf[i] /\ pidOf[j] \in PIDs
    BY <1>2 DEF IInv, People, PlayersHavePIDs
  <2>2. slots'[u] = slots[u]
    BY <1>2, <2>1, SlotOpened DEF IInv
  <2>. QED  BY <1>1, <1>2, <2>2
<1>3. ASSUME NEW j \in present, Drop(j) PROVE Sits(i)'
  <2>1. j # i /\ pidOf' = pidOf
    BY <1>3 DEF Drop, Keepers
  <2>. QED  BY <1>2, <1>3, <2>1 DEF Drop
<1>4. ASSUME UNCHANGED <<playerVars, slots>> PROVE Sits(i)'
  BY <1>1, <1>4 DEF playerVars
<1>5. ASSUME NEW j \in present, Command(j) PROVE Sits(i)'
  <2>1. ASSUME NEW victim \in Staying, Kick(j, victim) PROVE Sits(i)'
    BY <1>0, <1>3, <2>1 DEF Kick
  <2>2. ASSUME NEW s \in SIDs, NEW value, SetSlot(j, s, value) PROVE Sits(i)'
    <3>1. i \notin PlayersInSlot(s) /\ pidOf' = pidOf
      BY <2>2 DEF SetSlot, Keepers
    <3>2. u # s
      BY <1>0, <3>1 DEF PlayersInSlot
    <3>3. slots'[u] = slots[u]
      BY <2>2, <3>2 DEF SetSlot, WithSlot, IInv, TypeOK
    <3>. QED  BY <1>1, <3>1, <3>3
  <2>3. ASSUME NEW from \in {Open, Closed}, NEW value, SetAllSlots(j, from, value) PROVE Sits(i)'
    <3>1. slots[u] # from
      BY <1>0 DEF Open, Closed
    <3>. QED  BY <1>1, <2>3, <3>1 DEF SetAllSlots, playerVars
  <2>4. ASSUME NEW s \in SIDs, NEW t \in SIDs, SwapSlots(j, s, t) PROVE Sits(i)'
    <3>1. /\ pidOf' = pidOf
          /\ \A r \in SIDs : slots'[r] = IF r = t THEN slots[s] ELSE IF r = s THEN slots[t] ELSE slots[r]
      BY <2>4 DEF SwapSlots, playerVars, IInv, TypeOK
    <3>2. \E r \in SIDs : slots'[r] = slots[u]
      BY <3>1
    <3>. QED  BY <3>1, <3>2 DEF Sits
  <2>5. CASE CreateFakePlayer(j)
    <3>1. SlotsWith("open") \in SUBSET SIDs /\ SlotsWith("open") # {}
      BY <2>5 DEF CreateFakePlayer, SlotsWith
    <3>2. slots[Min(SlotsWith("open"))].status = "open"
      BY <3>1, LeastSlot DEF SlotsWith
    <3>3. slots[u].status # "open"
      BY <1>0 DEF IInv, TypeOK, Slot, Open, Closed, Computer, Human
    <3>4. slots'[u] = slots[u]
      BY <2>5, <3>2, <3>3 DEF CreateFakePlayer, WithSlot, IInv, TypeOK
    <3>. QED  BY <1>1, <2>5, <3>4 DEF CreateFakePlayer, playerVars
  <2>6. CASE DeleteFakePlayer(j)
    BY <1>0, <1>1, <2>6 DEF DeleteFakePlayer, playerVars
  <2>7. CASE StartCountDown(j) \/ Abort(j)
    BY <1>4, <2>7 DEF StartCountDown, StartsCountDown, Abort
  <2>. QED  BY <1>5, <2>1, <2>2, <2>3, <2>4, <2>5, <2>6, <2>7 DEF Command
<1>6. ASSUME NEW j \in present, PlayerTurn(j) PROVE Sits(i)'
  <2>1. CASE KeepPlayer(j)
    BY <1>4, <2>1 DEF KeepPlayer
  <2>2. CASE DeletePlayer(j) \/ LosePlayer(j)
    <3>1. j # i
      BY <2>2 DEF DeletePlayer, LosePlayer, EventPlayerDeleted, Erased, Keepers, Staying
    <3>2. pidOf'[i] = pidOf[i]
      BY <1>0, <2>2, <3>1
      DEF DeletePlayer, LosePlayer, EventPlayerDeleted, Erased, IInv, TypeOK
    <3>. QED  BY <1>1, <1>2, <2>2, <3>1, <3>2 DEF DeletePlayer, LosePlayer
  <2>. QED  BY <1>6, <2>1, <2>2 DEF PlayerTurn
<1>7. ASSUME NEW kind \in Kinds, NEW s \in SlotsFor(kind), Join(kind, s) PROVE Sits(i)'
  <2>1. i \notin PlayersInSlot(s)
    BY <1>7 DEF Join, EventPlayerJoined, Keepers
  <2>2. u # s
    BY <1>0, <2>1 DEF PlayersInSlot
  <2>3. slots'[u] = slots[u]
    BY <1>7, <2>2 DEF Join, EventPlayerJoined, WithSlot, IInv, TypeOK
  <2>4. i # joined + 1
    BY <1>0 DEF IInv, TypeOK, People, PlayersHavePIDs
  <2>5. pidOf'[i] = pidOf[i]
    BY <1>7, <2>4 DEF Join, EventPlayerJoined, IInv, TypeOK
  <2>. QED  BY <1>1, <2>3, <2>5
<1>8. CASE ChecksDone \/ PlayersDone \/ CreateVirtualHost \/ StartCountDownAuto
  BY <1>4, <1>8 DEF ChecksDone, PlayersDone, CreateVirtualHost, StartCountDownAuto, StartsCountDown
<1>9. CASE UpdateDone \/ CountDownTick \/ EventGameStarted
  BY <1>4, <1>9 DEF UpdateDone, CountDownTick, EventGameStarted, NextUpdate
<1>10. CASE UNCHANGED vars
  BY <1>4, <1>10 DEF vars
<1>11. ASSUME NEW j \in present, ConnectCheckFails(j) \/ Departs(j) \/ SpoofKick(j)
       PROVE  Sits(i)'
  BY <1>3, <1>11 DEF ConnectCheckFails, Departs, SpoofKick
<1>12. ASSUME NEW j \in Staying, AnnounceKick(j) PROVE Sits(i)'
  BY <1>0, <1>3, <1>12 DEF AnnounceKick
<1>. QED
  BY <1>5, <1>6, <1>7, <1>8, <1>9, <1>10, <1>11, <1>12 DEF Next

\* Nobody is unflagged, and who joins was not in the game.
LEMMA KeepersWereKeepers ==
    ASSUME IInv, [Next]_vars, NEW i \in present, i \in Keepers'
    PROVE  i \in Keepers
<1>1. deleteMe \cap present' \subseteq deleteMe'
  <2>1. ASSUME NEW j \in present, PlayerTurn(j) PROVE deleteMe \cap present' \subseteq deleteMe'
    BY <2>1 DEF PlayerTurn, KeepPlayer, DeletePlayer, LosePlayer, EventPlayerDeleted, Erased, playerVars
  <2>2. ASSUME NEW j \in present, Command(j) PROVE deleteMe \subseteq deleteMe'
    BY <2>2 DEF Command, Kick, Drop, SetSlot, SetAllSlots, SwapSlots, CreateFakePlayer,
                DeleteFakePlayer, StartCountDown, StartsCountDown, Abort, playerVars
  <2>. QED
    BY <2>1, <2>2
    DEF Next, ConnectCheckFails, Departs, SpoofKick, AnnounceKick, Drop, Join, EventPlayerJoined,
        ChecksDone, PlayersDone, CreateVirtualHost, StartCountDownAuto, StartsCountDown,
        UpdateDone, CountDownTick, EventGameStarted, NextUpdate, playerVars, vars
<1>2. Keepers' = present' \ (leftSent' \cup deleteMe') /\ leftSent \subseteq deleteMe
  BY DEF Keepers, Staying, IInv, TypeOK
<1>. QED  BY <1>1, <1>2 DEF Keepers, Staying

\* No join, command, move or removal of somebody else takes the slot of a player
\* that nobody shares a PID with, for any map and any number of players.
THEOREM SeatsAreKept == Spec => PlayersKeepSlots
<1>. DEFINE Kept == \A i \in Staying : Seated(i) /\ ~Seated(i)' =>
                      \/ i \notin present' \ (leftSent' \cup deleteMe')
                      \/ \E j \in present : j # i /\ pidOf[j] = pidOf[i]
<1>1. IInv /\ SlotsAreOwned /\ [Next]_vars => Kept
  <2>. SUFFICES ASSUME IInv, SlotsAreOwned, [Next]_vars, NEW i \in Staying, Seated(i), ~Seated(i)',
                       i \in present' \ (leftSent' \cup deleteMe'),
                       \A j \in present : j # i => pidOf[j] # pidOf[i]
                PROVE  FALSE
    OBVIOUS
  <2>1. i \in present /\ i \in Keepers' /\ i \in present'
    BY DEF Keepers, Staying
  <2>2. i \in Keepers
    BY <2>1, KeepersWereKeepers
  <2>3. Sits(i)'
    BY <2>1, <2>2, SeatedSits, SitsNext
  <2>4. IInv'
    BY IInvNext
  <2>. QED  BY <2>1, <2>3, <2>4, SitsSeated
<1>2. Init => SlotsAreOwned
  BY DEF Init, SlotsAreOwned, Open
<1>3. IInv /\ SlotsAreOwned /\ [Next]_vars => SlotsAreOwned'
  BY SlotsAreOwnedNext
<1>4. PlayersKeepSlots <=> [][Kept]_vars
  BY DEF PlayersKeepSlots
<1>. HIDE DEF Kept
<1>. QED  BY <1>1, <1>2, <1>3, <1>4, Invariance, PTL DEF Spec

-----------------------------------------------------------------------------
(* The countdown.                                                            *)

\* While a countdown runs nobody has joined or left.
CountIsCurrent == countDown => counted = Staying

\* Every step keeps the count or aborts the countdown.
LEMMA CountIsCurrentNext == CountIsCurrent /\ [Next]_vars => CountIsCurrent'
<1>. SUFFICES ASSUME CountIsCurrent, [Next]_vars PROVE CountIsCurrent'
  OBVIOUS
<1>1. ASSUME UNCHANGED <<present, leftSent, countDown, counted>> PROVE CountIsCurrent'
  BY <1>1 DEF CountIsCurrent, Staying
<1>2. ASSUME StartsCountDown PROVE CountIsCurrent'
  BY <1>2 DEF StartsCountDown, CountIsCurrent, Staying, playerVars
<1>3. ASSUME AbortsCountDown PROVE CountIsCurrent'
  BY <1>3 DEF AbortsCountDown, CountIsCurrent
<1>4. ASSUME NEW i, Drop(i) PROVE CountIsCurrent'
  BY <1>1, <1>4 DEF Drop, clockVars
<1>5. ASSUME NEW i \in present, EventPlayerDeleted(i) PROVE CountIsCurrent'
  <2>1. CASE i \in leftSent
    BY <1>5, <2>1 DEF EventPlayerDeleted, Erased, CountIsCurrent, Staying, clockVars
  <2>. QED  BY <1>3, <1>5, <2>1 DEF EventPlayerDeleted
<1>6. ASSUME NEW i \in present, Command(i) PROVE CountIsCurrent'
  <2>1. ASSUME NEW victim, Kick(i, victim) PROVE CountIsCurrent'
    BY <1>4, <2>1 DEF Kick
  <2>2. ASSUME NEW s, NEW t, \/ SetSlot(i, s, t) \/ SetAllSlots(i, s, t) \/ SwapSlots(i, s, t)
                             \/ CreateFakePlayer(i) \/ DeleteFakePlayer(i)
        PROVE  CountIsCurrent'
    BY <1>1, <2>2
    DEF SetSlot, SetAllSlots, SwapSlots, CreateFakePlayer, DeleteFakePlayer, playerVars, clockVars
  <2>3. CASE StartCountDown(i) \/ Abort(i)
    BY <1>2, <1>3, <2>3 DEF StartCountDown, Abort
  <2>. QED  BY <1>6, <2>1, <2>2, <2>3 DEF Command
<1>7. ASSUME NEW i \in present, PlayerTurn(i) PROVE CountIsCurrent'
  BY <1>1, <1>5, <1>7 DEF PlayerTurn, KeepPlayer, DeletePlayer, LosePlayer, playerVars, clockVars
<1>8. ASSUME NEW i, \/ ConnectCheckFails(i) \/ Departs(i) \/ SpoofKick(i) \/ AnnounceKick(i)
      PROVE  CountIsCurrent'
  BY <1>4, <1>8 DEF ConnectCheckFails, Departs, SpoofKick, AnnounceKick
<1>9. ASSUME NEW kind, NEW s, Join(kind, s) PROVE CountIsCurrent'
  BY <1>3, <1>9 DEF Join, EventPlayerJoined
<1>10. CASE ChecksDone \/ PlayersDone \/ CreateVirtualHost
  BY <1>1, <1>10 DEF ChecksDone, PlayersDone, CreateVirtualHost, playerVars, clockVars
<1>11. CASE StartCountDownAuto
  BY <1>2, <1>11 DEF StartCountDownAuto
<1>12. CASE UpdateDone \/ CountDownTick \/ EventGameStarted
  BY <1>1, <1>12 DEF UpdateDone, CountDownTick, EventGameStarted, NextUpdate, playerVars
<1>13. CASE UNCHANGED vars
  BY <1>1, <1>13 DEF vars, playerVars, clockVars
<1>. QED
  BY <1>6, <1>7, <1>8, <1>9, <1>10, <1>11, <1>12, <1>13 DEF Next

\* Whoever joins or leaves during a countdown aborts it, so the game never starts
\* with other players than those its countdown was started with.
THEOREM GamesStartAsCounted == Spec => CountDownIsHonest
<1>1. Init => CountIsCurrent
  BY DEF Init, CountIsCurrent
<1>2. CountIsCurrent /\ [Next]_vars => CountIsCurrent'
  BY CountIsCurrentNext
<1>3. CountIsCurrent => (EventGameStarted => counted = Staying)
  BY DEF CountIsCurrent, EventGameStarted
<1>. QED  BY <1>1, <1>2, <1>3, PTL DEF Spec, CountDownIsHonest

-----------------------------------------------------------------------------
(* The balancing of the teams.  Induction over the natural numbers, for sets.  *)

LEMMA SetInduction ==
    ASSUME NEW S, 0 \in S, \A n \in Nat : n \in S => n + 1 \in S
    PROVE  Nat \subseteq S
<1>. SUFFICES ASSUME NEW k \in Nat, k \notin S PROVE FALSE
  OBVIOUS
<1>. DEFINE missing == {n \in Nat : n \notin S}
<1>1. PICK m \in missing : \A n \in missing : m <= n
  BY SmallestMember
<1>2. m # 0 /\ m - 1 \in Nat /\ (m - 1) + 1 = m
  BY <1>1
<1>3. m - 1 \notin missing
  BY <1>1, <1>2
<1>. QED  BY <1>1, <1>2, <1>3

-----------------------------------------------------------------------------
(* Sums.                                                                    *)

\* The sums of f over the members of S up to each number up to n.
Sums(f, S, g, n) ==
  g = [k \in 0..n |-> IF k = 0 THEN 0 ELSE g[k - 1] + IF k \in S THEN f[k] ELSE 0]

LEMMA SumsExist == ASSUME NEW f, NEW S, NEW n \in Nat PROVE \E g : Sums(f, S, g, n)
<1>. DEFINE X == {k \in Nat : \E g : Sums(f, S, g, k)}
<1>1. 0 \in X
  <2>. DEFINE g == [i \in 0..0 |-> 0]
  <2>1. Sums(f, S, g, 0)
    BY DEF Sums
  <2>. QED  BY <2>1
<1>2. ASSUME NEW k \in Nat, k \in X PROVE k + 1 \in X
  <2>1. PICK g : Sums(f, S, g, k)
    BY <1>2
  <2>. DEFINE more == IF k + 1 \in S THEN f[k + 1] ELSE 0
              h == [i \in 0..k + 1 |-> IF i = k + 1 THEN g[k] + more ELSE g[i]]
  <2>2. ASSUME NEW i \in 0..k + 1
        PROVE  h[i] = IF i = 0 THEN 0 ELSE h[i - 1] + IF i \in S THEN f[i] ELSE 0
    <3>1. CASE i = k + 1
      <4>1. i # 0 /\ i - 1 = k /\ k \in 0..k + 1 /\ k # k + 1
        BY <3>1
      <4>2. h[i] = g[k] + more /\ h[i - 1] = g[k]
        BY <3>1, <4>1
      <4>. QED  BY <3>1, <4>1, <4>2
    <3>2. CASE i # k + 1
      <4>1. i \in 0..k /\ (i # 0 => i - 1 \in 0..k + 1 /\ i - 1 # k + 1)
        BY <3>2
      <4>2. g[i] = IF i = 0 THEN 0 ELSE g[i - 1] + IF i \in S THEN f[i] ELSE 0
        BY <2>1, <4>1 DEF Sums
      <4>3. h[i] = g[i] /\ (i # 0 => h[i - 1] = g[i - 1])
        BY <3>2, <4>1
      <4>. HIDE DEF h
      <4>. QED  BY <4>2, <4>3
    <3>. QED  BY <3>1, <3>2
  <2>3. h = [i \in 0..k + 1 |-> h[i]]
    OBVIOUS
  <2>. HIDE DEF h
  <2>4. Sums(f, S, h, k + 1)
    BY <2>2, <2>3 DEF Sums
  <2>. QED  BY <2>4
<1>. HIDE DEF X
<1>3. n \in X
  BY <1>1, <1>2, SetInduction
<1>. QED  BY <1>3 DEF X

\* How far the sums go makes no difference.
LEMMA SumsAgree ==
    ASSUME NEW f, NEW S, NEW g, NEW h, NEW m \in Nat, NEW n \in Nat, m <= n,
           Sums(f, S, g, m), Sums(f, S, h, n)
    PROVE  g[m] = h[m]
<1>. DEFINE X == {k \in Nat : k <= m => g[k] = h[k]}
<1>1. 0 \in X
  BY DEF Sums
<1>2. ASSUME NEW k \in Nat, k \in X PROVE k + 1 \in X
  <2>. SUFFICES ASSUME k + 1 <= m PROVE g[k + 1] = h[k + 1]
    OBVIOUS
  <2>1. k + 1 \in 0..m /\ k + 1 \in 0..n /\ k + 1 # 0 /\ (k + 1) - 1 = k
    OBVIOUS
  <2>2. g[k + 1] = g[k] + IF k + 1 \in S THEN f[k + 1] ELSE 0
    BY <2>1 DEF Sums
  <2>3. h[k + 1] = h[k] + IF k + 1 \in S THEN f[k + 1] ELSE 0
    BY <2>1 DEF Sums
  <2>. QED  BY <1>2, <2>2, <2>3
<1>. HIDE DEF X
<1>3. m \in X
  BY <1>1, <1>2, SetInduction
<1>. QED  BY <1>3 DEF X

LEMMA SumOfSums ==
    ASSUME NEW f, NEW S, NEW n \in Nat
    PROVE  \E g : Sums(f, S, g, n) /\ SumUpTo(f, S, n) = g[n]
<1>. DEFINE g == CHOOSE h : Sums(f, S, h, n)
<1>1. Sums(f, S, g, n)
  BY SumsExist
<1>2. SumUpTo(f, S, n) = g[n]
  BY DEF SumUpTo, Sums
<1>. QED  BY <1>1, <1>2

LEMMA SumZero == ASSUME NEW f, NEW S PROVE SumUpTo(f, S, 0) = 0
<1>1. PICK g : Sums(f, S, g, 0) /\ SumUpTo(f, S, 0) = g[0]
  BY SumOfSums
<1>. QED  BY <1>1 DEF Sums

LEMMA SumNext ==
    ASSUME NEW f, NEW S, NEW n \in Nat
    PROVE  SumUpTo(f, S, n + 1) = SumUpTo(f, S, n) + IF n + 1 \in S THEN f[n + 1] ELSE 0
<1>1. PICK g : Sums(f, S, g, n) /\ SumUpTo(f, S, n) = g[n]
  BY SumOfSums
<1>2. PICK h : Sums(f, S, h, n + 1) /\ SumUpTo(f, S, n + 1) = h[n + 1]
  BY SumOfSums
<1>3. g[n] = h[n]
  BY <1>1, <1>2, SumsAgree
<1>4. n + 1 \in 0..n + 1 /\ n + 1 # 0 /\ (n + 1) - 1 = n
  OBVIOUS
<1>5. h[n + 1] = h[n] + IF n + 1 \in S THEN f[n + 1] ELSE 0
  BY <1>2, <1>4 DEF Sums
<1>. QED  BY <1>1, <1>2, <1>3, <1>5

LEMMA SumType ==
    ASSUME NEW f, NEW S, NEW n \in Nat, \A k \in S \cap 1..n : f[k] \in Nat
    PROVE  SumUpTo(f, S, n) \in Nat
<1>. DEFINE X == {k \in Nat : k <= n => SumUpTo(f, S, k) \in Nat}
<1>1. 0 \in X
  BY SumZero
<1>2. ASSUME NEW k \in Nat, k \in X PROVE k + 1 \in X
  <2>. SUFFICES ASSUME k + 1 <= n PROVE SumUpTo(f, S, k + 1) \in Nat
    OBVIOUS
  <2>1. SumUpTo(f, S, k) \in Nat
    BY <1>2
  <2>2. k + 1 \in S => f[k + 1] \in Nat
    OBVIOUS
  <2>. QED  BY <2>1, <2>2, SumNext
<1>. HIDE DEF X
<1>3. n \in X
  BY <1>1, <1>2, SetInduction
<1>. QED  BY <1>3 DEF X

\* A sum depends on what is summed only.
LEMMA SumSame ==
    ASSUME NEW f, NEW g, NEW S, NEW T, NEW n \in Nat, S \cap 1..n = T \cap 1..n,
           \A k \in S \cap 1..n : f[k] = g[k]
    PROVE  SumUpTo(f, S, n) = SumUpTo(g, T, n)
<1>. DEFINE X == {k \in Nat : k <= n => SumUpTo(f, S, k) = SumUpTo(g, T, k)}
<1>1. 0 \in X
  BY SumZero
<1>2. ASSUME NEW k \in Nat, k \in X PROVE k + 1 \in X
  <2>. SUFFICES ASSUME k + 1 <= n PROVE SumUpTo(f, S, k + 1) = SumUpTo(g, T, k + 1)
    OBVIOUS
  <2>1. SumUpTo(f, S, k) = SumUpTo(g, T, k)
    BY <1>2
  <2>2. k + 1 \in 1..n
    OBVIOUS
  <2>3. /\ k + 1 \in S <=> k + 1 \in T
        /\ k + 1 \in S => f[k + 1] = g[k + 1]
    BY <2>2
  <2>. QED  BY <2>1, <2>3, SumNext
<1>. HIDE DEF X
<1>3. n \in X
  BY <1>1, <1>2, SetInduction
<1>. QED  BY <1>3 DEF X

LEMMA SumUnion ==
    ASSUME NEW f, NEW S, NEW T, NEW n \in Nat, S \cap T = {},
           \A k \in (S \cup T) \cap 1..n : f[k] \in Nat
    PROVE  SumUpTo(f, S \cup T, n) = SumUpTo(f, S, n) + SumUpTo(f, T, n)
<1>. DEFINE X == {k \in Nat : k <= n =>
                    SumUpTo(f, S \cup T, k) = SumUpTo(f, S, k) + SumUpTo(f, T, k)}
<1>1. 0 \in X
  BY SumZero
<1>2. ASSUME NEW k \in Nat, k \in X PROVE k + 1 \in X
  <2>. SUFFICES ASSUME k + 1 <= n
                PROVE  SumUpTo(f, S \cup T, k + 1) = SumUpTo(f, S, k + 1) + SumUpTo(f, T, k + 1)
    OBVIOUS
  <2>. DEFINE a == SumUpTo(f, S, k)
              b == SumUpTo(f, T, k)
  <2>1. a \in Nat /\ b \in Nat /\ SumUpTo(f, S \cup T, k) = a + b
    <3>1. \A i \in S \cap 1..k : f[i] \in Nat
      OBVIOUS
    <3>2. \A i \in T \cap 1..k : f[i] \in Nat
      OBVIOUS
    <3>. QED  BY <1>2, <3>1, <3>2, SumType
  <2>2. k + 1 \in S \cup T => f[k + 1] \in Nat
    OBVIOUS
  <2>3. /\ SumUpTo(f, S, k + 1) = a + IF k + 1 \in S THEN f[k + 1] ELSE 0
        /\ SumUpTo(f, T, k + 1) = b + IF k + 1 \in T THEN f[k + 1] ELSE 0
        /\ SumUpTo(f, S \cup T, k + 1) = (a + b) + IF k + 1 \in S \cup T THEN f[k + 1] ELSE 0
    BY <2>1, SumNext
  <2>. HIDE DEF a, b
  <2>4. ~ (k + 1 \in S /\ k + 1 \in T)
    OBVIOUS
  <2>. QED  BY <2>1, <2>2, <2>3, <2>4
<1>. HIDE DEF X
<1>3. n \in X
  BY <1>1, <1>2, SetInduction
<1>. QED  BY <1>3 DEF X

LEMMA SumNone == ASSUME NEW f, NEW S, NEW n \in Nat, S \cap 1..n = {} PROVE SumUpTo(f, S, n) = 0
<1>. DEFINE sum == SumUpTo(f, {}, n)
<1>1. SumUpTo(f, S, n) = sum
  BY SumSame
<1>2. sum \in Nat
  BY SumType
<1>3. SumUpTo(f, {} \cup {}, n) = sum + sum
  BY SumUnion
<1>4. {} \cup {} = {}
  OBVIOUS
<1>5. sum = sum + sum
  BY <1>3, <1>4, Zenon
<1>. HIDE DEF sum
<1>6. sum = 0
  BY <1>2, <1>5
<1>. QED  BY <1>1, <1>6

-----------------------------------------------------------------------------
(* The teams one after the other.                                           *)

LEMMA OffsetSteps ==
    ASSUME NEW sizes \in [Teams -> Nat], NEW start \in 1..NumTeams + 1
    PROVE  /\ Offset(sizes, start, start) = 0
           /\ \A t \in start..NumTeams + 1 : Offset(sizes, start, t) \in Nat
           /\ \A t \in start..NumTeams :
                Offset(sizes, start, t + 1) = Offset(sizes, start, t) + sizes[t]
<1>. USE BalanceAssumption DEF Teams
<1>1. Offset(sizes, start, start) = 0
  BY SumNone DEF Offset
<1>2. ASSUME NEW t \in start..NumTeams + 1 PROVE Offset(sizes, start, t) \in Nat
  <2>1. t - 1 \in Nat /\ \A k \in (start..NumTeams) \cap 1..(t - 1) : sizes[k] \in Nat
    OBVIOUS
  <2>. QED  BY <2>1, SumType DEF Offset
<1>3. ASSUME NEW t \in start..NumTeams
      PROVE  Offset(sizes, start, t + 1) = Offset(sizes, start, t) + sizes[t]
  <2>1. t - 1 \in Nat /\ (t - 1) + 1 = t /\ (t + 1) - 1 = t
    OBVIOUS
  <2>2. SumUpTo(sizes, start..NumTeams, (t - 1) + 1) = SumUpTo(sizes, start..NumTeams, t - 1) + sizes[t]
    BY <2>1, SumNext
  <2>. QED  BY <2>1, <2>2 DEF Offset
<1>. QED  BY <1>1, <1>2, <1>3

LEMMA OffsetGrows ==
    ASSUME NEW sizes \in [Teams -> Nat], NEW start \in 1..NumTeams + 1,
           NEW t \in start..NumTeams + 1, NEW u \in t..NumTeams + 1
    PROVE  Offset(sizes, start, t) <= Offset(sizes, start, u)
<1>. DEFINE X == {n \in Nat : t + n <= NumTeams + 1 =>
                    Offset(sizes, start, t) <= Offset(sizes, start, t + n)}
<1>1. 0 \in X
  BY OffsetSteps
<1>2. ASSUME NEW n \in Nat, n \in X PROVE n + 1 \in X
  <2>. SUFFICES ASSUME t + (n + 1) <= NumTeams + 1
                PROVE  Offset(sizes, start, t) <= Offset(sizes, start, t + (n + 1))
    OBVIOUS
  <2>1. t + n \in start..NumTeams /\ t + (n + 1) = (t + n) + 1 /\ t + n \in Teams
        /\ t + n \in start..NumTeams + 1
    BY BalanceAssumption DEF Teams
  <2>2. Offset(sizes, start, t + (n + 1)) = Offset(sizes, start, t + n) + sizes[t + n]
    BY <2>1, OffsetSteps
  <2>3. Offset(sizes, start, t) <= Offset(sizes, start, t + n)
    BY <1>2, <2>1
  <2>4. Offset(sizes, start, t) \in Nat /\ Offset(sizes, start, t + n) \in Nat /\ sizes[t + n] \in Nat
    BY <2>1, OffsetSteps
  <2>. QED  BY <2>2, <2>3, <2>4
<1>. HIDE DEF X
<1>3. u - t \in Nat /\ t + (u - t) = u
  BY BalanceAssumption
<1>4. u - t \in X
  BY <1>1, <1>2, <1>3, SetInduction
<1>. QED  BY <1>3, <1>4 DEF X

\* Nobody is on two teams.
LEMMA BlocksApart ==
    ASSUME NEW sizes \in [Teams -> Nat], NEW start \in 1..NumTeams + 1,
           NEW t \in start..NumTeams, NEW u \in start..NumTeams, t < u
    PROVE  \A j \in Block(sizes, start, t), k \in Block(sizes, start, u) : j < k
<1>1. /\ t + 1 \in start..NumTeams + 1 /\ u \in (t + 1)..NumTeams + 1
      /\ u \in start..NumTeams + 1 /\ t \in start..NumTeams + 1
      /\ t \in Teams /\ u \in Teams
  BY BalanceAssumption DEF Teams
<1>2. Offset(sizes, start, t) + sizes[t] <= Offset(sizes, start, u)
  BY <1>1, OffsetSteps, OffsetGrows
<1>3. Offset(sizes, start, t) \in Nat /\ Offset(sizes, start, u) \in Nat /\ sizes[t] \in Nat /\ sizes[u] \in Nat
  BY <1>1, OffsetSteps
<1>. QED  BY <1>2, <1>3 DEF Block

LEMMA BlockType ==
    ASSUME NEW sizes \in [Teams -> Nat], NEW start \in 1..NumTeams + 1, NEW t \in start..NumTeams
    PROVE  /\ Offset(sizes, start, t) \in Nat /\ sizes[t] \in Nat
           /\ Offset(sizes, start, t) + sizes[t] <= Offset(sizes, start, NumTeams + 1)
           /\ Offset(sizes, start, NumTeams + 1) \in Nat
           /\ Block(sizes, start, t) \subseteq 1..Offset(sizes, start, NumTeams + 1)
<1>1. /\ t + 1 \in start..NumTeams + 1 /\ NumTeams + 1 \in (t + 1)..NumTeams + 1
      /\ NumTeams + 1 \in start..NumTeams + 1 /\ t \in start..NumTeams + 1
      /\ t \in Teams
  BY BalanceAssumption DEF Teams
<1>2. Offset(sizes, start, t) + sizes[t] <= Offset(sizes, start, NumTeams + 1)
  BY <1>1, OffsetSteps, OffsetGrows
<1>3. Offset(sizes, start, t) \in Nat /\ Offset(sizes, start, NumTeams + 1) \in Nat /\ sizes[t] \in Nat
  BY <1>1, OffsetSteps
<1>. QED  BY <1>2, <1>3 DEF Block

LEMMA OneTeam ==
    ASSUME NEW sizes \in [Teams -> Nat], NEW start \in 1..NumTeams + 1,
           NEW t \in start..NumTeams, NEW u \in start..NumTeams,
           NEW k \in Block(sizes, start, t), k \in Block(sizes, start, u)
    PROVE  t = u
<1>1. t \in Int /\ u \in Int /\ k \in Int
  BY BlockType, BalanceAssumption
<1>2. ~ (t < u)
  <2>. SUFFICES ASSUME t < u PROVE FALSE
    OBVIOUS
  <2>1. k < k
    BY BlocksApart
  <2>. QED  BY <1>1, <2>1
<1>3. ~ (u < t)
  <2>. SUFFICES ASSUME u < t PROVE FALSE
    OBVIOUS
  <2>1. k < k
    BY BlocksApart
  <2>. QED  BY <1>1, <2>1
<1>. QED  BY <1>1, <1>2, <1>3

\* Everybody is on a team.
LEMMA SomeTeam ==
    ASSUME NEW sizes \in [Teams -> Nat], NEW start \in 1..NumTeams + 1,
           NEW k \in 1..Offset(sizes, start, NumTeams + 1)
    PROVE  \E t \in start..NumTeams : k \in Block(sizes, start, t)
<1>. DEFINE X == {n \in Nat : start + n <= NumTeams + 1 =>
                    \A j \in 1..Offset(sizes, start, start + n) :
                      \E t \in start..NumTeams : j \in Block(sizes, start, t)}
<1>1. 0 \in X
  BY OffsetSteps
<1>2. ASSUME NEW n \in Nat, n \in X PROVE n + 1 \in X
  <2>. SUFFICES ASSUME start + (n + 1) <= NumTeams + 1,
                       NEW j \in 1..Offset(sizes, start, start + (n + 1))
                PROVE  \E t \in start..NumTeams : j \in Block(sizes, start, t)
    OBVIOUS
  <2>1. /\ start + n \in start..NumTeams /\ start + (n + 1) = (start + n) + 1
        /\ start + n \in Teams /\ start + n \in start..NumTeams + 1
    BY BalanceAssumption DEF Teams
  <2>2. Offset(sizes, start, start + (n + 1)) = Offset(sizes, start, start + n) + sizes[start + n]
    BY <2>1, OffsetSteps
  <2>3. Offset(sizes, start, start + n) \in Nat /\ sizes[start + n] \in Nat
    BY <2>1, OffsetSteps
  <2>4. CASE j <= Offset(sizes, start, start + n)
    BY <1>2, <2>1, <2>3, <2>4
  <2>5. CASE ~ (j <= Offset(sizes, start, start + n))
    <3>1. j \in Block(sizes, start, start + n)
      BY <2>2, <2>3, <2>5 DEF Block
    <3>. QED  BY <2>1, <3>1
  <2>. QED  BY <2>4, <2>5
<1>. HIDE DEF X
<1>3. NumTeams + 1 - start \in Nat /\ start + (NumTeams + 1 - start) = NumTeams + 1
  BY BalanceAssumption
<1>4. NumTeams + 1 - start \in X
  BY <1>1, <1>2, <1>3, SetInduction
<1>. QED  BY <1>3, <1>4 DEF X

\* The sizes of the teams add up to the number of players.
LEMMA SizesAddUp ==
    ASSUME NEW P, IsFiniteSet(P), NEW f \in [P -> Teams], NEW sizes \in [Teams -> Nat],
           \A t \in Teams : sizes[t] = Cardinality({p \in P : f[p] = t})
    PROVE  Offset(sizes, 1, NumTeams + 1) = Cardinality(P)
<1>. DEFINE upTo(n) == {p \in P : f[p] <= n}
            X == {n \in Nat : n <= NumTeams => SumUpTo(sizes, 1..NumTeams, n) = Cardinality(upTo(n))}
<1>1. 0 \in X
  <2>1. upTo(0) = {}
    BY DEF Teams
  <2>. QED  BY <2>1, SumZero, FS_EmptySet
<1>2. ASSUME NEW n \in Nat, n \in X PROVE n + 1 \in X
  <2>. HIDE DEF upTo
  <2>. SUFFICES ASSUME n + 1 <= NumTeams
                PROVE  SumUpTo(sizes, 1..NumTeams, n + 1) = Cardinality(upTo(n + 1))
    OBVIOUS
  <2>. DEFINE here == {p \in P : f[p] = n + 1}
  <2>1. n + 1 \in Teams /\ n + 1 \in 1..NumTeams
    BY BalanceAssumption DEF Teams
  <2>2. SumUpTo(sizes, 1..NumTeams, n + 1) = SumUpTo(sizes, 1..NumTeams, n) + Cardinality(here)
    BY <2>1, SumNext
  <2>3. upTo(n + 1) = upTo(n) \cup here /\ upTo(n) \cap here = {}
    BY DEF Teams, upTo
  <2>4. IsFiniteSet(upTo(n)) /\ IsFiniteSet(here)
    BY FS_Subset DEF upTo
  <2>. HIDE DEF upTo, here
  <2>5. Cardinality(upTo(n + 1)) = Cardinality(upTo(n)) + Cardinality(here)
    <3>1. /\ Cardinality(upTo(n) \cup here)
               = Cardinality(upTo(n)) + Cardinality(here) - Cardinality(upTo(n) \cap here)
          /\ Cardinality(upTo(n)) \in Nat /\ Cardinality(here) \in Nat
      BY <2>4, FS_Union, FS_CardinalityType
    <3>2. Cardinality(upTo(n) \cap here) = 0
      BY <2>3, FS_EmptySet
    <3>3. Cardinality(upTo(n + 1)) = Cardinality(upTo(n) \cup here)
      BY <2>3
    <3>. DEFINE a == Cardinality(upTo(n))
                b == Cardinality(here)
                c == Cardinality(upTo(n) \cap here)
                d == Cardinality(upTo(n) \cup here)
    <3>4. d = a + b - c /\ a \in Nat /\ b \in Nat /\ c = 0
      BY <3>1, <3>2
    <3>. HIDE DEF a, b, c, d
    <3>5. d = a + b
      BY <3>4
    <3>. QED  BY <3>3, <3>5 DEF a, b, d
  <2>6. SumUpTo(sizes, 1..NumTeams, n) = Cardinality(upTo(n))
    BY <1>2, <2>1, BalanceAssumption DEF Teams
  <2>. QED  BY <2>2, <2>5, <2>6
<1>3. upTo(NumTeams) = P
  BY DEF Teams
<1>. HIDE DEF X, upTo
<1>4. NumTeams \in X
  BY <1>1, <1>2, SetInduction, BalanceAssumption
<1>5. NumTeams <= NumTeams /\ (NumTeams + 1) - 1 = NumTeams
  BY BalanceAssumption
<1>. QED  BY <1>3, <1>4, <1>5 DEF X, Offset

-----------------------------------------------------------------------------
(* Sorting.                                                                 *)

LEMMA Ranks ==
    ASSUME NEW S \in SUBSET Int, IsFiniteSet(S)
    PROVE  /\ \A x \in S : Cardinality({y \in S : y < x}) \in 0..Cardinality(S) - 1
           /\ \A x, z \in S : x < z => Cardinality({y \in S : y < x}) < Cardinality({y \in S : y < z})
<1>. DEFINE lower(x) == {y \in S : y < x}
<1>1. ASSUME NEW x \in S
      PROVE  IsFiniteSet(lower(x)) /\ Cardinality(lower(x)) \in Nat
  BY FS_Subset, FS_CardinalityType
<1>2. ASSUME NEW x \in S
      PROVE  Cardinality(lower(x)) < Cardinality(S)
  <2>1. lower(x) \subseteq S /\ lower(x) # S
    <3>1. ~ (x < x)
      OBVIOUS
    <3>. QED  BY <3>1
  <2>. HIDE DEF lower
  <2>. QED  BY <2>1, <1>1, FS_Subset, FS_CardinalityType
<1>3. ASSUME NEW x \in S, NEW z \in S, x < z
      PROVE  Cardinality(lower(x)) < Cardinality(lower(z))
  <2>0. ~ (x < x) /\ \A y \in S : y < x => y < z
    BY <1>3
  <2>1. lower(x) \subseteq lower(z) /\ x \in lower(z) /\ x \notin lower(x)
    BY <1>3, <2>0
  <2>2. lower(x) # lower(z)
    BY <2>1
  <2>. HIDE DEF lower
  <2>. QED  BY <1>1, <2>1, <2>2, FS_Subset, FS_CardinalityType
<1>4. Cardinality(S) \in Nat
  BY FS_CardinalityType
<1>5. \A x \in S : Cardinality(lower(x)) \in 0..Cardinality(S) - 1
  <2>. HIDE DEF lower
  <2>. QED  BY <1>1, <1>2, <1>4
<1>. QED  BY <1>3, <1>5

LEMMA SortedProperties ==
    ASSUME NEW S \in SUBSET Int, IsFiniteSet(S)
    PROVE  /\ Sorted(S) \in [1..Cardinality(S) -> S]
           /\ \A j, k \in 1..Cardinality(S) : j < k => Sorted(S)[j] < Sorted(S)[k]
           /\ \A x \in S : \E k \in 1..Cardinality(S) : Sorted(S)[k] = x
<1>. DEFINE n == Cardinality(S)
            rank(x) == Cardinality({y \in S : y < x})
            f == [x \in S |-> rank(x) + 1]
<1>1. n \in Nat
  BY FS_CardinalityType
<1>2. \A x \in S : rank(x) \in 0..n - 1
  BY Ranks
<1>3. \A x, z \in S : x < z => rank(x) < rank(z)
  BY Ranks
<1>4. Sorted(S) = [k \in 1..n |-> CHOOSE x \in S : rank(x) = k - 1]
  BY DEF Sorted
<1>. HIDE DEF n, rank
<1>5. \A x, z \in S : rank(x) = rank(z) => x = z
  <2>. SUFFICES ASSUME NEW x \in S, NEW z \in S, rank(x) = rank(z) PROVE x = z
    OBVIOUS
  <2>1. ~ (x < z) /\ ~ (z < x)
    BY <1>1, <1>2, <1>3
  <2>. QED  BY <2>1
<1>6. f \in Injection(S, 1..n)
  <2>1. f \in [S -> 1..n]
    BY <1>1, <1>2
  <2>2. \A x, z \in S : f[x] = f[z] => x = z
    BY <1>1, <1>2, <1>5
  <2>. HIDE DEF f
  <2>. QED  BY <2>1, <2>2 DEF Injection, IsInjective
<1>7. IsFiniteSet(1..n) /\ Cardinality(1..n) = n
  BY <1>1, FS_Interval
<1>8. f \in Surjection(S, 1..n)
  <2>. HIDE DEF f
  <2>. QED  BY <1>6, <1>7, FS_Injection DEF n
<1>9. \A k \in 1..n : \E x \in S : rank(x) = k - 1
  <2>. SUFFICES ASSUME NEW k \in 1..n PROVE \E x \in S : rank(x) = k - 1
    OBVIOUS
  <2>1. PICK x \in S : f[x] = k
    <3>. HIDE DEF f
    <3>. QED  BY <1>8 DEF Surjection
  <2>. QED  BY <1>1, <1>2, <2>1
<1>10. \A k \in 1..n : Sorted(S)[k] \in S /\ rank(Sorted(S)[k]) = k - 1
  BY <1>4, <1>9
<1>11. Sorted(S) \in [1..n -> S]
  BY <1>4, <1>10
<1>12. ASSUME NEW j \in 1..n, NEW k \in 1..n, j < k PROVE Sorted(S)[j] < Sorted(S)[k]
  <2>. DEFINE x == Sorted(S)[j]
              z == Sorted(S)[k]
  <2>1. x \in S /\ z \in S /\ rank(x) = j - 1 /\ rank(z) = k - 1
    BY <1>10
  <2>. HIDE DEF x, z
  <2>2. x # z /\ ~ (z < x)
    BY <1>1, <1>3, <1>12, <2>1
  <2>3. x < z
    BY <2>1, <2>2
  <2>. QED  BY <2>3 DEF x, z
<1>13. ASSUME NEW x \in S PROVE \E k \in 1..n : Sorted(S)[k] = x
  <2>1. rank(x) + 1 \in 1..n /\ (rank(x) + 1) - 1 = rank(x)
    BY <1>1, <1>2
  <2>2. Sorted(S)[rank(x) + 1] = x
    BY <1>5, <1>10, <2>1
  <2>. QED  BY <2>1, <2>2
<1>. QED  BY <1>11, <1>12, <1>13 DEF n

-----------------------------------------------------------------------------
(* The largest and the first.                                               *)

LEMMA LargestMember ==
    ASSUME NEW S \in SUBSET Nat, S # {}, NEW n \in Nat, \A k \in S : k <= n
    PROVE  Max(S) \in S /\ \A k \in S : k <= Max(S)
<1>. DEFINE bounds == {b \in Nat : \A k \in S : k <= b}
<1>1. PICK m \in bounds : \A b \in bounds : m <= b
  <2>1. n \in bounds
    OBVIOUS
  <2>. QED  BY <2>1, SmallestMember
<1>2. m \in S
  <2>. SUFFICES ASSUME m \notin S PROVE FALSE
    OBVIOUS
  <2>1. \A k \in S : k < m
    OBVIOUS
  <2>0. PICK k \in S : k \in Nat /\ k < m
    BY <2>1
  <2>2. m # 0 /\ m - 1 \in Nat
    BY <2>0
  <2>3. m - 1 \in bounds
    BY <2>1, <2>2
  <2>. QED  BY <1>1, <2>2, <2>3
<1>3. \A k \in S : m >= k
  OBVIOUS
<1>4. Max(S) \in S /\ \A k \in S : Max(S) >= k
  BY <1>2, <1>3 DEF Max
<1>. QED  BY <1>4

LEMMA LeastIsMember ==
    ASSUME NEW S \in SUBSET Nat, S # {}
    PROVE  Min(S) \in S /\ \A k \in S : Min(S) <= k
BY SmallestMember DEF Min

\* The spread of some totals is the least number that no difference exceeds.
LEMMA SpreadProperties ==
    ASSUME NEW total, NEW playing, NEW n \in Nat,
           \A t \in playing : total[t] \in Nat /\ total[t] <= n
    PROVE  /\ Spread(total, playing) \in Nat
           /\ \A t, u \in playing : total[t] - total[u] <= Spread(total, playing)
           /\ \A b \in Nat : (\A t, u \in playing : total[t] - total[u] <= b) =>
                                Spread(total, playing) <= b
<1>. DEFINE S == {Abs(total[t] - total[u]) : t, u \in playing} \cup {0}
<1>1. \A t, u \in playing :
        /\ Abs(total[t] - total[u]) \in Nat /\ Abs(total[t] - total[u]) <= n
        /\ total[t] - total[u] <= Abs(total[t] - total[u])
        /\ Abs(total[t] - total[u]) = total[t] - total[u] \/ Abs(total[t] - total[u]) = total[u] - total[t]
  BY DEF Abs
<1>2. S \in SUBSET Nat /\ S # {} /\ \A k \in S : k <= n
  BY <1>1
<1>3. Max(S) \in S /\ \A k \in S : k <= Max(S)
  <2>. HIDE DEF S
  <2>. QED  BY <1>2, LargestMember
<1>4. Spread(total, playing) = Max(S)
  BY DEF Spread
<1>5. Max(S) \in Nat
  <2>. HIDE DEF S
  <2>. QED  BY <1>2, <1>3
<1>6. ASSUME NEW t \in playing, NEW u \in playing PROVE total[t] - total[u] <= Max(S)
  <2>1. Abs(total[t] - total[u]) \in S
    OBVIOUS
  <2>2. Abs(total[t] - total[u]) <= Max(S)
    <3>. HIDE DEF S
    <3>. QED  BY <1>3, <2>1
  <2>. HIDE DEF S
  <2>. QED  BY <1>1, <1>5, <2>2
<1>7. ASSUME NEW b \in Nat, \A t, u \in playing : total[t] - total[u] <= b PROVE Max(S) <= b
  <2>1. \A k \in S : k <= b
    BY <1>1, <1>7
  <2>. HIDE DEF S
  <2>. QED  BY <1>3, <2>1
<1>. HIDE DEF S
<1>. QED  BY <1>4, <1>5, <1>6, <1>7

LEMMA ScoreType ==
    ASSUME score \in [Scored -> Nat], NEW A
    PROVE  Score(A) \in Nat /\ Score(A) <= Score(Scored)
<1>. DEFINE rest == Scored \ A
            mine == A \cap Scored
<1>1. MapSlots \in Nat
  BY BalanceAssumption
<1>2. Score(A) = Score(mine)
  BY <1>1, SumSame DEF Score, Scored
<1>3. SumUpTo(score, mine \cup rest, MapSlots) = SumUpTo(score, mine, MapSlots) + SumUpTo(score, rest, MapSlots)
  <2>1. mine \cap rest = {} /\ \A k \in (mine \cup rest) \cap 1..MapSlots : score[k] \in Nat
    OBVIOUS
  <2>. HIDE DEF mine, rest
  <2>. QED  BY <1>1, <2>1, SumUnion
<1>4. Score(mine) \in Nat /\ Score(rest) \in Nat
  BY <1>1, SumType DEF Score
<1>5. mine \cup rest = Scored
  OBVIOUS
<1>. HIDE DEF mine, rest
<1>6. Score(Scored) = Score(mine) + Score(rest)
  BY <1>3, <1>5 DEF Score
<1>. QED  BY <1>2, <1>4, <1>6

\* Those who are on no other team.
LEMMA ScoreRest ==
    ASSUME score \in [Scored -> Nat], NEW P \in SUBSET Scored, NEW A \in SUBSET P
    PROVE  Score(P \ A) = Score(P) - Score(A)
<1>. DEFINE rest == P \ A
<1>1. A \cap rest = {} /\ A \cup rest = P /\ \A k \in (A \cup rest) \cap 1..MapSlots : score[k] \in Nat
  OBVIOUS
<1>. HIDE DEF rest
<1>2. SumUpTo(score, A \cup rest, MapSlots) = SumUpTo(score, A, MapSlots) + SumUpTo(score, rest, MapSlots)
  BY <1>1, SumUnion, BalanceAssumption
<1>3. Score(P) = Score(A) + Score(rest)
  BY <1>1, <1>2 DEF Score
<1>4. Score(P) \in Nat /\ Score(A) \in Nat /\ Score(rest) \in Nat
  BY ScoreType
<1>. QED  BY <1>3, <1>4 DEF rest

\* Up to the number m the sets hold the same.
Agree(A, B, m) == \A p \in 1..(m - 1) : p \in A <=> p \in B

\* Among sets of numbers there is a first one in the order of TriedBefore.
LEMMA FirstSet ==
    ASSUME NEW n \in Nat, NEW C \in SUBSET SUBSET (1..n), C # {}
    PROVE  \E A \in C : \A B \in C : ~ \E m \in B \ A : Agree(B, A, m)
<1>. DEFINE first(A, k) == \A B \in C : \A m \in B \ A : m <= k => ~ Agree(B, A, m)
            X == {k \in Nat : \E A \in C : first(A, k)}
<1>1. 0 \in X
  <2>1. PICK A : A \in C
    OBVIOUS
  <2>2. \A B \in C : \A m \in B \ A : ~ (m <= 0)
    OBVIOUS
  <2>. QED  BY <2>1, <2>2
<1>2. ASSUME NEW k \in Nat, k \in X PROVE k + 1 \in X
  <2>1. PICK A \in C : first(A, k)
    BY <1>2
  <2>2. CASE first(A, k + 1)
    BY <2>2
  <2>3. CASE ~ first(A, k + 1)
    <3>1. PICK B \in C : \E m \in B \ A : m <= k + 1 /\ Agree(B, A, m)
      BY <2>3
    <3>2. PICK m \in B \ A : m <= k + 1 /\ Agree(B, A, m)
      BY <3>1
    <3>3. m \in 1..n /\ B \subseteq 1..n /\ A \subseteq 1..n
      OBVIOUS
    <3>4. m = k + 1
      <4>1. ~ (m <= k)
        BY <2>1, <3>2
      <4>. QED  BY <3>2, <3>3, <4>1
    <3>5. \A p \in 1..k : p \in B <=> p \in A
      BY <3>2, <3>4 DEF Agree
    <3>6. ASSUME NEW D \in C, NEW l \in D \ B, l <= k + 1, Agree(D, B, l) PROVE FALSE
      <4>1. l \in 1..n
        OBVIOUS
      <4>2. l # k + 1
        BY <3>2, <3>4, <3>6
      <4>3. l \in 1..k
        BY <3>6, <4>1, <4>2
      <4>4. l \in D \ A
        BY <3>5, <4>3
      <4>5. \A p \in 1..(l - 1) : p \in D <=> p \in A
        <5>. SUFFICES ASSUME NEW p \in 1..(l - 1) PROVE p \in D <=> p \in A
          OBVIOUS
        <5>1. p \in 1..k
          BY <4>3
        <5>2. p \in D <=> p \in B
          BY <3>6 DEF Agree
        <5>. QED  BY <3>5, <5>1, <5>2
      <4>6. Agree(D, A, l)
        BY <4>5 DEF Agree
      <4>7. l <= k
        BY <4>3
      <4>. QED  BY <2>1, <4>4, <4>6, <4>7
    <3>7. first(B, k + 1)
      BY <3>6
    <3>. QED  BY <3>7
  <2>. QED  BY <2>2, <2>3
<1>. HIDE DEF X
<1>3. n \in X
  BY <1>1, <1>2, SetInduction
<1>4. PICK A \in C : first(A, n)
  BY <1>3 DEF X
<1>5. ASSUME NEW B \in C, NEW m \in B \ A, Agree(B, A, m) PROVE FALSE
  <2>1. m \in 1..n
    OBVIOUS
  <2>. QED  BY <1>4, <1>5, <2>1
<1>. QED  BY <1>5

Trials == [team : Nat, left : SUBSET Scored, ordering : Seq(Scored), difference : Nat]

LEMMA FirstBestProperties ==
    ASSUME NEW trials \in SUBSET Trials, trials # {}
    PROVE  /\ FirstBest(trials) \in trials
           /\ \A y \in trials : FirstBest(trials).difference <= y.difference
<1>1. \A x \in trials : /\ x.difference \in Nat /\ x.team \in Nat /\ x.left \in SUBSET (1..MapSlots)
  BY DEF Trials, Scored
<1>. DEFINE D == {x.difference : x \in trials}
<1>2. PICK d \in D : \A k \in D : d <= k
  <2>1. D \in SUBSET Nat /\ D # {}
    BY <1>1
  <2>. HIDE DEF D
  <2>. QED  BY <2>1, SmallestMember
<1>. DEFINE best == {x \in trials : x.difference = d}
            T == {x.team : x \in best}
<1>3. PICK t \in T : \A k \in T : t <= k
  <2>1. T \in SUBSET Nat /\ T # {}
    BY <1>1, <1>2
  <2>. HIDE DEF T
  <2>. QED  BY <2>1, SmallestMember
<1>. DEFINE C == {x.left : x \in {y \in best : y.team = t}}
<1>4. PICK A \in C : \A B \in C : ~ \E m \in B \ A : Agree(B, A, m)
  <2>1. C \in SUBSET SUBSET (1..MapSlots) /\ C # {}
    BY <1>1, <1>3
  <2>2. MapSlots \in Nat
    BY BalanceAssumption
  <2>. HIDE DEF C
  <2>. QED  BY <2>1, <2>2, FirstSet
<1>5. PICK x \in best : x.team = t /\ x.left = A
  OBVIOUS
<1>6. ASSUME NEW y \in trials
      PROVE  x.difference < y.difference \/ (x.difference = y.difference /\ ~TriedBefore(y, x))
  <2>1. x.difference = d /\ d <= y.difference /\ d \in Nat /\ y.difference \in Nat
    BY <1>1, <1>2
  <2>2. CASE y.difference = d
    <3>1. y \in best /\ t <= y.team /\ t \in Nat /\ y.team \in Nat
      BY <1>1, <1>3, <2>2
    <3>2. ASSUME TriedBefore(y, x) PROVE FALSE
      <4>1. ~ (y.team < x.team)
        BY <1>5, <3>1
      <4>2. y.team = t /\ \E m \in y.left \ A : Agree(y.left, A, m)
        BY <1>5, <3>2, <4>1 DEF TriedBefore, Agree
      <4>3. y.left \in C
        BY <3>1, <4>2
      <4>. QED  BY <1>4, <4>2, <4>3
    <3>. QED  BY <2>1, <2>2, <3>2
  <2>3. CASE y.difference # d
    BY <2>1, <2>3
  <2>. QED  BY <2>2, <2>3
<1>7. x \in trials
  BY <1>5
<1>8. /\ FirstBest(trials) \in trials
      /\ \A y \in trials :
           \/ FirstBest(trials).difference < y.difference
           \/ FirstBest(trials).difference = y.difference /\ ~TriedBefore(y, FirstBest(trials))
  BY <1>6, <1>7 DEF FirstBest
<1>. QED  BY <1>1, <1>8

-----------------------------------------------------------------------------
(* Orderings of the players.                                                *)

\* This lists every one of ids once.
IsOrdering(o, ids) ==
  /\ o \in [1..Cardinality(ids) -> ids]
  /\ \A j, k \in 1..Cardinality(ids) : o[j] = o[k] => j = k
  /\ \A p \in ids : \E k \in 1..Cardinality(ids) : o[k] = p

ScoresOK == score \in [Scored -> 0..MaxScore]

LEMMA SomeScored ==
    ASSUME NEW ids \in SUBSET Scored
    PROVE  ids \in SUBSET Int /\ IsFiniteSet(ids) /\ Cardinality(ids) \in Nat
<1>1. IsFiniteSet(Scored)
  BY FS_Interval, BalanceAssumption DEF Scored
<1>2. ids \in SUBSET Int
  BY DEF Scored
<1>3. IsFiniteSet(ids)
  BY <1>1, FS_Subset
<1>. QED  BY <1>2, <1>3, FS_CardinalityType

LEMMA SortedIsOrdering ==
    ASSUME NEW ids \in SUBSET Scored
    PROVE  IsOrdering(Sorted(ids), ids)
<1>. DEFINE n == Cardinality(ids)
            o == Sorted(ids)
<1>1. /\ o \in [1..n -> ids]
      /\ \A j, k \in 1..n : j < k => o[j] < o[k]
      /\ \A x \in ids : \E k \in 1..n : o[k] = x
  BY SomeScored, SortedProperties
<1>2. n \in Nat /\ ids \in SUBSET Int
  BY SomeScored
<1>. HIDE DEF n, o
<1>3. ASSUME NEW j \in 1..n, NEW k \in 1..n, o[j] = o[k] PROVE j = k
  <2>1. o[j] \in Int /\ o[k] \in Int
    BY <1>1, <1>2
  <2>2. ~ (o[j] < o[k]) /\ ~ (o[k] < o[j])
    BY <1>3, <2>1
  <2>3. ~ (j < k) /\ ~ (k < j)
    BY <1>1, <2>2
  <2>. QED  BY <2>3
<1>. QED  BY <1>1, <1>3 DEF IsOrdering, n, o

\* r lists A as o does and then B as q does.
Joins(r, o, A, q, B) ==
  /\ \A k \in 1..Cardinality(A) : r[k] = o[k]
  /\ \A k \in 1..Cardinality(B) : r[Cardinality(A) + k] = q[k]

\* A team and the others.
LEMMA ConcatIsOrdering ==
    ASSUME NEW ids \in SUBSET Scored, NEW A \in SUBSET ids, NEW o, NEW q,
           IsOrdering(o, A), IsOrdering(q, ids \ A)
    PROVE  IsOrdering(o \o q, ids) /\ Joins(o \o q, o, A, q, ids \ A)
<1>. DEFINE a == Cardinality(A)
            b == Cardinality(ids \ A)
            n == Cardinality(ids)
            r == o \o q
<1>1. a \in Nat /\ b \in Nat /\ n = a + b
  <2>1. A \cap (ids \ A) = {} /\ A \cup (ids \ A) = ids
    OBVIOUS
  <2>2. IsFiniteSet(A) /\ IsFiniteSet(ids \ A) /\ a \in Nat /\ b \in Nat
    BY SomeScored
  <2>3. Cardinality(A \cup (ids \ A)) = a + b - Cardinality(A \cap (ids \ A))
    BY <2>2, FS_Union
  <2>4. Cardinality(A \cap (ids \ A)) = 0
    BY <2>1, FS_EmptySet
  <2>5. n = a + b - 0
    BY <2>1, <2>3, <2>4
  <2>. QED  BY <2>2, <2>5
<1>2. /\ o \in [1..a -> A] /\ q \in [1..b -> ids \ A]
      /\ \A j, k \in 1..a : o[j] = o[k] => j = k
      /\ \A j, k \in 1..b : q[j] = q[k] => j = k
      /\ \A p \in A : \E k \in 1..a : o[k] = p
      /\ \A p \in ids \ A : \E k \in 1..b : q[k] = p
  BY DEF IsOrdering
<1>. HIDE DEF a, b, n
<1>3. o \in Seq(ids) /\ q \in Seq(ids) /\ Len(o) = a /\ Len(q) = b
  <2>1. o \in Seq(A) /\ q \in Seq(ids \ A)
    BY <1>1, <1>2
  <2>2. Len(o) = a /\ Len(q) = b
    BY <1>1, <1>2
  <2>. QED  BY <1>1, <1>2, <2>2
<1>4. /\ r \in [1..n -> ids]
      /\ \A k \in 1..a : r[k] = o[k]
      /\ \A k \in 1..b : r[a + k] = q[k]
      /\ \A k \in (a + 1)..n : r[k] = q[k - a]
  <2>1. r \in Seq(ids) /\ Len(r) = a + b
    BY <1>3
  <2>2. r \in [1..n -> ids]
    BY <1>1, <2>1, LenProperties
  <2>3. \A k \in 1..(a + b) : r[k] = IF k <= a THEN o[k] ELSE q[k - a]
    BY <1>1, <1>3
  <2>4. \A k \in 1..b : a + k \in 1..(a + b) /\ ~(a + k <= a) /\ (a + k) - a = k
    BY <1>1
  <2>. QED  BY <1>1, <2>2, <2>3, <2>4
<1>. HIDE DEF r
<1>5. ASSUME NEW j \in 1..n, NEW k \in 1..n, r[j] = r[k] PROVE j = k
  <2>1. CASE j <= a /\ k <= a
    <3>1. j \in 1..a /\ k \in 1..a
      BY <1>1, <2>1
    <3>. QED  BY <1>2, <1>4, <1>5, <3>1
  <2>2. CASE j > a /\ k > a
    <3>1. j - a \in 1..b /\ k - a \in 1..b /\ j \in (a + 1)..n /\ k \in (a + 1)..n
      BY <1>1, <2>2
    <3>2. j - a = k - a
      BY <1>2, <1>4, <1>5, <3>1
    <3>. QED  BY <1>1, <3>2
  <2>3. CASE j <= a /\ k > a
    <3>1. j \in 1..a /\ k \in (a + 1)..n /\ k - a \in 1..b
      BY <1>1, <2>3
    <3>2. r[j] \in A /\ r[k] \in ids \ A
      BY <1>2, <1>4, <3>1
    <3>. QED  BY <1>5, <3>2
  <2>4. CASE j > a /\ k <= a
    <3>1. k \in 1..a /\ j \in (a + 1)..n /\ j - a \in 1..b
      BY <1>1, <2>4
    <3>2. r[k] \in A /\ r[j] \in ids \ A
      BY <1>2, <1>4, <3>1
    <3>. QED  BY <1>5, <3>2
  <2>. QED  BY <1>1, <2>1, <2>2, <2>3, <2>4
<1>6. ASSUME NEW p \in ids PROVE \E k \in 1..n : r[k] = p
  <2>1. CASE p \in A
    <3>1. PICK k \in 1..a : o[k] = p
      BY <1>2, <2>1
    <3>2. k \in 1..n /\ r[k] = p
      BY <1>1, <1>4, <3>1
    <3>. QED  BY <3>2
  <2>2. CASE p \notin A
    <3>1. PICK k \in 1..b : q[k] = p
      BY <1>2, <2>2
    <3>2. a + k \in 1..n /\ r[a + k] = p
      BY <1>1, <1>4, <3>1
    <3>. QED  BY <3>2
  <2>. QED  BY <2>1, <2>2
<1>7. IsOrdering(r, ids)
  BY <1>4, <1>5, <1>6 DEF IsOrdering, n
<1>8. Joins(r, o, A, q, ids \ A)
  BY <1>4 DEF Joins, a, b
<1>. QED  BY <1>7, <1>8 DEF r

\* The leader of a team is one of those with the best score, and changes places with
\* the first one.
LEMMA LeaderProperties ==
    ASSUME ScoresOK, NEW o, NEW here \in SUBSET Nat, here # {}, \A k \in here : o[k] \in Scored
    PROVE  /\ Leader(o, here) \in here /\ Min(here) \in here
           /\ \A j \in here : score[o[j]] <= score[o[Leader(o, here)]]
           /\ \A k \in here : Mirror(o, here, k) \in here
           /\ \A k \in here : Mirror(o, here, Mirror(o, here, k)) = k
           /\ Mirror(o, here, Min(here)) = Leader(o, here)
<1>0. MaxScore \in Nat
  BY BalanceAssumption
<1>1. \A k \in here : score[o[k]] \in Nat /\ score[o[k]] <= MaxScore
  BY <1>0 DEF ScoresOK
<1>. DEFINE S == {score[o[k]] : k \in here}
<1>2. Max(S) \in S /\ \A k \in S : k <= Max(S)
  <2>1. S \in SUBSET Nat /\ S # {} /\ \A k \in S : k <= MaxScore
    BY <1>1
  <2>. HIDE DEF S
  <2>. QED  BY <1>0, <2>1, LargestMember
<1>. DEFINE best == {k \in here : score[o[k]] = Max(S)}
<1>3. PICK k \in best : \A j \in best : k <= j
  <2>1. best \in SUBSET Nat /\ best # {}
    BY <1>2
  <2>. HIDE DEF best
  <2>. QED  BY <2>1, SmallestMember
<1>4. ASSUME NEW j \in here
      PROVE  score[o[j]] < score[o[k]] \/ (score[o[j]] = score[o[k]] /\ k <= j)
  <2>1. score[o[j]] \in S /\ score[o[k]] = Max(S)
    OBVIOUS
  <2>2. score[o[j]] <= score[o[k]]
    BY <1>2, <2>1
  <2>3. score[o[j]] = score[o[k]] => k <= j
    BY <1>3, <2>1
  <2>4. score[o[j]] \in Nat /\ score[o[k]] \in Nat
    BY <1>1
  <2>. HIDE DEF S, best
  <2>. QED  BY <2>2, <2>3, <2>4
<1>5. k \in here
  OBVIOUS
<1>6. /\ Leader(o, here) \in here
      /\ \A j \in here : \/ score[o[j]] < score[o[Leader(o, here)]]
                         \/ score[o[j]] = score[o[Leader(o, here)]] /\ Leader(o, here) <= j
  BY <1>4, <1>5 DEF Leader
<1>. HIDE DEF S, best
<1>7. ASSUME NEW j \in here PROVE score[o[j]] <= score[o[Leader(o, here)]]
  <2>. DEFINE l == Leader(o, here)
  <2>1. score[o[j]] < score[o[l]] \/ score[o[j]] = score[o[l]]
    BY <1>6
  <2>2. score[o[j]] \in Nat /\ score[o[l]] \in Nat
    BY <1>1, <1>6
  <2>. HIDE DEF l
  <2>3. score[o[j]] <= score[o[l]]
    BY <2>1, <2>2
  <2>. QED  BY <2>3 DEF l
<1>8. Min(here) \in here
  BY LeastIsMember
<1>9. ASSUME NEW i \in here
      PROVE  Mirror(o, here, i) \in here /\ Mirror(o, here, Mirror(o, here, i)) = i
  BY <1>6, <1>8 DEF Mirror
<1>10. Mirror(o, here, Min(here)) = Leader(o, here)
  BY DEF Mirror
<1>. QED  BY <1>6, <1>7, <1>8, <1>9, <1>10

\* The places of a team in an ordering.
Here(o, sizes, t) == Block(sizes, 1, t) \cap DOMAIN o

\* Moving the leaders to the front leaves everybody on the same team.
LEMMA LeadersFirstProperties ==
    ASSUME ScoresOK, NEW sizes \in [Teams -> Nat], NEW ids \in SUBSET Scored, NEW o, IsOrdering(o, ids)
    PROVE  LET r == LeadersFirst(o, sizes)
           IN  /\ IsOrdering(r, ids)
               /\ \A t \in Teams :
                    {r[k] : k \in Here(o, sizes, t)} = {o[k] : k \in Here(o, sizes, t)}
               /\ \A t \in Teams : Here(o, sizes, t) # {} =>
                    \A j \in Here(o, sizes, t) : score[r[j]] <= score[r[Min(Here(o, sizes, t))]]
<1>. DEFINE n == Cardinality(ids)
            here(t) == Here(o, sizes, t)
            placed(k) == \E t \in Teams : k \in here(t)
            twin(k) == IF placed(k) THEN Mirror(o, here(CHOOSE t \in Teams : k \in here(t)), k) ELSE k
            r == LeadersFirst(o, sizes)
<1>1. /\ o \in [1..n -> ids] /\ \A j, k \in 1..n : o[j] = o[k] => j = k
      /\ \A p \in ids : \E k \in 1..n : o[k] = p
  BY DEF IsOrdering
<1>2. n \in Nat
  BY SomeScored
<1>3. r = [k \in 1..n |-> IF placed(k) THEN o[Mirror(o, here(CHOOSE t \in Teams : k \in here(t)), k)]
                          ELSE o[k]]
  BY <1>1 DEF LeadersFirst, Here
<1>4. \A t \in Teams : here(t) \subseteq 1..n
  BY <1>1 DEF Here
<1>5. \A t, u \in Teams : \A k \in here(t) : k \in here(u) => t = u
  <2>1. 1 \in 1..NumTeams + 1 /\ Teams = 1..NumTeams
    BY BalanceAssumption DEF Teams
  <2>. QED  BY <2>1, OneTeam DEF Here
<1>. HIDE DEF n, here
<1>6. \A t \in Teams : \A k \in here(t) : placed(k) /\ twin(k) = Mirror(o, here(t), k)
  <2>. SUFFICES ASSUME NEW t \in Teams, NEW k \in here(t)
                PROVE  placed(k) /\ twin(k) = Mirror(o, here(t), k)
    OBVIOUS
  <2>1. (CHOOSE u \in Teams : k \in here(u)) = t
    BY <1>5
  <2>. QED  BY <2>1
<1>7. ASSUME NEW t \in Teams, here(t) # {}
      PROVE  /\ Leader(o, here(t)) \in here(t) /\ Min(here(t)) \in here(t)
             /\ \A j \in here(t) : score[o[j]] <= score[o[Leader(o, here(t))]]
             /\ \A k \in here(t) : twin(k) \in here(t)
             /\ \A k \in here(t) : twin(twin(k)) = k
             /\ twin(Min(here(t))) = Leader(o, here(t))
  <2>1. here(t) \in SUBSET Nat /\ \A k \in here(t) : o[k] \in Scored
    BY <1>1, <1>2, <1>4
  <2>2. /\ Leader(o, here(t)) \in here(t) /\ Min(here(t)) \in here(t)
        /\ \A j \in here(t) : score[o[j]] <= score[o[Leader(o, here(t))]]
        /\ \A k \in here(t) : Mirror(o, here(t), k) \in here(t)
        /\ \A k \in here(t) : Mirror(o, here(t), Mirror(o, here(t), k)) = k
        /\ Mirror(o, here(t), Min(here(t))) = Leader(o, here(t))
    BY <1>7, <2>1, LeaderProperties
  <2>. HIDE DEF twin
  <2>. QED  BY <1>6, <2>2
<1>8. \A k \in 1..n : twin(k) \in 1..n /\ twin(twin(k)) = k
  <2>. SUFFICES ASSUME NEW k \in 1..n PROVE twin(k) \in 1..n /\ twin(twin(k)) = k
    OBVIOUS
  <2>1. CASE placed(k)
    <3>1. PICK t \in Teams : k \in here(t)
      BY <2>1
    <3>. HIDE DEF twin
    <3>. QED  BY <1>4, <1>7, <3>1
  <2>2. CASE ~ placed(k)
    <3>1. twin(k) = k
      BY <2>2
    <3>. HIDE DEF twin
    <3>. QED  BY <3>1
  <2>. QED  BY <2>1, <2>2
<1>9. \A k \in 1..n : r[k] = o[twin(k)]
  BY <1>3
<1>10. r \in [1..n -> ids]
  <2>1. r = [k \in 1..n |-> r[k]]
    BY <1>3
  <2>2. \A k \in 1..n : r[k] \in ids
    <3>. HIDE DEF r, twin
    <3>. QED  BY <1>1, <1>8, <1>9
  <2>. HIDE DEF r, twin
  <2>. QED  BY <2>1, <2>2
<1>. HIDE DEF r, twin, placed
<1>11. ASSUME NEW j \in 1..n, NEW k \in 1..n, r[j] = r[k] PROVE j = k
  <2>1. twin(j) = twin(k)
    BY <1>1, <1>8, <1>9, <1>11
  <2>. QED  BY <1>8, <2>1
<1>12. ASSUME NEW p \in ids PROVE \E k \in 1..n : r[k] = p
  <2>1. PICK k \in 1..n : o[k] = p
    BY <1>1
  <2>2. twin(k) \in 1..n /\ r[twin(k)] = p
    BY <1>8, <1>9, <2>1
  <2>. QED  BY <2>2
<1>13. IsOrdering(r, ids)
  BY <1>10, <1>11, <1>12 DEF IsOrdering, n
<1>14. ASSUME NEW t \in Teams PROVE {r[k] : k \in here(t)} = {o[k] : k \in here(t)}
  <2>1. \A k \in here(t) : k \in 1..n /\ twin(k) \in here(t) /\ twin(twin(k)) = k
    BY <1>4, <1>7
  <2>2. \A k \in here(t) : r[k] = o[twin(k)] /\ r[twin(k)] = o[k]
    BY <1>4, <1>9, <2>1
  <2>. QED  BY <2>1, <2>2
<1>15. ASSUME NEW t \in Teams, here(t) # {}, NEW j \in here(t)
       PROVE  score[r[j]] <= score[r[Min(here(t))]]
  <2>1. r[Min(here(t))] = o[Leader(o, here(t))]
    BY <1>4, <1>7, <1>9, <1>15
  <2>2. r[j] = o[twin(j)] /\ twin(j) \in here(t)
    BY <1>4, <1>7, <1>9, <1>15
  <2>. QED  BY <1>7, <1>15, <2>1, <2>2
<1>. QED  BY <1>13, <1>14, <1>15 DEF r, here

-----------------------------------------------------------------------------
(* The search.                                                              *)

\* What is best for the teams from start on depends on what is best for later ones only.
LEMMA LaterTeamsOnly ==
    ASSUME NEW g, NEW h, NEW sizes, NEW start \in 1..NumTeams + 1, NEW ids,
           \A t \in start..NumTeams : g[t + 1] = h[t + 1]
    PROVE  BestOrderingFrom(g, sizes, start, ids) = BestOrderingFrom(h, sizes, start, ids)
<1>1. ASSUME NEW t \in start..NumTeams, NEW left
      PROVE  Trial(g, sizes, start, ids, t, left) = Trial(h, sizes, start, ids, t, left)
  BY DEF Trial
<1>. DEFINE playing == {u \in start..NumTeams : sizes[u] > 0}
            G == UNION {{Trial(g, sizes, start, ids, t, left) : left \in Combinations(ids, sizes[t])} :
                          t \in playing}
            H == UNION {{Trial(h, sizes, start, ids, t, left) : left \in Combinations(ids, sizes[t])} :
                          t \in playing}
<1>2. G = H
  <2>1. \A t \in playing :
          {Trial(g, sizes, start, ids, t, left) : left \in Combinations(ids, sizes[t])}
          = {Trial(h, sizes, start, ids, t, left) : left \in Combinations(ids, sizes[t])}
    BY <1>1
  <2>. QED  BY <2>1
<1>3. BestOrderingFrom(g, sizes, start, ids)
      = LeadersFirst(IF G = {} THEN Sorted(ids) ELSE FirstBest(G).ordering, sizes)
  BY DEF BestOrderingFrom
<1>4. BestOrderingFrom(h, sizes, start, ids)
      = LeadersFirst(IF H = {} THEN Sorted(ids) ELSE FirstBest(H).ordering, sizes)
  BY DEF BestOrderingFrom
<1>. HIDE DEF G, H
<1>. QED  BY <1>2, <1>3, <1>4

\* What is best for the teams from start on.
Bests(sizes, g, start) == g[start] = [ids \in SUBSET Scored |-> BestOrderingFrom(g, sizes, start, ids)]

LEMMA SearchExists ==
    ASSUME NEW sizes
    PROVE  \E g : g = [start \in 1..(NumTeams + 1) |->
                         [ids \in SUBSET Scored |-> BestOrderingFrom(g, sizes, start, ids)]]
<1>. DEFINE N == NumTeams + 1
            X == {n \in Nat : n <= NumTeams =>
                    \E g : \A start \in (N - n)..N : Bests(sizes, g, start)}
<1>0. NumTeams \in Nat
  BY BalanceAssumption
<1>1. 0 \in X
  <2>. DEFINE g == [start \in {N} |-> [ids \in SUBSET Scored |-> BestOrderingFrom({}, sizes, N, ids)]]
  <2>1. \A t \in N..NumTeams : g[t + 1] = {}[t + 1]
    BY <1>0
  <2>2. N \in 1..NumTeams + 1
    BY <1>0
  <2>3. g[N] = [ids \in SUBSET Scored |-> BestOrderingFrom({}, sizes, N, ids)]
    OBVIOUS
  <2>. HIDE DEF g
  <2>4. \A ids : BestOrderingFrom({}, sizes, N, ids) = BestOrderingFrom(g, sizes, N, ids)
    BY <2>1, <2>2, LaterTeamsOnly
  <2>5. Bests(sizes, g, N)
    BY <2>3, <2>4 DEF Bests
  <2>6. \A start \in (N - 0)..N : start = N
    BY <1>0
  <2>. QED  BY <2>5, <2>6
<1>2. ASSUME NEW n \in Nat, n \in X PROVE n + 1 \in X
  <2>. SUFFICES ASSUME n + 1 <= NumTeams
                PROVE  \E g : \A start \in (N - (n + 1))..N : Bests(sizes, g, start)
    OBVIOUS
  <2>1. PICK g : \A start \in (N - n)..N : Bests(sizes, g, start)
    BY <1>0, <1>2
  <2>. DEFINE s == N - (n + 1)
              h == [start \in s..N |->
                      IF start = s THEN [ids \in SUBSET Scored |-> BestOrderingFrom(g, sizes, s, ids)]
                      ELSE g[start]]
  <2>2. s \in 1..NumTeams /\ s \in 1..NumTeams + 1 /\ s \in s..N /\ s + 1 = N - n
    BY <1>0
  <2>3. \A start \in (s + 1)..N : start \in s..N /\ start # s /\ start \in 1..NumTeams + 1
    BY <1>0, <2>2
  <2>. HIDE DEF s
  <2>4. h[s] = [ids \in SUBSET Scored |-> BestOrderingFrom(g, sizes, s, ids)]
    BY <2>2
  <2>5. \A start \in (s + 1)..N : h[start] = g[start]
    BY <2>3
  <2>. HIDE DEF h
  <2>6. ASSUME NEW start \in s..N, NEW ids
        PROVE  BestOrderingFrom(g, sizes, start, ids) = BestOrderingFrom(h, sizes, start, ids)
    <3>1. start \in 1..NumTeams + 1
      BY <1>0, <2>2
    <3>2. \A t \in start..NumTeams : t + 1 \in (s + 1)..N
      BY <1>0, <2>2
    <3>3. \A t \in start..NumTeams : g[t + 1] = h[t + 1]
      BY <2>5, <3>2
    <3>. QED  BY <3>1, <3>3, LaterTeamsOnly
  <2>7. ASSUME NEW start \in s..N PROVE Bests(sizes, h, start)
    <3>1. CASE start = s
      BY <2>4, <2>6, <3>1 DEF Bests
    <3>2. CASE start # s
      <4>1. start \in (s + 1)..N /\ start \in (N - n)..N
        BY <1>0, <2>2, <3>2
      <4>2. g[start] = [ids \in SUBSET Scored |-> BestOrderingFrom(g, sizes, start, ids)]
        BY <2>1, <4>1 DEF Bests
      <4>. QED  BY <2>5, <2>6, <4>1, <4>2 DEF Bests
    <3>. QED  BY <3>1, <3>2
  <2>8. \A start \in s..N : Bests(sizes, h, start)
    BY <2>7
  <2>. QED  BY <2>8 DEF s
<1>3. NumTeams \in X
  <2>. HIDE DEF X
  <2>. QED  BY <1>0, <1>1, <1>2, SetInduction
<1>4. N - NumTeams = 1 /\ NumTeams <= NumTeams
  BY <1>0
<1>5. PICK g : \A start \in 1..N : Bests(sizes, g, start)
  BY <1>3, <1>4
<1>. DEFINE h == [start \in 1..(NumTeams + 1) |-> g[start]]
<1>6. ASSUME NEW start \in 1..N
      PROVE  h[start] = [ids \in SUBSET Scored |-> BestOrderingFrom(h, sizes, start, ids)]
  <2>1. \A t \in start..NumTeams : g[t + 1] = h[t + 1]
    BY <1>0
  <2>2. \A ids : BestOrderingFrom(g, sizes, start, ids) = BestOrderingFrom(h, sizes, start, ids)
    <3>. HIDE DEF h
    <3>. QED  BY <2>1, LaterTeamsOnly
  <2>3. h[start] = g[start]
    OBVIOUS
  <2>. HIDE DEF h
  <2>. QED  BY <1>5, <2>2, <2>3 DEF Bests
<1>7. h = [start \in 1..(NumTeams + 1) |-> h[start]]
  OBVIOUS
<1>. HIDE DEF h
<1>8. h = [start \in 1..(NumTeams + 1) |->
             [ids \in SUBSET Scored |-> BestOrderingFrom(h, sizes, start, ids)]]
  BY <1>6, <1>7
<1>. QED  BY <1>8

\* BalanceSlotsRecursive calls itself.
LEMMA SearchStep ==
    ASSUME NEW sizes, NEW start \in 1..NumTeams + 1, NEW ids \in SUBSET Scored
    PROVE  BalanceSlotsRecursive(sizes)[start][ids]
           = BestOrderingFrom(BalanceSlotsRecursive(sizes), sizes, start, ids)
<1>. DEFINE P(g) == g = [s \in 1..(NumTeams + 1) |->
                           [i \in SUBSET Scored |-> BestOrderingFrom(g, sizes, s, i)]]
            best == CHOOSE g : P(g)
<1>1. \E g : P(g)
  BY SearchExists
<1>2. P(best)
  <2>. HIDE DEF P
  <2>. QED  BY <1>1
<1>3. BalanceSlotsRecursive(sizes) = best
  BY DEF BalanceSlotsRecursive
<1>. HIDE DEF best
<1>4. best = [s \in 1..(NumTeams + 1) |-> [i \in SUBSET Scored |-> BestOrderingFrom(best, sizes, s, i)]]
  BY <1>2
<1>5. best[start] = [i \in SUBSET Scored |-> BestOrderingFrom(best, sizes, start, i)]
  BY <1>4
<1>6. best[start][ids] = BestOrderingFrom(best, sizes, start, ids)
  BY <1>5
<1>. QED  BY <1>3, <1>6

LEMMA LargestDifferenceType ==
    ASSUME ScoresOK, NEW o, NEW sizes, NEW start
    PROVE  LargestDifference(o, sizes, start) \in Nat
<1>. DEFINE total == [t \in start..NumTeams |-> Score(Members(o, sizes, start, t))]
            playing == {t \in start..NumTeams : sizes[t] > 0}
            n == Score(Scored)
<1>1. score \in [Scored -> Nat]
  BY BalanceAssumption DEF ScoresOK
<1>2. n \in Nat /\ \A t \in playing : total[t] \in Nat /\ total[t] <= n
  BY <1>1, ScoreType
<1>3. LargestDifference(o, sizes, start) = Spread(total, playing)
  BY DEF LargestDifference
<1>. HIDE DEF n, total, playing
<1>. QED  BY <1>2, <1>3, SpreadProperties

\* The trials for the teams from start on.
TrialsFrom(best, sizes, start, ids) ==
  UNION {{Trial(best, sizes, start, ids, t, left) : left \in Combinations(ids, sizes[t])} :
           t \in {u \in start..NumTeams : sizes[u] > 0}}

\* What the recursive calls return lists the players it was given.
ListsFrom(best, n) ==
  \A s \in n..NumTeams + 1 : \A ids \in SUBSET Scored : IsOrdering(best[s][ids], ids)

LEMMA TrialProperties ==
    ASSUME ScoresOK, NEW best, NEW sizes, NEW start \in 1..NumTeams + 1, ListsFrom(best, start + 1),
           NEW ids \in SUBSET Scored, NEW x \in TrialsFrom(best, sizes, start, ids)
    PROVE  /\ x \in Trials
           /\ IsOrdering(x.ordering, ids)
           /\ x.difference = LargestDifference(x.ordering, sizes, start)
<1>0. PICK t \in start..NumTeams :
        \E left \in Combinations(ids, sizes[t]) : x = Trial(best, sizes, start, ids, t, left)
  BY DEF TrialsFrom
<1>1. PICK left \in Combinations(ids, sizes[t]) : x = Trial(best, sizes, start, ids, t, left)
  BY <1>0
<1>2. left \in SUBSET ids
  BY DEF Combinations, kSubset
<1>. DEFINE o == Sorted(left) \o best[t + 1][ids \ left]
<1>3. t + 1 \in (start + 1)..NumTeams + 1 /\ t \in Nat
  BY BalanceAssumption
<1>4. IsOrdering(Sorted(left), left) /\ IsOrdering(best[t + 1][ids \ left], ids \ left)
  <2>1. left \in SUBSET Scored /\ ids \ left \in SUBSET Scored
    BY <1>2
  <2>. QED  BY <1>3, <2>1, SortedIsOrdering DEF ListsFrom
<1>5. IsOrdering(o, ids)
  BY <1>2, <1>4, ConcatIsOrdering
<1>6. x = [team |-> t, left |-> left, ordering |-> o, difference |-> LargestDifference(o, sizes, start)]
  BY <1>1 DEF Trial
<1>. HIDE DEF o
<1>7. o \in Seq(Scored)
  <2>1. Cardinality(ids) \in Nat /\ o \in [1..Cardinality(ids) -> ids]
    BY <1>5, SomeScored DEF IsOrdering
  <2>2. o \in [1..Cardinality(ids) -> Scored]
    BY <2>1
  <2>. QED  BY <2>1, <2>2
<1>8. x \in Trials
  BY <1>2, <1>3, <1>6, <1>7, LargestDifferenceType DEF Trials
<1>. QED  BY <1>5, <1>6, <1>8

\* What the search finds is the trial with the smallest difference, with the leaders first.
LEMMA SearchFinds ==
    ASSUME ScoresOK, NEW sizes, NEW start \in 1..NumTeams + 1, NEW ids \in SUBSET Scored,
           ListsFrom(BalanceSlotsRecursive(sizes), start + 1)
    PROVE  LET best == BalanceSlotsRecursive(sizes)
               trials == TrialsFrom(best, sizes, start, ids)
           IN  \E o : /\ IsOrdering(o, ids)
                      /\ best[start][ids] = LeadersFirst(o, sizes)
                      /\ \A y \in trials :
                           LargestDifference(o, sizes, start) <= LargestDifference(y.ordering, sizes, start)
<1>. DEFINE best == BalanceSlotsRecursive(sizes)
            trials == TrialsFrom(best, sizes, start, ids)
<1>1. best[start][ids] = LeadersFirst(IF trials = {} THEN Sorted(ids) ELSE FirstBest(trials).ordering, sizes)
  BY SearchStep DEF BestOrderingFrom, TrialsFrom
<1>2. \A x \in trials : /\ x \in Trials /\ IsOrdering(x.ordering, ids)
                        /\ x.difference = LargestDifference(x.ordering, sizes, start)
  BY TrialProperties
<1>. HIDE DEF best, trials
<1>3. CASE trials = {}
  BY <1>1, <1>3, SortedIsOrdering DEF best, trials
<1>4. CASE trials # {}
  <2>. DEFINE x == FirstBest(trials)
  <2>1. trials \in SUBSET Trials
    BY <1>2
  <2>2. x \in trials /\ \A y \in trials : x.difference <= y.difference
    BY <1>4, <2>1, FirstBestProperties
  <2>3. IsOrdering(x.ordering, ids)
    BY <1>2, <2>2
  <2>4. best[start][ids] = LeadersFirst(x.ordering, sizes)
    BY <1>1, <1>4
  <2>. HIDE DEF x
  <2>5. \A y \in trials : LargestDifference(x.ordering, sizes, start)
                            <= LargestDifference(y.ordering, sizes, start)
    BY <1>2, <2>2
  <2>. QED  BY <2>3, <2>4, <2>5 DEF best, trials
<1>. QED  BY <1>3, <1>4

LEMMA SearchLists ==
    ASSUME ScoresOK, NEW sizes \in [Teams -> Nat]
    PROVE  ListsFrom(BalanceSlotsRecursive(sizes), 1)
<1>. DEFINE best == BalanceSlotsRecursive(sizes)
            N == NumTeams + 1
            X == {n \in Nat : n <= NumTeams => ListsFrom(best, N - n)}
<1>0. NumTeams \in Nat
  BY BalanceAssumption
<1>1. ASSUME NEW start \in 1..N, ListsFrom(best, start + 1) PROVE ListsFrom(best, start)
  <2>1. ASSUME NEW ids \in SUBSET Scored PROVE IsOrdering(best[start][ids], ids)
    <3>1. PICK o : IsOrdering(o, ids) /\ best[start][ids] = LeadersFirst(o, sizes)
      BY <1>1, SearchFinds
    <3>. QED  BY <3>1, LeadersFirstProperties
  <2>2. \A s \in start..N : s = start \/ s \in (start + 1)..N
    BY <1>0
  <2>. QED  BY <1>1, <2>1, <2>2 DEF ListsFrom
<1>2. ListsFrom(best, N + 1)
  BY <1>0 DEF ListsFrom
<1>. HIDE DEF best
<1>3. 0 \in X
  <2>1. N \in 1..N /\ N - 0 = N
    BY <1>0
  <2>. QED  BY <1>1, <1>2, <2>1
<1>4. ASSUME NEW n \in Nat, n \in X PROVE n + 1 \in X
  <2>. SUFFICES ASSUME n + 1 <= NumTeams PROVE ListsFrom(best, N - (n + 1))
    OBVIOUS
  <2>1. N - (n + 1) \in 1..N /\ (N - (n + 1)) + 1 = N - n
    BY <1>0
  <2>2. ListsFrom(best, N - n)
    BY <1>0, <1>4
  <2>. QED  BY <1>1, <2>1, <2>2
<1>5. NumTeams \in X
  <2>. HIDE DEF X
  <2>. QED  BY <1>0, <1>3, <1>4, SetInduction
<1>6. N - NumTeams = 1
  BY <1>0
<1>. QED  BY <1>0, <1>5, <1>6 DEF best

-----------------------------------------------------------------------------
(* Splits of the players of a recursive call, which are those of the teams  *)
(* from start on.                                                           *)

\* The players of the teams before u come first.
LEMMA OffsetsAdd ==
    ASSUME NEW sizes \in [Teams -> Nat], NEW start \in 1..NumTeams + 1,
           NEW u \in start..NumTeams + 1, NEW t \in u..NumTeams + 1
    PROVE  Offset(sizes, start, t) = Offset(sizes, start, u) + Offset(sizes, u, t)
<1>. DEFINE X == {n \in Nat : u + n <= NumTeams + 1 =>
                    Offset(sizes, start, u + n) = Offset(sizes, start, u) + Offset(sizes, u, u + n)}
<1>0. NumTeams \in Nat /\ u \in Int /\ u \in 1..NumTeams + 1
  BY BalanceAssumption
<1>1. 0 \in X
  <2>1. Offset(sizes, u, u) = 0 /\ Offset(sizes, start, u) \in Nat
    BY <1>0, OffsetSteps
  <2>2. u + 0 = u
    BY <1>0
  <2>. QED  BY <2>1, <2>2
<1>2. ASSUME NEW n \in Nat, n \in X PROVE n + 1 \in X
  <2>. SUFFICES ASSUME u + (n + 1) <= NumTeams + 1
                PROVE  Offset(sizes, start, u + (n + 1))
                       = Offset(sizes, start, u) + Offset(sizes, u, u + (n + 1))
    OBVIOUS
  <2>. DEFINE s == u + n
  <2>1. s \in start..NumTeams /\ s \in u..NumTeams /\ u + (n + 1) = s + 1 /\ s \in Teams
        /\ s \in start..NumTeams + 1 /\ s \in u..NumTeams + 1 /\ s <= NumTeams + 1
    BY <1>0 DEF Teams
  <2>2. Offset(sizes, start, s) = Offset(sizes, start, u) + Offset(sizes, u, s)
    BY <1>2, <2>1
  <2>. HIDE DEF s
  <2>3. Offset(sizes, start, s + 1) = Offset(sizes, start, s) + sizes[s]
    BY <2>1, OffsetSteps
  <2>4. Offset(sizes, u, s + 1) = Offset(sizes, u, s) + sizes[s]
    BY <1>0, <2>1, OffsetSteps
  <2>5. Offset(sizes, start, u) \in Nat /\ Offset(sizes, u, s) \in Nat /\ sizes[s] \in Nat
    BY <1>0, <2>1, OffsetSteps
  <2>. QED  BY <2>1, <2>2, <2>3, <2>4, <2>5
<1>. HIDE DEF X
<1>3. t - u \in Nat /\ u + (t - u) = t /\ t <= NumTeams + 1
  BY <1>0
<1>4. t - u \in X
  BY <1>1, <1>2, <1>3, SetInduction
<1>. QED  BY <1>3, <1>4 DEF X

\* Teams without players take no places.
LEMMA NoPlaces ==
    ASSUME NEW sizes \in [Teams -> Nat], NEW start \in 1..NumTeams + 1,
           NEW u \in start..NumTeams + 1, \A t \in start..(u - 1) : sizes[t] = 0
    PROVE  Offset(sizes, start, u) = 0
<1>1. (start..NumTeams) \cap 1..(u - 1) = start..(u - 1) /\ u - 1 \in Nat
  BY BalanceAssumption
<1>2. Offset(sizes, start, u) = SumUpTo(sizes, start..(u - 1), u - 1)
  <2>. DEFINE S == start..NumTeams
              T == start..(u - 1)
              n == u - 1
  <2>1. S \cap 1..n = T \cap 1..n
    BY <1>1
  <2>2. Offset(sizes, start, u) = SumUpTo(sizes, S, n)
    BY DEF Offset
  <2>3. n \in Nat
    BY <1>1
  <2>. HIDE DEF S, T, n
  <2>4. SumUpTo(sizes, S, n) = SumUpTo(sizes, T, n)
    BY <2>1, <2>3, SumSame
  <2>. QED  BY <2>2, <2>4 DEF T, n
<1>3. \A t \in (start..(u - 1)) \cap 1..(u - 1) : sizes[t] \in Nat
  OBVIOUS
<1>. DEFINE X == {n \in Nat : n <= u - 1 => SumUpTo(sizes, start..(u - 1), n) = 0}
<1>4. 0 \in X
  BY SumZero
<1>5. ASSUME NEW n \in Nat, n \in X PROVE n + 1 \in X
  <2>. SUFFICES ASSUME n + 1 <= u - 1 PROVE SumUpTo(sizes, start..(u - 1), n + 1) = 0
    OBVIOUS
  <2>1. SumUpTo(sizes, start..(u - 1), n) = 0
    BY <1>1, <1>5
  <2>2. SumUpTo(sizes, start..(u - 1), n + 1)
        = SumUpTo(sizes, start..(u - 1), n) + IF n + 1 \in start..(u - 1) THEN sizes[n + 1] ELSE 0
    BY SumNext
  <2>. QED  BY <2>1, <2>2
<1>6. u - 1 \in X
  <2>. HIDE DEF X
  <2>. QED  BY <1>1, <1>4, <1>5, SetInduction
<1>. QED  BY <1>1, <1>2, <1>6

Playing(sizes, start) == {t \in start..NumTeams : sizes[t] > 0}

\* These are players for the teams from start on.
Fits(sizes, start, ids) ==
  ids \in SUBSET Scored /\ Cardinality(ids) = Offset(sizes, start, NumTeams + 1)

\* c gives every team its players.
Split(c, sizes, start, ids) ==
  /\ c \in [Playing(sizes, start) -> SUBSET ids]
  /\ \A t \in Playing(sizes, start) : Cardinality(c[t]) = sizes[t]
  /\ \A t, u \in Playing(sizes, start) : t # u => c[t] \cap c[u] = {}

Parts(o, sizes, start) == [t \in Playing(sizes, start) |-> Members(o, sizes, start, t)]

LEMMA PlayingType ==
    ASSUME NEW sizes \in [Teams -> Nat], NEW start \in 1..NumTeams + 1, NEW t \in Playing(sizes, start)
    PROVE  t \in start..NumTeams /\ t \in Teams /\ sizes[t] \in Nat \ {0}
<1>1. t \in start..NumTeams /\ t \in Teams /\ sizes[t] > 0
  BY BalanceAssumption DEF Playing, Teams
<1>. QED  BY <1>1

LEMMA BlockSize ==
    ASSUME NEW sizes \in [Teams -> Nat], NEW start \in 1..NumTeams + 1, NEW t \in start..NumTeams
    PROVE  LET B == Block(sizes, start, t)
           IN  IsFiniteSet(B) /\ Cardinality(B) = sizes[t]
<1>. DEFINE a == Offset(sizes, start, t)
            m == sizes[t]
            B == Block(sizes, start, t)
<1>1. B = (a + 1)..(a + m)
  BY DEF Block
<1>2. m \in Nat /\ a \in Nat
  BY BlockType
<1>. HIDE DEF a, m, B
<1>3. a + 1 \in Int /\ a + m \in Int
  BY <1>2
<1>4. IsFiniteSet(B) /\ Cardinality(B) = IF a + 1 > a + m THEN 0 ELSE a + m - (a + 1) + 1
  BY <1>1, <1>2, <1>3, FS_Interval
<1>5. Cardinality(B) = m
  BY <1>2, <1>4
<1>. QED  BY <1>4, <1>5 DEF B, m

\* Different places list different players.
LEMMA ListedOnce ==
    ASSUME NEW o, NEW ids \in SUBSET Scored, IsOrdering(o, ids), NEW B \in SUBSET (1..Cardinality(ids))
    PROVE  Cardinality({o[k] : k \in B}) = Cardinality(B)
<1>. DEFINE M == {o[k] : k \in B}
            f == [k \in B |-> o[k]]
            n == Cardinality(ids)
<1>1. \A j, k \in 1..n : o[j] = o[k] => j = k
  BY DEF IsOrdering
<1>2. IsFiniteSet(B)
  <2>1. IsFiniteSet(1..n)
    BY SomeScored, FS_Interval
  <2>. QED  BY <2>1, FS_Subset
<1>3. f \in [B -> M] /\ \A j, k \in B : f[j] = f[k] => j = k
  <2>. HIDE DEF n
  <2>1. \A k \in B : k \in 1..n
    BY DEF n
  <2>. QED  BY <1>1, <2>1
<1>4. \A p \in M : \E k \in B : f[k] = p
  OBVIOUS
<1>. HIDE DEF M, f
<1>5. f \in Bijection(B, M)
  BY <1>3, <1>4 DEF Bijection, Injection, Surjection, IsInjective
<1>6. ExistsBijection(B, M)
  BY <1>5 DEF ExistsBijection
<1>. QED  BY <1>2, <1>6, FS_Bijection DEF M

\* An ordering splits the players.
LEMMA PartsProperties ==
    ASSUME NEW sizes \in [Teams -> Nat], NEW start \in 1..NumTeams + 1, NEW ids, Fits(sizes, start, ids),
           NEW o, IsOrdering(o, ids)
    PROVE  /\ \A t \in start..NumTeams :
                /\ Block(sizes, start, t) \subseteq 1..Cardinality(ids)
                /\ Members(o, sizes, start, t) = {o[k] : k \in Block(sizes, start, t)}
           /\ Split(Parts(o, sizes, start), sizes, start, ids)
<1>. DEFINE n == Cardinality(ids)
<1>1. ids \in SUBSET Scored /\ n = Offset(sizes, start, NumTeams + 1)
  BY DEF Fits
<1>2. /\ o \in [1..n -> ids]
      /\ \A j, k \in 1..n : o[j] = o[k] => j = k
  BY DEF IsOrdering
<1>3. ASSUME NEW t \in start..NumTeams
      PROVE  /\ Block(sizes, start, t) \subseteq 1..n
             /\ Members(o, sizes, start, t) = {o[k] : k \in Block(sizes, start, t)}
  <2>1. Block(sizes, start, t) \subseteq 1..n
    BY <1>1, BlockType
  <2>2. DOMAIN o = 1..n
    BY <1>2
  <2>. HIDE DEF n
  <2>3. Block(sizes, start, t) \cap DOMAIN o = Block(sizes, start, t)
    BY <2>1, <2>2
  <2>. QED  BY <2>1, <2>3 DEF Members
<1>. DEFINE c == Parts(o, sizes, start)
<1>4. \A t \in Playing(sizes, start) : t \in start..NumTeams
  BY DEF Playing
<1>5. \A t \in Playing(sizes, start) : c[t] = {o[k] : k \in Block(sizes, start, t)}
  BY <1>3, <1>4 DEF Parts
<1>6. \A t \in Playing(sizes, start) : c[t] \in SUBSET ids
  <2>. HIDE DEF n, c
  <2>. QED  BY <1>2, <1>3, <1>4, <1>5
<1>7. \A t \in Playing(sizes, start) : Cardinality(c[t]) = sizes[t]
  <2>. SUFFICES ASSUME NEW t \in Playing(sizes, start) PROVE Cardinality(c[t]) = sizes[t]
    OBVIOUS
  <2>1. t \in start..NumTeams /\ Block(sizes, start, t) \in SUBSET (1..Cardinality(ids))
    BY <1>3, <1>4
  <2>2. Cardinality({o[k] : k \in Block(sizes, start, t)}) = Cardinality(Block(sizes, start, t))
    BY <1>1, <2>1, ListedOnce
  <2>3. Cardinality(Block(sizes, start, t)) = sizes[t]
    BY <2>1, BlockSize
  <2>. HIDE DEF c
  <2>. QED  BY <1>5, <2>2, <2>3
<1>8. ASSUME NEW t \in Playing(sizes, start), NEW u \in Playing(sizes, start), t # u
      PROVE  c[t] \cap c[u] = {}
  <2>. SUFFICES ASSUME NEW p, p \in c[t], p \in c[u] PROVE FALSE
    OBVIOUS
  <2>. HIDE DEF c, n
  <2>1. PICK j \in Block(sizes, start, t) : p = o[j]
    BY <1>5
  <2>2. PICK k \in Block(sizes, start, u) : p = o[k]
    BY <1>5
  <2>3. j \in 1..n /\ k \in 1..n /\ t \in start..NumTeams /\ u \in start..NumTeams
    BY <1>3, <1>4
  <2>4. j = k
    BY <1>2, <2>1, <2>2, <2>3
  <2>. QED  BY <1>8, <2>3, <2>4, OneTeam
<1>9. c \in [Playing(sizes, start) -> SUBSET ids]
  <2>1. c = [t \in Playing(sizes, start) |-> c[t]]
    BY DEF Parts
  <2>. HIDE DEF c
  <2>. QED  BY <1>6, <2>1
<1>10. Split(c, sizes, start, ids)
  <2>. HIDE DEF c
  <2>. QED  BY <1>7, <1>8, <1>9 DEF Split
<1>. QED  BY <1>3, <1>10

\* A split leaves nobody out.
LEMMA SplitCovers ==
    ASSUME NEW sizes \in [Teams -> Nat], NEW start \in 1..NumTeams + 1, NEW ids, Fits(sizes, start, ids),
           NEW c, Split(c, sizes, start, ids), NEW p \in ids
    PROVE  \E t \in Playing(sizes, start) : p \in c[t]
<1>. DEFINE T == Playing(sizes, start)
            C == {q \in ids : \E t \in T : q \in c[t]}
            f == [q \in C |-> CHOOSE t \in T : q \in c[t]]
            later == [t \in Teams |-> IF t < start THEN 0 ELSE sizes[t]]
<1>1. \A t \in T : t \in Teams /\ t \in start..NumTeams /\ sizes[t] > 0
  BY PlayingType
<1>2. IsFiniteSet(ids) /\ Cardinality(ids) = Offset(sizes, start, NumTeams + 1)
  BY SomeScored DEF Fits
<1>3. IsFiniteSet(C) /\ C \in SUBSET ids
  BY <1>2, FS_Subset
<1>4. later \in [Teams -> Nat]
  OBVIOUS
<1>5. \A q \in C : f[q] \in T /\ q \in c[f[q]]
  OBVIOUS
<1>6. f \in [C -> Teams]
  <2>1. f = [q \in C |-> f[q]]
    OBVIOUS
  <2>. HIDE DEF f, C, T
  <2>. QED  BY <1>1, <1>5, <2>1
<1>7. \A t \in T : c[t] = {q \in C : f[q] = t}
  <2>. SUFFICES ASSUME NEW t \in T PROVE c[t] = {q \in C : f[q] = t}
    OBVIOUS
  <2>1. \A q \in c[t] : q \in C
    BY DEF Split
  <2>. HIDE DEF C, f, T
  <2>2. \A q \in c[t] : f[q] = t
    BY <1>5, <2>1 DEF Split, T
  <2>. QED  BY <1>5, <2>1, <2>2
<1>. HIDE DEF T, C, f
<1>8. ASSUME NEW t \in Teams PROVE later[t] = Cardinality({q \in C : f[q] = t})
  <2>1. CASE t \in T
    <3>1. later[t] = sizes[t]
      BY <1>1, <2>1
    <3>2. Cardinality(c[t]) = sizes[t]
      BY <2>1 DEF Split, T
    <3>3. c[t] = {q \in C : f[q] = t}
      BY <1>7, <2>1
    <3>. HIDE DEF later
    <3>. QED  BY <3>1, <3>2, <3>3
  <2>2. CASE t \notin T
    <3>1. later[t] = 0
      BY <2>2, BalanceAssumption DEF T, Playing, Teams
    <3>2. {q \in C : f[q] = t} = {}
      BY <1>5, <2>2
    <3>. HIDE DEF later
    <3>. QED  BY <3>1, <3>2, FS_EmptySet
  <2>. QED  BY <2>1, <2>2
<1>9. Offset(later, 1, NumTeams + 1) = Cardinality(C)
  <2>. HIDE DEF later
  <2>. QED  BY <1>3, <1>4, <1>6, <1>8, SizesAddUp
<1>10. Offset(later, 1, NumTeams + 1) = Offset(sizes, start, NumTeams + 1)
  <2>0. 1 \in 1..NumTeams + 1 /\ start \in 1..NumTeams + 1 /\ NumTeams + 1 \in start..NumTeams + 1
        /\ NumTeams \in Nat /\ start - 1 \in Nat
    BY BalanceAssumption
  <2>1. Offset(later, 1, NumTeams + 1) = Offset(later, 1, start) + Offset(later, start, NumTeams + 1)
    <3>. HIDE DEF later
    <3>. QED  BY <1>4, <2>0, OffsetsAdd
  <2>2. Offset(later, 1, start) = 0
    <3>1. \A t \in 1..(start - 1) : later[t] = 0
      BY <2>0 DEF Teams
    <3>. HIDE DEF later
    <3>. QED  BY <1>4, <2>0, <3>1, NoPlaces
  <2>3. Offset(later, start, NumTeams + 1) = Offset(sizes, start, NumTeams + 1)
    <3>1. \A t \in start..NumTeams : later[t] = sizes[t]
      BY <2>0 DEF Teams
    <3>. DEFINE S == start..NumTeams
                n == (NumTeams + 1) - 1
    <3>2. n \in Nat
      BY <2>0
    <3>. HIDE DEF later
    <3>3. Offset(later, start, NumTeams + 1) = SumUpTo(later, S, n)
          /\ Offset(sizes, start, NumTeams + 1) = SumUpTo(sizes, S, n)
      BY DEF Offset
    <3>4. \A t \in S \cap 1..n : later[t] = sizes[t]
      BY <3>1
    <3>. HIDE DEF S, n
    <3>5. SumUpTo(later, S, n) = SumUpTo(sizes, S, n)
      BY <3>2, <3>4, SumSame
    <3>. QED  BY <3>3, <3>5
  <2>4. Offset(sizes, start, NumTeams + 1) \in Nat
    BY <2>0, OffsetSteps
  <2>. QED  BY <2>1, <2>2, <2>3, <2>4
<1>11. C = ids
  BY <1>2, <1>3, <1>9, <1>10, FS_Subset
<1>. QED  BY <1>11 DEF C, T

-----------------------------------------------------------------------------
(* What makes a split a good one.                                           *)

\* The scores of the teams lie between lo and hi.
Within(c, lo, hi) == \A t \in DOMAIN c : lo <= Score(c[t]) /\ Score(c[t]) <= hi

\* The largest difference between two teams is at most b.
AtMost(c, b) == \A t, u \in DOMAIN c : Score(c[t]) - Score(c[u]) <= b

\* No team of d is better than all teams of c, and none is worse.
NoWider(d, c) == \A lo, hi \in Nat : Within(c, lo, hi) => Within(d, lo, hi)

\* No split has a smaller difference.
Optimal(o, sizes, start, ids) ==
  \A c : Split(c, sizes, start, ids) =>
    \A b \in Nat : AtMost(c, b) => AtMost(Parts(o, sizes, start), b)

\* No split has a worse best team, or a better worst one.
Ideal(o, sizes, start, ids) ==
  \A c : Split(c, sizes, start, ids) => NoWider(Parts(o, sizes, start), c)

EqualSizes(sizes, m) ==
  m \in Nat \ {0} /\ sizes \in [Teams -> Nat] /\ \A t \in Teams : sizes[t] = 0 \/ sizes[t] = m

LEMMA LowestAndHighest ==
    ASSUME ScoresOK, NEW c, DOMAIN c # {}
    PROVE  \E t, u \in DOMAIN c : Within(c, Score(c[t]), Score(c[u]))
<1>. DEFINE D == {Score(c[t]) : t \in DOMAIN c}
            n == Score(Scored)
<1>1. score \in [Scored -> Nat]
  BY BalanceAssumption DEF ScoresOK
<1>2. D \in SUBSET Nat /\ D # {} /\ n \in Nat /\ \A k \in D : k <= n
  BY <1>1, ScoreType
<1>3. PICK l \in D : \A k \in D : l <= k
  <2>. HIDE DEF D
  <2>. QED  BY <1>2, SmallestMember
<1>4. PICK h \in D : \A k \in D : k <= h
  <2>. HIDE DEF D, n
  <2>. QED  BY <1>2, LargestMember
<1>5. PICK t \in DOMAIN c : l = Score(c[t])
  OBVIOUS
<1>6. PICK u \in DOMAIN c : h = Score(c[u])
  OBVIOUS
<1>7. \A i \in DOMAIN c : l <= Score(c[i]) /\ Score(c[i]) <= h
  BY <1>3, <1>4
<1>. QED  BY <1>5, <1>6, <1>7 DEF Within

LEMMA NoWiderIsSmaller ==
    ASSUME ScoresOK, NEW c, NEW d, DOMAIN d = DOMAIN c, NoWider(d, c), NEW b \in Nat, AtMost(c, b)
    PROVE  AtMost(d, b)
<1>1. CASE DOMAIN c = {}
  BY <1>1 DEF AtMost
<1>2. CASE DOMAIN c # {}
  <2>1. PICK t, u \in DOMAIN c : Within(c, Score(c[t]), Score(c[u]))
    BY <1>2, LowestAndHighest
  <2>. DEFINE lo == Score(c[t])
              hi == Score(c[u])
  <2>2. \A A : Score(A) \in Nat
    BY ScoreType, BalanceAssumption DEF ScoresOK
  <2>3. lo \in Nat /\ hi \in Nat /\ hi - lo <= b
    BY <2>2 DEF AtMost
  <2>4. Within(d, lo, hi)
    BY <2>1, <2>3 DEF NoWider
  <2>. HIDE DEF lo, hi
  <2>. SUFFICES ASSUME NEW i \in DOMAIN d, NEW j \in DOMAIN d PROVE Score(d[i]) - Score(d[j]) <= b
    BY DEF AtMost
  <2>5. Score(d[i]) <= hi /\ lo <= Score(d[j]) /\ Score(d[i]) \in Nat /\ Score(d[j]) \in Nat
    BY <2>2, <2>4 DEF Within
  <2>. QED  BY <2>3, <2>5
<1>. QED  BY <1>1, <1>2

LEMMA IdealIsOptimal ==
    ASSUME ScoresOK, NEW o, NEW sizes, NEW start, NEW ids, Ideal(o, sizes, start, ids)
    PROVE  Optimal(o, sizes, start, ids)
<1>. SUFFICES ASSUME NEW c, Split(c, sizes, start, ids), NEW b \in Nat, AtMost(c, b)
              PROVE  AtMost(Parts(o, sizes, start), b)
  BY DEF Optimal
<1>1. DOMAIN Parts(o, sizes, start) = DOMAIN c
  BY DEF Split, Parts
<1>. QED  BY <1>1, NoWiderIsSmaller DEF Ideal

LEMMA DifferenceOfParts ==
    ASSUME ScoresOK, NEW o, NEW sizes, NEW start, NEW b \in Nat
    PROVE  LargestDifference(o, sizes, start) <= b <=> AtMost(Parts(o, sizes, start), b)
<1>. DEFINE total == [t \in start..NumTeams |-> Score(Members(o, sizes, start, t))]
            playing == {t \in start..NumTeams : sizes[t] > 0}
            n == Score(Scored)
            d == Spread(total, playing)
            c == Parts(o, sizes, start)
<1>1. score \in [Scored -> Nat]
  BY BalanceAssumption DEF ScoresOK
<1>2. n \in Nat /\ \A t \in playing : total[t] \in Nat /\ total[t] <= n
  BY <1>1, ScoreType
<1>3. LargestDifference(o, sizes, start) = d
  BY DEF LargestDifference
<1>4. DOMAIN c = playing /\ \A t \in playing : Score(c[t]) = total[t]
  BY DEF Parts, Playing
<1>. HIDE DEF n, total, playing, c
<1>5. /\ d \in Nat
      /\ \A t, u \in playing : total[t] - total[u] <= d
      /\ (\A t, u \in playing : total[t] - total[u] <= b) => d <= b
  BY <1>2, SpreadProperties
<1>. HIDE DEF d
<1>6. AtMost(c, b) <=> \A t, u \in playing : total[t] - total[u] <= b
  BY <1>4 DEF AtMost
<1>7. ASSUME d <= b PROVE \A t, u \in playing : total[t] - total[u] <= b
  <2>. SUFFICES ASSUME NEW t \in playing, NEW u \in playing PROVE total[t] - total[u] <= b
    OBVIOUS
  <2>1. total[t] \in Nat /\ total[u] \in Nat /\ total[t] - total[u] <= d
    BY <1>2, <1>5
  <2>. QED  BY <1>5, <1>7, <2>1
<1>. QED  BY <1>3, <1>5, <1>6, <1>7 DEF c

-----------------------------------------------------------------------------
(* The places of teams of the same size.                                    *)

LEMMA Multiples ==
    ASSUME NEW sizes, NEW m, EqualSizes(sizes, m), NEW start \in 1..NumTeams + 1,
           NEW t \in start..NumTeams + 1
    PROVE  \E q \in Nat : Offset(sizes, start, t) = m * q
<1>. DEFINE X == {n \in Nat : start + n <= NumTeams + 1 =>
                    \E q \in Nat : Offset(sizes, start, start + n) = m * q}
<1>0. NumTeams \in Nat /\ m \in Nat /\ sizes \in [Teams -> Nat] /\ start \in Int
  BY BalanceAssumption DEF EqualSizes
<1>1. 0 \in X
  <2>1. Offset(sizes, start, start) = 0 /\ start + 0 = start
    BY <1>0, OffsetSteps
  <2>2. m * 0 = 0
    BY <1>0
  <2>. QED  BY <2>1, <2>2
<1>2. ASSUME NEW n \in Nat, n \in X PROVE n + 1 \in X
  <2>. SUFFICES ASSUME start + (n + 1) <= NumTeams + 1
                PROVE  \E q \in Nat : Offset(sizes, start, start + (n + 1)) = m * q
    OBVIOUS
  <2>. DEFINE s == start + n
  <2>1. s \in start..NumTeams /\ start + (n + 1) = s + 1 /\ s \in Teams /\ s <= NumTeams + 1
    BY <1>0 DEF Teams
  <2>2. PICK q \in Nat : Offset(sizes, start, s) = m * q
    BY <1>2, <2>1
  <2>. HIDE DEF s
  <2>3. Offset(sizes, start, s + 1) = Offset(sizes, start, s) + sizes[s]
    BY <1>0, <2>1, OffsetSteps
  <2>4. CASE sizes[s] = 0
    <3>1. m * q \in Nat
      BY <1>0
    <3>2. Offset(sizes, start, s + 1) = m * q
      BY <2>2, <2>3, <2>4, <3>1
    <3>. QED  BY <2>1, <3>2
  <2>5. CASE sizes[s] = m
    <3>1. m * q + m = m * (q + 1) /\ q + 1 \in Nat
      BY <1>0
    <3>2. Offset(sizes, start, s + 1) = m * (q + 1)
      BY <2>2, <2>3, <2>5, <3>1
    <3>. QED  BY <2>1, <3>1, <3>2
  <2>. QED  BY <2>1, <2>4, <2>5 DEF EqualSizes
<1>. HIDE DEF X
<1>3. t - start \in Nat /\ start + (t - start) = t /\ t <= NumTeams + 1
  BY <1>0
<1>4. t - start \in X
  BY <1>1, <1>2, <1>3, SetInduction
<1>. QED  BY <1>3, <1>4 DEF X

LEMMA NextMultiple ==
    ASSUME NEW m \in Nat \ {0}, NEW p \in Nat, NEW q \in Nat, m * p <= m * q, m * q < m * p + m
    PROVE  p = q
<1>1. ASSUME NEW i \in Nat, NEW j \in Nat, i < j PROVE m * i + m <= m * j
  <2>. DEFINE d == j - (i + 1)
  <2>1. d \in Nat /\ j = (i + 1) + d
    BY <1>1
  <2>. HIDE DEF d
  <2>2. m * j = m * i + m + m * d
    BY <2>1
  <2>3. m * d \in Nat /\ m * i \in Nat /\ m * j \in Nat
    BY <2>1
  <2>. QED  BY <2>2, <2>3
<1>2. m * p \in Nat /\ m * q \in Nat
  OBVIOUS
<1>3. ~ (p < q)
  BY <1>1, <1>2
<1>4. ~ (q < p)
  BY <1>1, <1>2
<1>. QED  BY <1>3, <1>4

\* The places of a team in the ordering of a recursive call are those of a team of the
\* same size in an ordering of all teams.
LEMMA SamePlaces ==
    ASSUME NEW sizes, NEW m, EqualSizes(sizes, m), NEW start \in 1..NumTeams + 1,
           NEW t \in Playing(sizes, start)
    PROVE  \E s \in Teams : Block(sizes, 1, s) = Block(sizes, start, t)
<1>0. NumTeams \in Nat /\ m \in Nat \ {0} /\ sizes \in [Teams -> Nat] /\ 1 \in 1..NumTeams + 1
  BY BalanceAssumption DEF EqualSizes
<1>1. t \in start..NumTeams /\ t \in Teams /\ sizes[t] = m
  <2>1. t \in start..NumTeams /\ t \in Teams /\ sizes[t] # 0
    BY <1>0, PlayingType
  <2>. QED  BY <2>1 DEF EqualSizes
<1>. DEFINE a == Offset(sizes, start, t)
            e == Offset(sizes, 1, NumTeams + 1)
<1>2. a \in Nat /\ e \in Nat /\ a + m <= e
  <2>. DEFINE d == Offset(sizes, start, NumTeams + 1)
              f == Offset(sizes, 1, start)
  <2>1. a \in Nat /\ a + m <= d /\ d \in Nat
    BY <1>0, <1>1, BlockType
  <2>2. e = f + d
    BY <1>0, OffsetsAdd
  <2>3. f \in Nat
    BY <1>0, OffsetSteps
  <2>. HIDE DEF a, d, e, f
  <2>. QED  BY <1>0, <2>1, <2>2, <2>3
<1>3. a + 1 \in 1..e
  BY <1>0, <1>2
<1>4. PICK s \in 1..NumTeams : a + 1 \in Block(sizes, 1, s)
  <2>. HIDE DEF a
  <2>. QED  BY <1>0, <1>3, SomeTeam
<1>. DEFINE b == Offset(sizes, 1, s)
<1>5. b \in Nat /\ sizes[s] \in Nat
  BY <1>0, <1>4, BlockType
<1>6. b <= a /\ a < b + sizes[s]
  <2>1. a + 1 \in (b + 1)..(b + sizes[s])
    BY <1>4 DEF Block
  <2>. HIDE DEF a, b
  <2>. QED  BY <1>2, <1>5, <2>1
<1>7. sizes[s] = m
  <2>. HIDE DEF a, b
  <2>1. sizes[s] # 0
    BY <1>2, <1>5, <1>6
  <2>. QED  BY <1>4, <2>1 DEF EqualSizes, Teams
<1>8. a = b
  <2>1. \E q \in Nat : a = m * q
    <3>1. t \in start..NumTeams + 1
      BY <1>0, <1>1
    <3>. QED  BY <3>1, Multiples
  <2>2. s \in 1..NumTeams + 1
    BY <1>0, <1>4
  <2>3. \E p \in Nat : b = m * p
    BY <1>0, <2>2, Multiples
  <2>. HIDE DEF a, b
  <2>4. PICK p \in Nat, q \in Nat : b = m * p /\ a = m * q
    BY <2>1, <2>3
  <2>5. p = q
    BY <1>0, <1>6, <1>7, <2>4, NextMultiple
  <2>. QED  BY <2>4, <2>5
<1>9. Block(sizes, 1, s) = Block(sizes, start, t)
  BY <1>1, <1>7, <1>8 DEF Block
<1>. QED  BY <1>4, <1>9 DEF Teams

\* To move the leaders to the front changes no team, also in an ordering of the last teams.
LEMMA LeadersKeepParts ==
    ASSUME ScoresOK, NEW sizes, NEW m, EqualSizes(sizes, m), NEW start \in 1..NumTeams + 1,
           NEW ids, Fits(sizes, start, ids), NEW o, IsOrdering(o, ids)
    PROVE  Parts(LeadersFirst(o, sizes), sizes, start) = Parts(o, sizes, start)
<1>. DEFINE r == LeadersFirst(o, sizes)
<1>1. sizes \in [Teams -> Nat] /\ ids \in SUBSET Scored
  BY DEF EqualSizes, Fits
<1>2. /\ IsOrdering(r, ids)
      /\ \A s \in Teams : {r[k] : k \in Here(o, sizes, s)} = {o[k] : k \in Here(o, sizes, s)}
  <2>1. /\ IsOrdering(r, ids)
        /\ \A t \in Teams :
             {r[k] : k \in Here(o, sizes, t)} = {o[k] : k \in Here(o, sizes, t)}
        /\ \A t \in Teams : Here(o, sizes, t) # {} =>
             \A j \in Here(o, sizes, t) : score[r[j]] <= score[r[Min(Here(o, sizes, t))]]
    BY <1>1, LeadersFirstProperties
  <2>. HIDE DEF r
  <2>. QED  BY <2>1
<1>. HIDE DEF r
<1>3. ASSUME NEW t \in Playing(sizes, start)
      PROVE  Members(r, sizes, start, t) = Members(o, sizes, start, t)
  <2>1. PICK s \in Teams : Block(sizes, 1, s) = Block(sizes, start, t)
    BY SamePlaces
  <2>2. t \in start..NumTeams
    BY DEF Playing
  <2>3. /\ Block(sizes, start, t) \subseteq 1..Cardinality(ids)
        /\ Members(o, sizes, start, t) = {o[k] : k \in Block(sizes, start, t)}
        /\ Members(r, sizes, start, t) = {r[k] : k \in Block(sizes, start, t)}
    BY <1>1, <1>2, <2>2, PartsProperties
  <2>4. Here(o, sizes, s) = Block(sizes, start, t)
    BY <2>1, <2>3 DEF Here, IsOrdering
  <2>. QED  BY <1>2, <2>3, <2>4
<1>. QED  BY <1>3 DEF Parts, r

-----------------------------------------------------------------------------
(* A trial: a team and what the recursive call returns for the others.      *)

\* Of two teams at least one is a combination that the loop comes to.
LEMMA OneIsTried ==
    ASSUME NEW ids \in SUBSET Scored, NEW A \in SUBSET ids, NEW B \in SUBSET ids, A \cap B = {},
           NEW m \in Nat \ {0}, Cardinality(A) = m, Cardinality(B) = m
    PROVE  A \in Combinations(ids, m) \/ B \in Combinations(ids, m)
<1>1. A # {} /\ B # {}
  BY FS_EmptySet
<1>2. PICK a \in A : TRUE
  BY <1>1
<1>3. PICK b \in B : TRUE
  BY <1>1
<1>4. a \in Int /\ b \in Int /\ a # b /\ b \in ids \ A /\ a \in ids \ B
  BY SomeScored
<1>5. A \in kSubset(m, ids) /\ B \in kSubset(m, ids)
  BY DEF kSubset
<1>6. CASE b < a
  BY <1>4, <1>5, <1>6 DEF Combinations
<1>7. CASE a < b
  BY <1>4, <1>5, <1>7 DEF Combinations
<1>. QED  BY <1>4, <1>6, <1>7

\* u is the first team from start on that has players.
FirstTeam(sizes, start, u) ==
  u \in Playing(sizes, start) /\ \A t \in start..(u - 1) : sizes[t] = 0

LEMMA SomeFirstTeam ==
    ASSUME NEW sizes \in [Teams -> Nat], NEW start \in 1..NumTeams + 1, Playing(sizes, start) # {}
    PROVE  \E u : FirstTeam(sizes, start, u)
<1>1. Playing(sizes, start) \in SUBSET Nat
  BY BalanceAssumption DEF Playing
<1>2. PICK u \in Playing(sizes, start) : \A t \in Playing(sizes, start) : u <= t
  BY <1>1, SmallestMember
<1>3. ASSUME NEW t \in start..(u - 1) PROVE sizes[t] = 0
  <2>1. u \in start..NumTeams
    BY DEF Playing
  <2>2. t \in start..NumTeams /\ ~ (u <= t) /\ t \in Teams
    BY <2>1, BalanceAssumption DEF Teams
  <2>3. ~ (sizes[t] > 0)
    BY <1>2, <2>2 DEF Playing
  <2>4. sizes[t] \in Nat
    BY <2>2
  <2>. QED  BY <2>3, <2>4
<1>. QED  BY <1>2, <1>3 DEF FirstTeam

LEMMA LaterTeams ==
    ASSUME NEW sizes \in [Teams -> Nat], NEW start \in 1..NumTeams + 1, NEW u,
           FirstTeam(sizes, start, u)
    PROVE  /\ u \in start..NumTeams /\ u + 1 \in 1..NumTeams + 1
           /\ sizes[u] \in Nat \ {0}
           /\ Playing(sizes, u + 1) = Playing(sizes, start) \ {u}
           /\ Offset(sizes, start, u) = 0
           /\ \A t \in (u + 1)..NumTeams + 1 :
                /\ Offset(sizes, start, t) = sizes[u] + Offset(sizes, u + 1, t)
                /\ Offset(sizes, u + 1, t) \in Nat
<1>1. u \in start..NumTeams /\ u \in Teams /\ sizes[u] \in Nat \ {0}
  BY PlayingType DEF FirstTeam
<1>2. u + 1 \in 1..NumTeams + 1 /\ u + 1 \in start..NumTeams + 1 /\ u \in start..NumTeams + 1
      /\ NumTeams \in Nat
  BY <1>1, BalanceAssumption
<1>3. Offset(sizes, start, u) = 0
  BY <1>2, NoPlaces DEF FirstTeam
<1>4. Offset(sizes, start, u + 1) = sizes[u]
  <2>1. Offset(sizes, start, u + 1) = Offset(sizes, start, u) + sizes[u]
    BY <1>1, OffsetSteps
  <2>. QED  BY <1>1, <1>3, <2>1
<1>5. ASSUME NEW t \in (u + 1)..NumTeams + 1
      PROVE  /\ Offset(sizes, start, t) = sizes[u] + Offset(sizes, u + 1, t)
             /\ Offset(sizes, u + 1, t) \in Nat
  BY <1>2, <1>4, OffsetsAdd, OffsetSteps
<1>6. Playing(sizes, u + 1) = Playing(sizes, start) \ {u}
  <2>1. \A t \in start..NumTeams : t \in (u + 1)..NumTeams \/ t = u \/ t \in start..(u - 1)
    BY <1>1
  <2>2. \A t \in start..(u - 1) : ~ (sizes[t] > 0)
    BY DEF FirstTeam
  <2>3. \A t \in (u + 1)..NumTeams : t \in start..NumTeams /\ t # u
    BY <1>1
  <2>. QED  BY <2>1, <2>2, <2>3 DEF Playing
<1>. QED  BY <1>1, <1>2, <1>3, <1>5, <1>6

\* If the players of team v leave and those of u take their place, what is left is a split
\* for the teams after u.
LEMMA WithoutPart ==
    ASSUME NEW sizes, NEW m, EqualSizes(sizes, m), NEW start \in 1..NumTeams + 1,
           NEW u, FirstTeam(sizes, start, u), NEW ids, Fits(sizes, start, ids),
           NEW c, Split(c, sizes, start, ids), NEW v \in Playing(sizes, start)
    PROVE  LET rest == [t \in Playing(sizes, u + 1) |-> IF t = v THEN c[u] ELSE c[t]]
           IN  /\ Fits(sizes, u + 1, ids \ c[v])
               /\ Split(rest, sizes, u + 1, ids \ c[v])
               /\ NoWider(rest, c)
<1>. DEFINE rest == [t \in Playing(sizes, u + 1) |-> IF t = v THEN c[u] ELSE c[t]]
            P == Playing(sizes, start)
            Q == Playing(sizes, u + 1)
            left == ids \ c[v]
<1>1. sizes \in [Teams -> Nat] /\ m \in Nat /\ u \in P
  BY DEF EqualSizes, FirstTeam
<1>2. /\ u \in start..NumTeams /\ u + 1 \in 1..NumTeams + 1 /\ Q = P \ {u}
      /\ NumTeams + 1 \in (u + 1)..NumTeams + 1
      /\ \A t \in (u + 1)..NumTeams + 1 : /\ Offset(sizes, start, t) = sizes[u] + Offset(sizes, u + 1, t)
                                          /\ Offset(sizes, u + 1, t) \in Nat
  BY <1>1, LaterTeams, BalanceAssumption
<1>3. \A t \in P : sizes[t] = m
  <2>. SUFFICES ASSUME NEW t \in P PROVE sizes[t] = m
    OBVIOUS
  <2>1. t \in Teams /\ sizes[t] # 0
    BY <1>1, PlayingType
  <2>. QED  BY <2>1 DEF EqualSizes
<1>4. /\ c \in [P -> SUBSET ids]
      /\ \A t \in P : Cardinality(c[t]) = m
      /\ \A t, w \in P : t # w => c[t] \cap c[w] = {}
  BY <1>3 DEF Split
<1>5. ids \in SUBSET Scored /\ Cardinality(ids) = Offset(sizes, start, NumTeams + 1)
  BY DEF Fits
<1>. HIDE DEF P, Q
<1>6. Fits(sizes, u + 1, left)
  <2>1. left \in SUBSET Scored
    BY <1>5
  <2>2. IsFiniteSet(ids) /\ ids \cap c[v] = c[v] /\ Cardinality(c[v]) = m
    BY <1>4, <1>5, SomeScored DEF P
  <2>3. Cardinality(left) = Cardinality(ids) - m
    BY <2>2, FS_Difference
  <2>4. Cardinality(ids) = m + Offset(sizes, u + 1, NumTeams + 1) /\ Offset(sizes, u + 1, NumTeams + 1) \in Nat
    BY <1>1, <1>2, <1>3, <1>5
  <2>. HIDE DEF left
  <2>5. Cardinality(left) = Offset(sizes, u + 1, NumTeams + 1)
    BY <1>1, <2>3, <2>4
  <2>. QED  BY <2>1, <2>5 DEF Fits
<1>7. \A t \in Q : rest[t] = (IF t = v THEN c[u] ELSE c[t]) /\ t \in P /\ t # u
  BY <1>2 DEF Q
<1>8. rest = [t \in Q |-> rest[t]]
  BY DEF Q
<1>9. v \in P
  BY DEF P
<1>. HIDE DEF rest
<1>10. \A t \in Q : rest[t] \in SUBSET left /\ Cardinality(rest[t]) = sizes[t]
  <2>. SUFFICES ASSUME NEW t \in Q PROVE rest[t] \in SUBSET left /\ Cardinality(rest[t]) = sizes[t]
    OBVIOUS
  <2>1. CASE t = v
    BY <1>1, <1>3, <1>4, <1>7, <1>9, <2>1
  <2>2. CASE t # v
    BY <1>3, <1>4, <1>7, <1>9, <2>2
  <2>. QED  BY <2>1, <2>2
<1>11. ASSUME NEW t \in Q, NEW w \in Q, t # w PROVE rest[t] \cap rest[w] = {}
  <2>1. t \in P /\ w \in P /\ u \in P /\ t # u /\ w # u
    BY <1>1, <1>7
  <2>2. CASE t = v
    BY <1>4, <1>7, <1>11, <2>1, <2>2
  <2>3. CASE w = v
    BY <1>4, <1>7, <1>11, <2>1, <2>3
  <2>4. CASE t # v /\ w # v
    BY <1>4, <1>7, <1>11, <2>1, <2>4
  <2>. QED  BY <2>2, <2>3, <2>4
<1>12. Split(rest, sizes, u + 1, left)
  BY <1>8, <1>10, <1>11 DEF Split, Q
<1>13. NoWider(rest, c)
  <2>1. DOMAIN rest = Q /\ DOMAIN c = P
    BY <1>4, <1>8
  <2>2. \A t \in Q : \E s \in P : rest[t] = c[s]
    BY <1>1, <1>7
  <2>. QED  BY <2>1, <2>2 DEF NoWider, Within
<1>. QED  BY <1>6, <1>12, <1>13 DEF rest, left

\* The teams of an ordering that lists one team and then the others.
LEMMA TrialParts ==
    ASSUME NEW sizes, NEW m, EqualSizes(sizes, m), NEW start \in 1..NumTeams + 1,
           NEW u, FirstTeam(sizes, start, u), NEW ids, Fits(sizes, start, ids),
           NEW A \in SUBSET ids, Cardinality(A) = m, Fits(sizes, u + 1, ids \ A),
           NEW o, IsOrdering(o, A), NEW q, IsOrdering(q, ids \ A)
    PROVE  /\ IsOrdering(o \o q, ids)
           /\ Parts(o \o q, sizes, start)[u] = A
           /\ \A t \in Playing(sizes, u + 1) :
                Parts(o \o q, sizes, start)[t] = Parts(q, sizes, u + 1)[t]
<1>. DEFINE r == o \o q
            n == Cardinality(ids \ A)
<1>1. sizes \in [Teams -> Nat] /\ m \in Nat /\ u \in Playing(sizes, start) /\ ids \in SUBSET Scored
  BY DEF EqualSizes, FirstTeam, Fits
<1>2. /\ u \in start..NumTeams /\ u + 1 \in 1..NumTeams + 1
      /\ Playing(sizes, u + 1) = Playing(sizes, start) \ {u}
      /\ Offset(sizes, start, u) = 0
      /\ \A t \in (u + 1)..NumTeams + 1 : /\ Offset(sizes, start, t) = sizes[u] + Offset(sizes, u + 1, t)
                                          /\ Offset(sizes, u + 1, t) \in Nat
  BY <1>1, LaterTeams
<1>3. sizes[u] = m
  <2>1. u \in Teams /\ sizes[u] # 0
    BY <1>1, PlayingType
  <2>. QED  BY <2>1 DEF EqualSizes
<1>4. /\ IsOrdering(r, ids)
      /\ \A k \in 1..m : r[k] = o[k]
      /\ \A k \in 1..n : r[m + k] = q[k]
  <2>1. IsOrdering(r, ids) /\ Joins(r, o, A, q, ids \ A)
    BY <1>1, ConcatIsOrdering
  <2>. HIDE DEF r
  <2>. QED  BY <2>1 DEF Joins
<1>. HIDE DEF r, n
<1>5. /\ \A t \in start..NumTeams : Members(r, sizes, start, t) = {r[k] : k \in Block(sizes, start, t)}
      /\ \A t \in (u + 1)..NumTeams : /\ Members(q, sizes, u + 1, t) = {q[k] : k \in Block(sizes, u + 1, t)}
                                      /\ Block(sizes, u + 1, t) \subseteq 1..n
  BY <1>1, <1>2, <1>4, PartsProperties DEF n
<1>6. Parts(r, sizes, start)[u] = A
  <2>1. Block(sizes, start, u) = 1..m
    BY <1>1, <1>2, <1>3 DEF Block
  <2>2. {o[k] : k \in 1..m} = A
    BY DEF IsOrdering
  <2>3. {r[k] : k \in 1..m} = A
    BY <1>4, <2>2
  <2>. QED  BY <1>1, <1>2, <1>5, <2>1, <2>3 DEF Parts
<1>7. ASSUME NEW t \in Playing(sizes, u + 1)
      PROVE  Parts(r, sizes, start)[t] = Parts(q, sizes, u + 1)[t]
  <2>1. t \in (u + 1)..NumTeams /\ t \in start..NumTeams /\ t \in Playing(sizes, start)
    BY <1>2 DEF Playing
  <2>. DEFINE a == Offset(sizes, u + 1, t)
              B == Block(sizes, start, t)
              C == Block(sizes, u + 1, t)
              l == sizes[t]
  <2>2. a \in Nat /\ Offset(sizes, start, t) = m + a /\ l \in Nat
    <3>1. t \in (u + 1)..NumTeams + 1 /\ t \in Teams
      BY <2>1, <1>1, PlayingType, BalanceAssumption
    <3>. QED  BY <1>1, <1>2, <1>3, <3>1
  <2>3. B = ((m + a) + 1)..((m + a) + l) /\ C = (a + 1)..(a + l)
    BY <2>2 DEF Block
  <2>. HIDE DEF a, B, C, l
  <2>4. /\ \A k \in C : m + k \in B
        /\ \A k \in B : k - m \in C /\ m + (k - m) = k
    BY <1>1, <2>2, <2>3
  <2>5. C \subseteq 1..n
    BY <1>5, <2>1 DEF C
  <2>6. {r[k] : k \in B} = {q[k] : k \in C}
    <3>1. ASSUME NEW k \in C PROVE \E j \in B : r[j] = q[k]
      BY <1>4, <2>4, <2>5
    <3>2. ASSUME NEW k \in B PROVE \E j \in C : q[j] = r[k]
      <4>1. k - m \in C /\ k - m \in 1..n /\ m + (k - m) = k
        BY <2>4, <2>5
      <4>2. r[m + (k - m)] = q[k - m]
        BY <1>4, <4>1
      <4>. QED  BY <4>1, <4>2
    <3>. QED  BY <3>1, <3>2
  <2>7. Members(r, sizes, start, t) = {r[k] : k \in B} /\ Members(q, sizes, u + 1, t) = {q[k] : k \in C}
    BY <1>5, <2>1 DEF B, C
  <2>. QED  BY <2>1, <2>6, <2>7 DEF Parts
<1>. QED  BY <1>4, <1>6, <1>7 DEF r

\* If what the recursive calls return is ideal, the trial that puts a team of a split on
\* the first team is no wider than the split.
LEMMA TrialFollows ==
    ASSUME ScoresOK, NEW sizes, NEW m, EqualSizes(sizes, m), NEW start \in 1..NumTeams + 1,
           NEW u, FirstTeam(sizes, start, u), NEW best, ListsFrom(best, u + 1),
           \A left : Fits(sizes, u + 1, left) => Ideal(best[u + 1][left], sizes, u + 1, left),
           NEW ids, Fits(sizes, start, ids), NEW c, Split(c, sizes, start, ids),
           NEW v \in Playing(sizes, start), c[v] \in Combinations(ids, m)
    PROVE  \E y \in TrialsFrom(best, sizes, start, ids) :
             IsOrdering(y.ordering, ids) /\ NoWider(Parts(y.ordering, sizes, start), c)
<1>. DEFINE A == c[v]
            left == ids \ A
            q == best[u + 1][left]
            rest == [t \in Playing(sizes, u + 1) |-> IF t = v THEN c[u] ELSE c[t]]
            y == Trial(best, sizes, start, ids, u, A)
            r == Sorted(A) \o q
<1>1. sizes \in [Teams -> Nat] /\ u \in Playing(sizes, start) /\ ids \in SUBSET Scored
  BY DEF EqualSizes, FirstTeam, Fits
<1>2. /\ u \in start..NumTeams /\ u + 1 \in 1..NumTeams + 1
      /\ Playing(sizes, u + 1) = Playing(sizes, start) \ {u}
  BY <1>1, LaterTeams
<1>3. sizes[u] = m /\ sizes[u] > 0
  <2>1. u \in Teams /\ sizes[u] # 0 /\ sizes[u] > 0
    BY <1>1, PlayingType
  <2>. QED  BY <2>1 DEF EqualSizes
<1>4. A \in SUBSET ids /\ Cardinality(A) = m
  BY DEF Combinations, kSubset
<1>5. y \in TrialsFrom(best, sizes, start, ids)
  <2>1. u \in {w \in start..NumTeams : sizes[w] > 0}
    BY <1>2, <1>3
  <2>2. A \in Combinations(ids, sizes[u])
    BY <1>3
  <2>. QED  BY <2>1, <2>2 DEF TrialsFrom
<1>6. y.ordering = r
  BY DEF Trial
<1>7. Fits(sizes, u + 1, left) /\ Split(rest, sizes, u + 1, left) /\ NoWider(rest, c)
  BY WithoutPart
<1>8. IsOrdering(Sorted(A), A) /\ IsOrdering(q, left)
  <2>1. A \in SUBSET Scored /\ left \in SUBSET Scored
    BY <1>1, <1>4
  <2>2. u + 1 \in (u + 1)..NumTeams + 1
    BY <1>2
  <2>. QED  BY <2>1, <2>2, SortedIsOrdering DEF ListsFrom
<1>9. NoWider(Parts(q, sizes, u + 1), rest)
  <2>. HIDE DEF rest
  <2>. QED  BY <1>7 DEF Ideal
<1>10. /\ IsOrdering(r, ids)
       /\ Parts(r, sizes, start)[u] = A
       /\ \A t \in Playing(sizes, u + 1) : Parts(r, sizes, start)[t] = Parts(q, sizes, u + 1)[t]
  <2>. HIDE DEF q
  <2>. QED  BY <1>4, <1>7, <1>8, TrialParts
<1>. HIDE DEF r, q, rest, y, left
<1>11. NoWider(Parts(r, sizes, start), c)
  <2>. SUFFICES ASSUME NEW lo \in Nat, NEW hi \in Nat, Within(c, lo, hi)
                PROVE  Within(Parts(r, sizes, start), lo, hi)
    BY DEF NoWider
  <2>1. Within(Parts(q, sizes, u + 1), lo, hi)
    BY <1>7, <1>9 DEF NoWider
  <2>2. DOMAIN Parts(r, sizes, start) = Playing(sizes, start)
        /\ DOMAIN Parts(q, sizes, u + 1) = Playing(sizes, u + 1)
        /\ DOMAIN c = Playing(sizes, start)
    BY DEF Parts, Split
  <2>3. \A t \in Playing(sizes, start) : t = u \/ t \in Playing(sizes, u + 1)
    BY <1>2
  <2>4. lo <= Score(A) /\ Score(A) <= hi
    BY <2>2 DEF Within
  <2>. HIDE DEF A
  <2>. QED  BY <1>10, <2>1, <2>2, <2>3, <2>4 DEF Within
<1>. QED  BY <1>5, <1>6, <1>10, <1>11

-----------------------------------------------------------------------------
(* What the search finds.                                                   *)

Found(sizes, start, ids) == BalanceSlotsRecursive(sizes)[start][ids]

OptimalFrom(sizes, start) ==
  \A ids : Fits(sizes, start, ids) => Optimal(Found(sizes, start, ids), sizes, start, ids)

IdealFrom(sizes, start) ==
  \A ids : Fits(sizes, start, ids) => Ideal(Found(sizes, start, ids), sizes, start, ids)

LEMMA FoundIsOrdering ==
    ASSUME ScoresOK, NEW sizes \in [Teams -> Nat], NEW start \in 1..NumTeams + 1,
           NEW ids, Fits(sizes, start, ids)
    PROVE  IsOrdering(Found(sizes, start, ids), ids)
<1>1. ListsFrom(BalanceSlotsRecursive(sizes), 1)
  BY SearchLists
<1>. QED  BY <1>1 DEF ListsFrom, Fits, Found

\* With ideal recursive calls the search finds an optimal split: it skips one combination
\* only, and the players of another team of the split are a combination too.
LEMMA SearchIsOptimal ==
    ASSUME ScoresOK, NEW sizes, NEW m, EqualSizes(sizes, m), NEW start \in 1..NumTeams + 1,
           NEW u, FirstTeam(sizes, start, u), NEW v \in Playing(sizes, start), v # u,
           IdealFrom(sizes, u + 1)
    PROVE  OptimalFrom(sizes, start)
<1>. SUFFICES ASSUME NEW ids, Fits(sizes, start, ids),
                     NEW c, Split(c, sizes, start, ids), NEW b \in Nat, AtMost(c, b)
              PROVE  AtMost(Parts(Found(sizes, start, ids), sizes, start), b)
  BY DEF OptimalFrom, Optimal
<1>. DEFINE best == BalanceSlotsRecursive(sizes)
            trials == TrialsFrom(best, sizes, start, ids)
<1>1. /\ sizes \in [Teams -> Nat] /\ m \in Nat \ {0} /\ ids \in SUBSET Scored
      /\ u \in Playing(sizes, start)
  BY DEF EqualSizes, Fits, FirstTeam
<1>2. \A t \in Playing(sizes, start) : sizes[t] = m
  <2>. SUFFICES ASSUME NEW t \in Playing(sizes, start) PROVE sizes[t] = m
    OBVIOUS
  <2>1. t \in Teams /\ sizes[t] # 0
    BY <1>1, PlayingType
  <2>. QED  BY <2>1 DEF EqualSizes
<1>3. ListsFrom(best, 1)
  BY <1>1, SearchLists
<1>4. ListsFrom(best, start + 1) /\ ListsFrom(best, u + 1)
  <2>1. u \in start..NumTeams
    BY <1>1, LaterTeams
  <2>2. /\ \A s \in (start + 1)..NumTeams + 1 : s \in 1..NumTeams + 1
        /\ \A s \in (u + 1)..NumTeams + 1 : s \in 1..NumTeams + 1
    BY <2>1
  <2>. QED  BY <1>3, <2>2 DEF ListsFrom
<1>5. PICK o : /\ IsOrdering(o, ids)
               /\ best[start][ids] = LeadersFirst(o, sizes)
               /\ \A y \in trials :
                    LargestDifference(o, sizes, start) <= LargestDifference(y.ordering, sizes, start)
  BY <1>1, <1>4, SearchFinds
<1>6. PICK w \in {u, v} : c[w] \in Combinations(ids, m)
  <2>1. c[u] \in SUBSET ids /\ c[v] \in SUBSET ids /\ c[u] \cap c[v] = {}
        /\ Cardinality(c[u]) = m /\ Cardinality(c[v]) = m
    BY <1>1, <1>2 DEF Split
  <2>2. c[u] \in Combinations(ids, m) \/ c[v] \in Combinations(ids, m)
    BY <1>1, <2>1, OneIsTried
  <2>. QED  BY <2>2
<1>7. \A left : Fits(sizes, u + 1, left) => Ideal(best[u + 1][left], sizes, u + 1, left)
  BY DEF IdealFrom, Found
<1>. HIDE DEF best
<1>8. PICK y \in trials : NoWider(Parts(y.ordering, sizes, start), c)
  BY <1>1, <1>4, <1>6, <1>7, TrialFollows
<1>9. AtMost(Parts(y.ordering, sizes, start), b)
  <2>1. DOMAIN Parts(y.ordering, sizes, start) = DOMAIN c
    BY DEF Parts, Split
  <2>. QED  BY <1>8, <2>1, NoWiderIsSmaller
<1>. HIDE DEF trials
<1>10. LargestDifference(o, sizes, start) <= b
  <2>1. LargestDifference(y.ordering, sizes, start) <= b
    BY <1>9, DifferenceOfParts
  <2>2. LargestDifference(y.ordering, sizes, start) \in Nat /\ LargestDifference(o, sizes, start) \in Nat
    BY LargestDifferenceType
  <2>3. LargestDifference(o, sizes, start) <= LargestDifference(y.ordering, sizes, start)
    BY <1>5
  <2>. QED  BY <2>1, <2>2, <2>3
<1>11. AtMost(Parts(o, sizes, start), b)
  BY <1>10, DifferenceOfParts
<1>12. Parts(Found(sizes, start, ids), sizes, start) = Parts(o, sizes, start)
  BY <1>5, LeadersKeepParts DEF Found, best
<1>. QED  BY <1>11, <1>12

\* An optimal split is ideal if there is an ideal one.
LEMMA OptimalIsIdeal ==
    ASSUME ScoresOK, NEW sizes \in [Teams -> Nat], NEW start \in 1..NumTeams + 1,
           NEW ids, Fits(sizes, start, ids), NEW o, IsOrdering(o, ids), Optimal(o, sizes, start, ids),
           NEW c, Split(c, sizes, start, ids), \A d : Split(d, sizes, start, ids) => NoWider(c, d)
    PROVE  Ideal(o, sizes, start, ids)
<1>. DEFINE p == Parts(o, sizes, start)
<1>1. Split(p, sizes, start, ids)
  BY PartsProperties
<1>2. DOMAIN c = Playing(sizes, start) /\ DOMAIN p = Playing(sizes, start)
  BY <1>1 DEF Split
<1>3. \A A : Score(A) \in Nat
  BY ScoreType, BalanceAssumption DEF ScoresOK
<1>. SUFFICES ASSUME NEW d, Split(d, sizes, start, ids), NEW lo \in Nat, NEW hi \in Nat, Within(d, lo, hi)
              PROVE  Within(p, lo, hi)
  BY DEF Ideal, NoWider
<1>4. Within(c, lo, hi)
  BY DEF NoWider
<1>5. \A b \in Nat : AtMost(c, b) => AtMost(p, b)
  BY DEF Optimal
<1>6. NoWider(c, p)
  BY <1>1
<1>. HIDE DEF p
<1>7. CASE Playing(sizes, start) = {}
  BY <1>2, <1>7 DEF Within
<1>8. CASE Playing(sizes, start) # {}
  <2>1. PICK t, u \in DOMAIN c : Within(c, Score(c[t]), Score(c[u]))
    BY <1>2, <1>8, LowestAndHighest
  <2>2. PICK v, w \in DOMAIN p : Within(p, Score(p[v]), Score(p[w]))
    BY <1>2, <1>8, LowestAndHighest
  <2>. DEFINE lo0 == Score(c[t])
              hi0 == Score(c[u])
              lo1 == Score(p[v])
              hi1 == Score(p[w])
  <2>3. lo0 \in Nat /\ hi0 \in Nat /\ lo1 \in Nat /\ hi1 \in Nat
    BY <1>3
  <2>4. lo <= lo0 /\ hi0 <= hi
    BY <1>4 DEF Within
  <2>5. lo0 <= hi0
    BY <2>1 DEF Within
  <2>6. Within(c, lo1, hi1)
    BY <1>6, <2>2, <2>3 DEF NoWider
  <2>7. lo1 <= lo0 /\ hi0 <= hi1
    BY <2>6 DEF Within
  <2>8. hi0 - lo0 \in Nat
    BY <2>3, <2>5
  <2>9. AtMost(c, hi0 - lo0)
    <3>1. \A i \in DOMAIN c : lo0 <= Score(c[i]) /\ Score(c[i]) <= hi0 /\ Score(c[i]) \in Nat
      BY <1>3, <2>1 DEF Within
    <3>. HIDE DEF lo0, hi0
    <3>2. \A i, j \in DOMAIN c : Score(c[i]) - Score(c[j]) <= hi0 - lo0
      BY <2>3, <3>1
    <3>. QED  BY <3>2 DEF AtMost
  <2>10. AtMost(p, hi0 - lo0)
    BY <1>5, <2>8, <2>9
  <2>11. hi1 - lo1 <= hi0 - lo0
    BY <2>10 DEF AtMost
  <2>12. \A i \in DOMAIN p : lo1 <= Score(p[i]) /\ Score(p[i]) <= hi1 /\ Score(p[i]) \in Nat
    BY <1>3, <2>2 DEF Within
  <2>. HIDE DEF lo0, hi0, lo1, hi1
  <2>13. lo <= lo1 /\ hi1 <= hi
    BY <2>3, <2>4, <2>7, <2>11
  <2>14. \A i \in DOMAIN p : lo <= Score(p[i]) /\ Score(p[i]) <= hi
    BY <2>3, <2>12, <2>13
  <2>. QED  BY <2>14 DEF Within
<1>. QED  BY <1>7, <1>8

\* One team gets all players.
LEMMA OneTeamIsIdeal ==
    ASSUME NEW sizes \in [Teams -> Nat], NEW start \in 1..NumTeams + 1,
           \A t, u \in Playing(sizes, start) : t = u,
           NEW ids, Fits(sizes, start, ids), NEW o, IsOrdering(o, ids)
    PROVE  Ideal(o, sizes, start, ids)
<1>. DEFINE p == Parts(o, sizes, start)
<1>1. Split(p, sizes, start, ids)
  BY PartsProperties
<1>. HIDE DEF p
<1>2. ASSUME NEW c, Split(c, sizes, start, ids), NEW t \in Playing(sizes, start) PROVE c[t] = ids
  <2>1. c[t] \in SUBSET ids
    BY <1>2 DEF Split
  <2>2. \A q \in ids : q \in c[t]
    BY <1>2, SplitCovers
  <2>. QED  BY <2>1, <2>2
<1>3. ASSUME NEW c, Split(c, sizes, start, ids) PROVE NoWider(p, c)
  <2>1. DOMAIN c = Playing(sizes, start) /\ DOMAIN p = Playing(sizes, start)
    BY <1>1, <1>3 DEF Split
  <2>2. \A t \in DOMAIN p : p[t] = c[t]
    BY <1>1, <1>2, <1>3, <2>1
  <2>. QED  BY <2>1, <2>2 DEF NoWider, Within
<1>. QED  BY <1>3 DEF Ideal, p

\* Of two teams, the one is as much better as the other is worse.
LEMMA TwoTeamsAreIdeal ==
    ASSUME ScoresOK, NEW sizes \in [Teams -> Nat], NEW start \in 1..NumTeams + 1,
           NEW u, NEW v, u # v, Playing(sizes, start) = {u, v},
           NEW ids, Fits(sizes, start, ids), NEW o, IsOrdering(o, ids), Optimal(o, sizes, start, ids)
    PROVE  Ideal(o, sizes, start, ids)
<1>. DEFINE p == Parts(o, sizes, start)
<1>1. Split(p, sizes, start, ids)
  BY PartsProperties
<1>2. \A A : Score(A) \in Nat
  BY ScoreType, BalanceAssumption DEF ScoresOK
<1>3. ASSUME NEW c, Split(c, sizes, start, ids)
      PROVE  DOMAIN c = {u, v} /\ Score(c[v]) = Score(ids) - Score(c[u])
  <2>1. c[u] \in SUBSET ids /\ c[v] \in SUBSET ids /\ c[u] \cap c[v] = {} /\ DOMAIN c = {u, v}
    BY <1>3 DEF Split
  <2>2. \A q \in ids : q \in c[u] \/ q \in c[v]
    BY <1>3, SplitCovers
  <2>3. c[v] = ids \ c[u]
    BY <2>1, <2>2
  <2>4. score \in [Scored -> Nat] /\ ids \in SUBSET Scored
    BY BalanceAssumption DEF ScoresOK, Fits
  <2>. QED  BY <2>1, <2>3, <2>4, ScoreRest
<1>. SUFFICES ASSUME NEW c, Split(c, sizes, start, ids), NEW lo \in Nat, NEW hi \in Nat, Within(c, lo, hi)
              PROVE  Within(p, lo, hi)
  BY DEF Ideal, NoWider
<1>4. \A b \in Nat : AtMost(c, b) => AtMost(p, b)
  BY DEF Optimal
<1>. HIDE DEF p
<1>. DEFINE x == Score(c[u])
            y == Score(c[v])
            f == Score(p[u])
            g == Score(p[v])
            b == IF x < y THEN y - x ELSE x - y
            s == Score(ids)
<1>5. x \in Nat /\ y \in Nat /\ f \in Nat /\ g \in Nat /\ s \in Nat
  BY <1>2
<1>6. y = s - x /\ g = s - f /\ DOMAIN c = {u, v} /\ DOMAIN p = {u, v}
  BY <1>1, <1>3
<1>7. lo <= x /\ x <= hi /\ lo <= y /\ y <= hi
  BY <1>6 DEF Within
<1>8. AtMost(c, b)
  <2>1. x - x <= b /\ y - y <= b /\ x - y <= b /\ y - x <= b
    <3>. HIDE DEF x, y
    <3>. QED  BY <1>5
  <2>. HIDE DEF b
  <2>. QED  BY <1>6, <2>1 DEF AtMost
<1>9. b \in Nat
  <2>. HIDE DEF x, y
  <2>. QED  BY <1>5
<1>10. f - g <= b /\ g - f <= b
  <2>1. AtMost(p, b)
    BY <1>4, <1>8, <1>9
  <2>. HIDE DEF b
  <2>. QED  BY <1>6, <2>1 DEF AtMost
<1>11. lo <= f /\ f <= hi /\ lo <= g /\ g <= hi
  <2>. HIDE DEF x, y, f, g, s
  <2>. QED  BY <1>5, <1>6, <1>7, <1>9, <1>10
<1>. QED  BY <1>6, <1>11 DEF Within

-----------------------------------------------------------------------------
(* At most three teams.                                                     *)

LEMMA PlayingFinite ==
    ASSUME NEW sizes \in [Teams -> Nat], NEW start \in 1..NumTeams + 1
    PROVE  IsFiniteSet(Playing(sizes, start)) /\ Cardinality(Playing(sizes, start)) \in Nat
<1>1. NumTeams \in Int /\ start \in Int
  BY BalanceAssumption
<1>2. IsFiniteSet(start..NumTeams)
  BY <1>1, FS_Interval
<1>3. Playing(sizes, start) \in SUBSET (start..NumTeams)
  BY DEF Playing
<1>. QED  BY <1>2, <1>3, FS_Subset, FS_CardinalityType

LEMMA OneTeamLeft ==
    ASSUME ScoresOK, NEW sizes \in [Teams -> Nat], NEW start \in 1..NumTeams + 1,
           Cardinality(Playing(sizes, start)) <= 1
    PROVE  IdealFrom(sizes, start)
<1>. DEFINE P == Playing(sizes, start)
<1>1. IsFiniteSet(P) /\ Cardinality(P) \in Nat
  BY PlayingFinite
<1>2. \A t, u \in P : t = u
  <2>. HIDE DEF P
  <2>1. CASE Cardinality(P) = 0
    <3>1. P = {}
      BY <1>1, <2>1, FS_EmptySet
    <3>. QED  BY <3>1
  <2>2. CASE Cardinality(P) = 1
    <3>1. \E x : P = {x}
      BY <1>1, <2>2, FS_Singleton
    <3>. QED  BY <3>1
  <2>. QED  BY <1>1, <2>1, <2>2 DEF P
<1>. QED  BY <1>2, OneTeamIsIdeal, FoundIsOrdering DEF IdealFrom

LEMMA TwoTeamsLeft ==
    ASSUME ScoresOK, NEW sizes, NEW m, EqualSizes(sizes, m), NEW start \in 1..NumTeams + 1,
           Cardinality(Playing(sizes, start)) <= 2
    PROVE  IdealFrom(sizes, start)
<1>. DEFINE P == Playing(sizes, start)
<1>1. sizes \in [Teams -> Nat]
  BY DEF EqualSizes
<1>2. IsFiniteSet(P) /\ Cardinality(P) \in Nat
  BY <1>1, PlayingFinite
<1>3. CASE Cardinality(P) <= 1
  BY <1>1, <1>3, OneTeamLeft
<1>4. CASE ~ (Cardinality(P) <= 1)
  <2>0. Cardinality(P) = 2
    BY <1>2, <1>4
  <2>1. P # {}
    BY <2>0, FS_EmptySet
  <2>2. PICK u : FirstTeam(sizes, start, u)
    BY <1>1, <2>1, SomeFirstTeam
  <2>. DEFINE Q == Playing(sizes, u + 1)
  <2>3. u \in P /\ Q = P \ {u} /\ u + 1 \in 1..NumTeams + 1
    BY <1>1, <2>2, LaterTeams DEF FirstTeam
  <2>. HIDE DEF P, Q
  <2>4. IsFiniteSet(Q) /\ Cardinality(Q) = 1
    BY <1>2, <2>0, <2>3, FS_RemoveElement
  <2>5. PICK v : Q = {v}
    BY <2>4, FS_Singleton
  <2>6. v \in P /\ v # u /\ P = {u, v}
    BY <2>3, <2>5
  <2>7. IdealFrom(sizes, u + 1)
    <3>1. Cardinality(Playing(sizes, u + 1)) <= 1
      BY <2>4 DEF Q
    <3>. QED  BY <1>1, <2>3, <3>1, OneTeamLeft
  <2>8. OptimalFrom(sizes, start)
    BY <2>2, <2>6, <2>7, SearchIsOptimal DEF P
  <2>9. ASSUME NEW ids, Fits(sizes, start, ids)
        PROVE  Ideal(Found(sizes, start, ids), sizes, start, ids)
    <3>. DEFINE o == Found(sizes, start, ids)
    <3>1. Optimal(o, sizes, start, ids) /\ IsOrdering(o, ids)
      BY <1>1, <2>8, <2>9, FoundIsOrdering DEF OptimalFrom
    <3>. HIDE DEF o
    <3>2. Ideal(o, sizes, start, ids)
      BY <1>1, <2>6, <2>9, <3>1, TwoTeamsAreIdeal DEF P
    <3>. QED  BY <3>2 DEF o
  <2>. QED  BY <2>9 DEF IdealFrom
<1>. QED  BY <1>3, <1>4

LEMMA ThreeTeamsLeft ==
    ASSUME ScoresOK, NEW sizes, NEW m, EqualSizes(sizes, m), NEW start \in 1..NumTeams + 1,
           Cardinality(Playing(sizes, start)) <= 3
    PROVE  OptimalFrom(sizes, start)
<1>. DEFINE P == Playing(sizes, start)
<1>1. sizes \in [Teams -> Nat]
  BY DEF EqualSizes
<1>2. IsFiniteSet(P) /\ Cardinality(P) \in Nat
  BY <1>1, PlayingFinite
<1>3. CASE Cardinality(P) <= 2
  <2>1. IdealFrom(sizes, start)
    BY <1>3, TwoTeamsLeft
  <2>. QED  BY <2>1, IdealIsOptimal DEF IdealFrom, OptimalFrom
<1>4. CASE ~ (Cardinality(P) <= 2)
  <2>0. Cardinality(P) = 3
    BY <1>2, <1>4
  <2>1. P # {}
    BY <2>0, FS_EmptySet
  <2>2. PICK u : FirstTeam(sizes, start, u)
    BY <1>1, <2>1, SomeFirstTeam
  <2>. DEFINE Q == Playing(sizes, u + 1)
  <2>3. u \in P /\ Q = P \ {u} /\ u + 1 \in 1..NumTeams + 1
    BY <1>1, <2>2, LaterTeams DEF FirstTeam
  <2>. HIDE DEF P, Q
  <2>4. IsFiniteSet(Q) /\ Cardinality(Q) = 2
    BY <1>2, <2>0, <2>3, FS_RemoveElement
  <2>5. PICK v : v \in Q
    <3>1. Q # {}
      BY <2>4, FS_EmptySet
    <3>. QED  BY <3>1
  <2>6. v \in P /\ v # u
    BY <2>3, <2>5
  <2>7. IdealFrom(sizes, u + 1)
    <3>1. Cardinality(Playing(sizes, u + 1)) <= 2
      BY <2>4 DEF Q
    <3>. QED  BY <2>3, <3>1, TwoTeamsLeft
  <2>. QED  BY <2>2, <2>6, <2>7, SearchIsOptimal DEF P
<1>. QED  BY <1>3, <1>4

-----------------------------------------------------------------------------
(* Teams of one or two players, however many.                               *)

LEMMA ScoreOne ==
    ASSUME score \in [Scored -> Nat], NEW p \in Scored
    PROVE  Score({p}) = score[p]
<1>. DEFINE X == {k \in Nat : SumUpTo(score, {p}, k) = IF k < p THEN 0 ELSE score[p]}
<1>0. p \in Nat /\ 1 <= p /\ p <= MapSlots /\ MapSlots \in Nat /\ score[p] \in Nat
  BY BalanceAssumption DEF Scored
<1>1. 0 \in X
  BY <1>0, SumZero
<1>2. ASSUME NEW k \in Nat, k \in X PROVE k + 1 \in X
  <2>1. SumUpTo(score, {p}, k) = IF k < p THEN 0 ELSE score[p]
    BY <1>2
  <2>2. SumUpTo(score, {p}, k + 1)
        = SumUpTo(score, {p}, k) + IF k + 1 \in {p} THEN score[k + 1] ELSE 0
    BY SumNext
  <2>3. SumUpTo(score, {p}, k + 1) = IF k + 1 < p THEN 0 ELSE score[p]
    <3>1. CASE k + 1 < p
      BY <1>0, <2>1, <2>2, <3>1
    <3>2. CASE k + 1 = p
      BY <1>0, <2>1, <2>2, <3>2
    <3>3. CASE p < k + 1
      BY <1>0, <2>1, <2>2, <3>3
    <3>. QED  BY <1>0, <3>1, <3>2, <3>3
  <2>. QED  BY <2>3
<1>3. MapSlots \in X
  <2>. HIDE DEF X
  <2>. QED  BY <1>0, <1>1, <1>2, SetInduction
<1>4. SumUpTo(score, {p}, MapSlots) = score[p]
  BY <1>0, <1>3
<1>. QED  BY <1>4 DEF Score

LEMMA ScoreTwo ==
    ASSUME score \in [Scored -> Nat], NEW p \in Scored, NEW q \in Scored, p # q
    PROVE  Score({p, q}) = score[p] + score[q]
<1>. DEFINE P == {p, q}
<1>1. P \in SUBSET Scored /\ {p} \in SUBSET P /\ P \ {p} = {q}
  OBVIOUS
<1>. HIDE DEF P
<1>2. Score({q}) = Score(P) - Score({p})
  BY <1>1, ScoreRest
<1>3. Score({p}) = score[p] /\ Score({q}) = score[q] /\ score[p] \in Nat /\ score[q] \in Nat
  BY ScoreOne
<1>4. Score(P) \in Nat
  BY ScoreType
<1>5. Score(P) = score[p] + score[q]
  BY <1>2, <1>3, <1>4
<1>. QED  BY <1>5 DEF P

LEMMA SinglesAreIdeal ==
    ASSUME NEW sizes, EqualSizes(sizes, 1), NEW start \in 1..NumTeams + 1,
           NEW ids, Fits(sizes, start, ids), NEW o, IsOrdering(o, ids)
    PROVE  Ideal(o, sizes, start, ids)
<1>. DEFINE p == Parts(o, sizes, start)
            P == Playing(sizes, start)
<1>1. sizes \in [Teams -> Nat]
  BY DEF EqualSizes
<1>2. Split(p, sizes, start, ids)
  BY <1>1, PartsProperties
<1>3. \A t \in P : sizes[t] = 1
  <2>. SUFFICES ASSUME NEW t \in P PROVE sizes[t] = 1
    OBVIOUS
  <2>1. t \in Teams /\ sizes[t] # 0
    BY <1>1, PlayingType
  <2>. QED  BY <2>1 DEF EqualSizes
<1>4. ASSUME NEW c, Split(c, sizes, start, ids), NEW t \in P PROVE \E q \in ids : c[t] = {q}
  <2>1. c[t] \in SUBSET ids /\ Cardinality(c[t]) = 1
    BY <1>3, <1>4 DEF Split
  <2>2. IsFiniteSet(c[t])
    BY <2>1, SomeScored DEF Fits
  <2>3. \E x : c[t] = {x}
    BY <2>1, <2>2, FS_Singleton
  <2>. QED  BY <2>1, <2>3
<1>. HIDE DEF p
<1>5. ASSUME NEW c, Split(c, sizes, start, ids), NEW t \in P PROVE \E s \in P : p[t] = c[s]
  <2>1. PICK q \in ids : p[t] = {q}
    BY <1>2, <1>4
  <2>2. PICK s \in P : q \in c[s]
    BY <1>1, <1>5, SplitCovers
  <2>3. PICK r \in ids : c[s] = {r}
    BY <1>4, <1>5
  <2>. QED  BY <2>1, <2>2, <2>3
<1>6. ASSUME NEW c, Split(c, sizes, start, ids) PROVE NoWider(p, c)
  <2>1. DOMAIN c = P /\ DOMAIN p = P
    BY <1>2, <1>6 DEF Split
  <2>. HIDE DEF P
  <2>2. \A t \in P : \E s \in P : p[t] = c[s]
    BY <1>5, <1>6
  <2>. QED  BY <2>1, <2>2 DEF NoWider, Within
<1>. QED  BY <1>6 DEF Ideal, p

LEMMA Pair ==
    ASSUME NEW S, IsFiniteSet(S), Cardinality(S) = 2, NEW a \in S
    PROVE  \E b \in S : b # a /\ \A p \in S : p = a \/ p = b
<1>1. IsFiniteSet(S \ {a}) /\ Cardinality(S \ {a}) = 1
  BY FS_RemoveElement
<1>2. PICK b : S \ {a} = {b}
  BY <1>1, FS_Singleton
<1>. QED  BY <1>2

LEMMA PairSize == ASSUME NEW a, NEW b, a # b PROVE Cardinality({a, b}) = 2
<1>1. IsFiniteSet({a}) /\ Cardinality({a}) = 1
  BY FS_Singleton
<1>2. Cardinality({a} \cup {b}) = Cardinality({a}) + 1
  BY <1>1, FS_AddElement
<1>3. {a} \cup {b} = {a, b}
  OBVIOUS
<1>4. Cardinality({a} \cup {b}) = 2
  BY <1>1, <1>2
<1>. QED  BY <1>3, <1>4

WorstAndBest(ids, a, z) ==
  /\ a \in ids /\ z \in ids /\ a # z
  /\ \A p \in ids : score[a] <= score[p]
  /\ \A p \in ids \ {a} : score[p] <= score[z]

\* The best player can change teams to be with the worst one: no team gets better than the
\* best player's was, or worse than the worst player's.
LEMMA PairUp ==
    ASSUME ScoresOK, NEW sizes, EqualSizes(sizes, 2), NEW start \in 1..NumTeams + 1,
           NEW ids, Fits(sizes, start, ids), NEW a, NEW z, WorstAndBest(ids, a, z),
           NEW d, Split(d, sizes, start, ids)
    PROVE  \E e : /\ Split(e, sizes, start, ids) /\ NoWider(e, d)
                  /\ \E t \in Playing(sizes, start) : e[t] = {a, z}
<1>. DEFINE P == Playing(sizes, start)
<1>1. sizes \in [Teams -> Nat] /\ ids \in SUBSET Scored /\ score \in [Scored -> Nat]
  BY BalanceAssumption DEF EqualSizes, Fits, ScoresOK
<1>. USE DEF WorstAndBest
<1>2. \A t \in P : sizes[t] = 2
  <2>. SUFFICES ASSUME NEW t \in P PROVE sizes[t] = 2
    OBVIOUS
  <2>1. t \in Teams /\ sizes[t] # 0
    BY <1>1, PlayingType
  <2>. QED  BY <2>1 DEF EqualSizes
<1>3. /\ d \in [P -> SUBSET ids]
      /\ \A t \in P : Cardinality(d[t]) = 2
      /\ \A t, w \in P : t # w => d[t] \cap d[w] = {}
  BY <1>2 DEF Split
<1>4. \A t \in P : IsFiniteSet(d[t])
  <2>. SUFFICES ASSUME NEW t \in P PROVE IsFiniteSet(d[t])
    OBVIOUS
  <2>1. d[t] \in SUBSET Scored
    BY <1>1, <1>3
  <2>. QED  BY <2>1, SomeScored
<1>5. PICK t \in P : a \in d[t]
  BY <1>1, SplitCovers
<1>6. PICK s \in P : z \in d[s]
  BY <1>1, SplitCovers
<1>7. PICK b : b # a /\ d[t] = {a, b}
  <2>. DEFINE S == d[t]
  <2>1. IsFiniteSet(S) /\ Cardinality(S) = 2 /\ a \in S
    BY <1>3, <1>4, <1>5
  <2>. HIDE DEF S
  <2>2. \E b \in S : b # a /\ \A p \in S : p = a \/ p = b
    BY <2>1, Pair
  <2>. QED  BY <2>1, <2>2 DEF S
<1>8. CASE s = t
  <2>1. d[t] = {a, z}
    BY <1>6, <1>7, <1>8
  <2>2. NoWider(d, d)
    BY DEF NoWider
  <2>. QED  BY <1>5, <2>1, <2>2
<1>9. CASE s # t
  <2>1. PICK y : y # z /\ d[s] = {z, y}
    <3>. DEFINE S == d[s]
    <3>1. IsFiniteSet(S) /\ Cardinality(S) = 2 /\ z \in S
      BY <1>3, <1>4, <1>6
    <3>. HIDE DEF S
    <3>2. \E y \in S : y # z /\ \A p \in S : p = z \/ p = y
      BY <3>1, Pair
    <3>. QED  BY <3>1, <3>2 DEF S
  <2>2. /\ a \in ids /\ b \in ids /\ z \in ids /\ y \in ids
        /\ a # z /\ b # y /\ a # y /\ b # z /\ b # a
    BY <1>3, <1>5, <1>6, <1>7, <1>9, <2>1
  <2>. DEFINE e == [i \in P |-> IF i = t THEN {a, z} ELSE IF i = s THEN {b, y} ELSE d[i]]
  <2>3. /\ \A i \in P : i # t /\ i # s => e[i] = d[i]
        /\ e[t] = {a, z} /\ e[s] = {b, y} /\ DOMAIN e = P
    BY <1>5, <1>6, <1>9
  <2>4. e = [i \in P |-> e[i]]
    OBVIOUS
  <2>. HIDE DEF e
  <2>5. ASSUME NEW i \in P PROVE e[i] \in SUBSET ids /\ Cardinality(e[i]) = sizes[i]
    <3>0. Cardinality({a, z}) = 2 /\ Cardinality({b, y}) = 2
      BY <2>2, PairSize
    <3>1. CASE i = t
      BY <1>2, <2>2, <2>3, <3>0, <3>1
    <3>2. CASE i = s
      BY <1>2, <2>2, <2>3, <3>0, <3>2
    <3>3. CASE i # t /\ i # s
      BY <1>2, <1>3, <2>3, <3>3
    <3>. QED  BY <3>1, <3>2, <3>3
  <2>6. ASSUME NEW i \in P, NEW j \in P, i # j PROVE e[i] \cap e[j] = {}
    <3>1. e[t] \cap e[s] = {}
      BY <2>2, <2>3, <2>1
    <3>2. ASSUME NEW k \in P, k # t, k # s PROVE e[k] \cap e[t] = {} /\ e[k] \cap e[s] = {}
      <4>1. d[k] \cap d[t] = {} /\ d[k] \cap d[s] = {} /\ e[k] = d[k]
        BY <1>3, <1>5, <1>6, <2>3, <3>2
      <4>. QED  BY <1>7, <2>1, <2>3, <4>1
    <3>3. CASE i \in {t, s} /\ j \in {t, s}
      BY <2>6, <3>1, <3>3
    <3>4. CASE i \notin {t, s} /\ j \in {t, s}
      BY <3>2, <3>4
    <3>5. CASE i \in {t, s} /\ j \notin {t, s}
      BY <3>2, <3>5
    <3>6. CASE i \notin {t, s} /\ j \notin {t, s}
      <4>1. e[i] = d[i] /\ e[j] = d[j]
        BY <2>3, <3>6
      <4>. QED  BY <1>3, <2>6, <4>1
    <3>. QED  BY <3>3, <3>4, <3>5, <3>6
  <2>7. Split(e, sizes, start, ids)
    <3>1. e \in [P -> SUBSET ids]
      BY <2>4, <2>5
    <3>. QED  BY <2>5, <2>6, <3>1 DEF Split
  <2>8. /\ Score(d[t]) = score[a] + score[b] /\ Score(d[s]) = score[z] + score[y]
        /\ Score(e[t]) = score[a] + score[z] /\ Score(e[s]) = score[b] + score[y]
    <3>1. a \in Scored /\ b \in Scored /\ z \in Scored /\ y \in Scored
      BY <1>1, <2>2
    <3>. QED  BY <1>1, <1>7, <2>1, <2>2, <2>3, <3>1, ScoreTwo
  <2>9. /\ score[a] \in Nat /\ score[b] \in Nat /\ score[y] \in Nat /\ score[z] \in Nat
        /\ score[a] <= score[y] /\ score[b] <= score[z]
    BY <1>1, <2>2
  <2>10. ASSUME NEW lo \in Nat, NEW hi \in Nat, Within(d, lo, hi) PROVE Within(e, lo, hi)
    <3>1. /\ lo <= Score(d[t]) /\ Score(d[t]) <= hi /\ lo <= Score(d[s]) /\ Score(d[s]) <= hi
      BY <1>3, <1>5, <1>6, <2>10 DEF Within
    <3>2. /\ lo <= Score(e[t]) /\ Score(e[t]) <= hi /\ lo <= Score(e[s]) /\ Score(e[s]) <= hi
      BY <2>8, <2>9, <3>1
    <3>3. ASSUME NEW i \in P PROVE lo <= Score(e[i]) /\ Score(e[i]) <= hi
      <4>1. CASE i # t /\ i # s
        <5>1. e[i] = d[i] /\ i \in DOMAIN d
          BY <1>3, <2>3, <4>1
        <5>. QED  BY <2>10, <5>1 DEF Within
      <4>. QED  BY <3>2, <4>1
    <3>. QED  BY <2>3, <3>3 DEF Within
  <2>11. NoWider(e, d)
    BY <2>10 DEF NoWider
  <2>. QED  BY <1>5, <2>3, <2>7, <2>11
<1>. QED  BY <1>8, <1>9

IdealSplit(c, sizes, start, ids) ==
  Split(c, sizes, start, ids) /\ \A d : Split(d, sizes, start, ids) => NoWider(c, d)

\* The worst player with the best one, and so on.
LEMMA PairsHaveIdealSplit ==
    ASSUME ScoresOK, NEW sizes, EqualSizes(sizes, 2), NEW n \in Nat
    PROVE  \A start \in 1..NumTeams + 1 : Cardinality(Playing(sizes, start)) = n =>
             \A ids : Fits(sizes, start, ids) => \E c : IdealSplit(c, sizes, start, ids)
<1>. DEFINE Has(start) == \A ids : Fits(sizes, start, ids) => \E c : IdealSplit(c, sizes, start, ids)
            X == {k \in Nat : \A start \in 1..NumTeams + 1 :
                    Cardinality(Playing(sizes, start)) = k => Has(start)}
<1>0. sizes \in [Teams -> Nat] /\ score \in [Scored -> Nat]
  BY BalanceAssumption DEF EqualSizes, ScoresOK
<1>1. 0 \in X
  <2>. SUFFICES ASSUME NEW start \in 1..NumTeams + 1, Cardinality(Playing(sizes, start)) = 0,
                       NEW ids, Fits(sizes, start, ids)
                PROVE  \E c : IdealSplit(c, sizes, start, ids)
    OBVIOUS
  <2>1. Playing(sizes, start) = {}
    BY <1>0, PlayingFinite, FS_EmptySet
  <2>. DEFINE c == [t \in {} |-> {}]
  <2>2. c \in [{} -> SUBSET ids] /\ DOMAIN c = {}
    OBVIOUS
  <2>. HIDE DEF c
  <2>3. Split(c, sizes, start, ids)
    BY <2>1, <2>2 DEF Split
  <2>4. \A d : NoWider(c, d)
    BY <2>2 DEF NoWider, Within
  <2>. QED  BY <2>3, <2>4 DEF IdealSplit
<1>2. ASSUME NEW k \in Nat, k \in X PROVE k + 1 \in X
  <2>. SUFFICES ASSUME NEW start \in 1..NumTeams + 1, Cardinality(Playing(sizes, start)) = k + 1,
                       NEW ids, Fits(sizes, start, ids)
                PROVE  \E c : IdealSplit(c, sizes, start, ids)
    OBVIOUS
  <2>. DEFINE P == Playing(sizes, start)
  <2>1. IsFiniteSet(P) /\ P # {}
    BY <1>0, PlayingFinite, FS_EmptySet
  <2>2. PICK u : FirstTeam(sizes, start, u)
    BY <1>0, <2>1, SomeFirstTeam
  <2>. DEFINE Q == Playing(sizes, u + 1)
  <2>3. /\ u \in P /\ Q = P \ {u} /\ u + 1 \in 1..NumTeams + 1
        /\ NumTeams + 1 \in (u + 1)..NumTeams + 1
        /\ Offset(sizes, start, NumTeams + 1) = sizes[u] + Offset(sizes, u + 1, NumTeams + 1)
        /\ Offset(sizes, u + 1, NumTeams + 1) \in Nat
    <3>1. /\ u \in P /\ Q = P \ {u} /\ u + 1 \in 1..NumTeams + 1
          /\ \A t \in (u + 1)..NumTeams + 1 :
               /\ Offset(sizes, start, t) = sizes[u] + Offset(sizes, u + 1, t)
               /\ Offset(sizes, u + 1, t) \in Nat
      BY <1>0, <2>2, LaterTeams DEF FirstTeam
    <3>2. NumTeams + 1 \in (u + 1)..NumTeams + 1
      BY <3>1, BalanceAssumption
    <3>. QED  BY <3>1, <3>2
  <2>4. \A t \in P : sizes[t] = 2
    <3>. SUFFICES ASSUME NEW t \in P PROVE sizes[t] = 2
      OBVIOUS
    <3>1. t \in Teams /\ sizes[t] # 0
      BY <1>0, PlayingType
    <3>. QED  BY <3>1 DEF EqualSizes
  <2>5. Cardinality(Q) = k
    <3>. HIDE DEF P, Q
    <3>1. Cardinality(P) = k + 1
      BY DEF P
    <3>. QED  BY <2>1, <2>3, <3>1, FS_RemoveElement
  <2>6. Has(u + 1)
    BY <1>2, <2>3, <2>5
  <2>. HIDE DEF P, Q
  <2>7. /\ ids \in SUBSET Scored /\ IsFiniteSet(ids)
        /\ Cardinality(ids) = 2 + Offset(sizes, u + 1, NumTeams + 1)
    BY <2>3, <2>4, SomeScored DEF Fits
  <2>8. PICK a \in ids : \A p \in ids : score[a] <= score[p]
    <3>. DEFINE D == {score[p] : p \in ids}
    <3>1. ids # {}
      BY <2>3, <2>7, FS_EmptySet
    <3>2. D \in SUBSET Nat /\ D # {}
      BY <1>0, <2>7, <3>1
    <3>3. PICK l \in D : \A i \in D : l <= i
      <4>. HIDE DEF D
      <4>. QED  BY <3>2, SmallestMember
    <3>. QED  BY <3>3
  <2>9. PICK z \in ids \ {a} : \A p \in ids \ {a} : score[p] <= score[z]
    <3>. DEFINE D == {score[p] : p \in ids \ {a}}
                h == Score(Scored)
    <3>1. ids \ {a} # {}
      <4>1. Cardinality(ids \ {a}) = Cardinality(ids) - 1
        BY <2>7, FS_RemoveElement
      <4>2. Cardinality(ids \ {a}) # 0
        BY <2>3, <2>7, <4>1
      <4>. HIDE DEF D
      <4>. QED  BY <4>2, FS_EmptySet
    <3>2. D \in SUBSET Nat /\ D # {} /\ h \in Nat /\ \A i \in D : i <= h
      <4>1. \A p \in ids : score[p] \in Nat /\ score[p] <= h
        <5>. SUFFICES ASSUME NEW p \in ids PROVE score[p] \in Nat /\ score[p] <= h
          OBVIOUS
        <5>1. p \in Scored /\ score[p] \in Nat
          BY <1>0, <2>7
        <5>. QED  BY <1>0, <5>1, ScoreOne, ScoreType
      <4>2. h \in Nat
        BY <1>0, ScoreType
      <4>. HIDE DEF h
      <4>. QED  BY <3>1, <4>1, <4>2
    <3>3. \E l \in D : \A i \in D : i <= l
      <4>. HIDE DEF D, h
      <4>. QED  BY <3>2, LargestMember
    <3>. QED  BY <3>3
  <2>. DEFINE left == ids \ {a, z}
  <2>10. Fits(sizes, u + 1, left)
    <3>1. a # z /\ ids \cap {a, z} = {a, z}
      BY <2>9
    <3>2. Cardinality(left) = Cardinality(ids) - 2
      <4>1. Cardinality(left) = Cardinality(ids) - Cardinality(ids \cap {a, z})
        BY <2>7, FS_Difference
      <4>2. Cardinality({a, z}) = 2
        BY <3>1, PairSize
      <4>. HIDE DEF left
      <4>. QED  BY <3>1, <4>1, <4>2
    <3>3. Cardinality(left) = Offset(sizes, u + 1, NumTeams + 1)
      <4>. HIDE DEF left
      <4>. QED  BY <2>3, <2>7, <3>2
    <3>. QED  BY <2>7, <3>3 DEF Fits
  <2>11. PICK r : IdealSplit(r, sizes, u + 1, left)
    BY <2>6, <2>10
  <2>. HIDE DEF left
  <2>. DEFINE c == [t \in P |-> IF t = u THEN {a, z} ELSE r[t]]
  <2>12. c[u] = {a, z} /\ (\A t \in Q : t \in P /\ t # u /\ c[t] = r[t]) /\ DOMAIN c = P
         /\ (\A t \in P : t = u \/ t \in Q)
    BY <2>3
  <2>13. c = [t \in P |-> c[t]]
    OBVIOUS
  <2>. HIDE DEF c
  <2>14. /\ r \in [Q -> SUBSET left]
         /\ \A t \in Q : Cardinality(r[t]) = sizes[t]
         /\ \A t, w \in Q : t # w => r[t] \cap r[w] = {}
    BY <2>11 DEF IdealSplit, Split, Q
  <2>15. Split(c, sizes, start, ids)
    <3>1. ASSUME NEW t \in P PROVE c[t] \in SUBSET ids /\ Cardinality(c[t]) = sizes[t]
      <4>1. CASE t = u
        <5>1. Cardinality({a, z}) = 2
          BY <2>9, PairSize
        <5>. QED  BY <2>4, <2>9, <2>12, <4>1, <5>1
      <4>2. CASE t \in Q
        BY <2>12, <2>14, <4>2 DEF left
      <4>. QED  BY <2>12, <4>1, <4>2
    <3>2. ASSUME NEW t \in P, NEW w \in P, t # w PROVE c[t] \cap c[w] = {}
      <4>1. \A i \in Q : c[i] \cap {a, z} = {}
        BY <2>12, <2>14 DEF left
      <4>2. CASE t \in Q /\ w \in Q
        BY <2>12, <2>14, <3>2, <4>2
      <4>3. CASE t = u /\ w \in Q
        BY <2>12, <4>1, <4>3
      <4>4. CASE t \in Q /\ w = u
        BY <2>12, <4>1, <4>4
      <4>. QED  BY <2>12, <3>2, <4>2, <4>3, <4>4
    <3>3. c \in [P -> SUBSET ids]
      BY <2>13, <3>1
    <3>. QED  BY <3>1, <3>2, <3>3 DEF Split, P
  <2>16. ASSUME NEW d, Split(d, sizes, start, ids) PROVE NoWider(c, d)
    <3>1. PICK e : /\ Split(e, sizes, start, ids) /\ NoWider(e, d)
                   /\ \E t \in Playing(sizes, start) : e[t] = {a, z}
      <4>1. a \in ids /\ z \in ids /\ a # z
        BY <2>9
      <4>2. WorstAndBest(ids, a, z)
        BY <2>8, <2>9, <4>1 DEF WorstAndBest
      <4>. QED  BY <2>16, <4>2, PairUp
    <3>2. PICK t \in Playing(sizes, start) : e[t] = {a, z}
      BY <3>1
    <3>. DEFINE rest == [i \in Playing(sizes, u + 1) |-> IF i = t THEN e[u] ELSE e[i]]
    <3>3. Split(rest, sizes, u + 1, left) /\ NoWider(rest, e)
      <4>1. Split(rest, sizes, u + 1, ids \ e[t]) /\ NoWider(rest, e)
        BY <2>2, <3>1, WithoutPart
      <4>. HIDE DEF rest
      <4>. QED  BY <3>2, <4>1 DEF left
    <3>. HIDE DEF rest
    <3>4. NoWider(r, rest)
      BY <2>11, <3>3 DEF IdealSplit
    <3>. SUFFICES ASSUME NEW lo \in Nat, NEW hi \in Nat, Within(d, lo, hi) PROVE Within(c, lo, hi)
      BY DEF NoWider
    <3>5. Within(e, lo, hi)
      BY <3>1 DEF NoWider
    <3>6. Within(r, lo, hi)
      BY <3>3, <3>4, <3>5 DEF NoWider
    <3>7. lo <= Score({a, z}) /\ Score({a, z}) <= hi
      <4>1. t \in DOMAIN e
        BY <3>1 DEF Split
      <4>. QED  BY <3>2, <3>5, <4>1 DEF Within
    <3>8. DOMAIN r = Q
      BY <2>14
    <3>. QED  BY <2>12, <3>6, <3>7, <3>8 DEF Within
  <2>. QED  BY <2>15, <2>16 DEF IdealSplit
<1>. HIDE DEF X
<1>3. n \in X
  BY <1>1, <1>2, SetInduction
<1>. QED  BY <1>3 DEF X

LEMMA PairsLeft ==
    ASSUME ScoresOK, NEW sizes, EqualSizes(sizes, 2), NEW n \in Nat
    PROVE  \A start \in 1..NumTeams + 1 : Cardinality(Playing(sizes, start)) = n => IdealFrom(sizes, start)
<1>. DEFINE X == {k \in Nat : \A start \in 1..NumTeams + 1 :
                    Cardinality(Playing(sizes, start)) = k => IdealFrom(sizes, start)}
<1>0. sizes \in [Teams -> Nat]
  BY DEF EqualSizes
<1>1. 0 \in X
  BY <1>0, OneTeamLeft
<1>2. ASSUME NEW k \in Nat, k \in X PROVE k + 1 \in X
  <2>. SUFFICES ASSUME NEW start \in 1..NumTeams + 1, Cardinality(Playing(sizes, start)) = k + 1
                PROVE  IdealFrom(sizes, start)
    OBVIOUS
  <2>1. CASE k = 0
    <3>1. Cardinality(Playing(sizes, start)) <= 1
      BY <2>1
    <3>. QED  BY <1>0, <3>1, OneTeamLeft
  <2>2. CASE k # 0
    <3>. DEFINE P == Playing(sizes, start)
    <3>1. IsFiniteSet(P) /\ P # {}
      BY <1>0, PlayingFinite, FS_EmptySet
    <3>2. PICK u : FirstTeam(sizes, start, u)
      BY <1>0, <3>1, SomeFirstTeam
    <3>. DEFINE Q == Playing(sizes, u + 1)
    <3>3. u \in P /\ Q = P \ {u} /\ u + 1 \in 1..NumTeams + 1
      BY <1>0, <3>2, LaterTeams DEF FirstTeam
    <3>4. IsFiniteSet(Q) /\ Cardinality(Q) = k
      <4>1. Cardinality(P) = k + 1
        OBVIOUS
      <4>. HIDE DEF P, Q
      <4>. QED  BY <3>1, <3>3, <4>1, FS_RemoveElement
    <3>5. PICK v : v \in Q
      <4>. HIDE DEF P, Q
      <4>1. Q # {}
        BY <2>2, <3>4, FS_EmptySet
      <4>. QED  BY <4>1
    <3>6. v \in P /\ v # u
      BY <3>3, <3>5
    <3>7. IdealFrom(sizes, u + 1)
      BY <1>2, <3>3, <3>4
    <3>8. OptimalFrom(sizes, start)
      BY <3>2, <3>6, <3>7, SearchIsOptimal
    <3>. HIDE DEF P, Q
    <3>9. ASSUME NEW ids, Fits(sizes, start, ids)
          PROVE  Ideal(Found(sizes, start, ids), sizes, start, ids)
      <4>. DEFINE o == Found(sizes, start, ids)
      <4>1. Optimal(o, sizes, start, ids) /\ IsOrdering(o, ids)
        BY <1>0, <3>8, <3>9, FoundIsOrdering DEF OptimalFrom
      <4>2. PICK c : IdealSplit(c, sizes, start, ids)
        BY <3>9, PairsHaveIdealSplit
      <4>. HIDE DEF o
      <4>3. Ideal(o, sizes, start, ids)
        BY <1>0, <3>9, <4>1, <4>2, OptimalIsIdeal DEF IdealSplit
      <4>. QED  BY <4>3 DEF o
    <3>. QED  BY <3>9 DEF IdealFrom
  <2>. QED  BY <2>1, <2>2
<1>. HIDE DEF X
<1>3. n \in X
  BY <1>1, <1>2, SetInduction
<1>. QED  BY <1>3 DEF X

LEMMA SmallTeamsLeft ==
    ASSUME ScoresOK, NEW sizes, NEW m, EqualSizes(sizes, m), m <= 2, NEW start \in 1..NumTeams + 1
    PROVE  OptimalFrom(sizes, start)
<1>1. sizes \in [Teams -> Nat] /\ m \in {1, 2}
  BY DEF EqualSizes
<1>2. IdealFrom(sizes, start)
  <2>1. CASE m = 1
    <3>1. EqualSizes(sizes, 1)
      BY <2>1
    <3>. QED  BY <1>1, <3>1, SinglesAreIdeal, FoundIsOrdering DEF IdealFrom
  <2>2. CASE m = 2
    <3>1. EqualSizes(sizes, 2) /\ Cardinality(Playing(sizes, start)) \in Nat
      BY <1>1, <2>2, PlayingFinite
    <3>. QED  BY <3>1, PairsLeft
  <2>. QED  BY <1>1, <2>1, <2>2
<1>. QED  BY <1>2, IdealIsOptimal DEF IdealFrom, OptimalFrom

-----------------------------------------------------------------------------
(* The swaps.                                                               *)

\* Every slot is of a team, and no player is in two slots.
Layout(sl) ==
  /\ sl \in [Places -> [team : Teams, who : Scored \cup {Nobody, Machine}]]
  /\ \A s, t \in Places : sl[s].who \in Scored /\ sl[s].who = sl[t].who => s = t

LEMMA LayoutProperties ==
    ASSUME NEW sl, Layout(sl)
    PROVE  /\ Players(sl) \in SUBSET Scored
           /\ \A p \in Players(sl) : /\ SlotOf(sl, p) \in Places /\ sl[SlotOf(sl, p)].who = p
                                     /\ TeamOf(sl, p) \in Teams
           /\ \A s \in Places : sl[s].who \in Scored =>
                sl[s].who \in Players(sl) /\ SlotOf(sl, sl[s].who) = s
           /\ Sizes(sl) \in [Teams -> Nat]
           /\ \A t \in Teams : Sizes(sl)[t] = Cardinality({p \in Players(sl) : TeamOf(sl, p) = t})
           /\ Offset(Sizes(sl), 1, NumTeams + 1) = Cardinality(Players(sl))
<1>1. Players(sl) \in SUBSET Scored
  BY DEF Players
<1>2. ASSUME NEW p \in Players(sl)
      PROVE  SlotOf(sl, p) \in Places /\ sl[SlotOf(sl, p)].who = p /\ TeamOf(sl, p) \in Teams
  <2>1. \E s \in Places : sl[s].who = p
    BY DEF Players
  <2>2. SlotOf(sl, p) \in Places /\ sl[SlotOf(sl, p)].who = p
    BY <2>1 DEF SlotOf
  <2>. QED  BY <2>2 DEF TeamOf, Layout
<1>3. ASSUME NEW s \in Places, sl[s].who \in Scored
      PROVE  sl[s].who \in Players(sl) /\ SlotOf(sl, sl[s].who) = s
  <2>1. sl[s].who \in Players(sl)
    BY <1>3 DEF Players
  <2>. QED  BY <1>2, <1>3, <2>1 DEF Layout
<1>4. \A t \in Teams : Sizes(sl)[t] = Cardinality({p \in Players(sl) : TeamOf(sl, p) = t})
  BY DEF Sizes, TeamSize
<1>5. IsFiniteSet(Players(sl)) /\ \A t \in Teams : Cardinality({p \in Players(sl) : TeamOf(sl, p) = t}) \in Nat
  <2>1. \A t \in Teams : {p \in Players(sl) : TeamOf(sl, p) = t} \in SUBSET Scored
    BY <1>1
  <2>. QED  BY <1>1, <2>1, SomeScored
<1>6. Sizes(sl) \in [Teams -> Nat]
  BY <1>4, <1>5 DEF Sizes
<1>7. Offset(Sizes(sl), 1, NumTeams + 1) = Cardinality(Players(sl))
  <2>. DEFINE f == [p \in Players(sl) |-> TeamOf(sl, p)]
  <2>1. f \in [Players(sl) -> Teams]
    BY <1>2
  <2>2. \A t \in Teams : {p \in Players(sl) : f[p] = t} = {p \in Players(sl) : TeamOf(sl, p) = t}
    OBVIOUS
  <2>3. \A t \in Teams : Sizes(sl)[t] = Cardinality({p \in Players(sl) : f[p] = t})
    BY <1>4, <2>2
  <2>. HIDE DEF f
  <2>. QED  BY <1>5, <1>6, <2>1, <2>3, SizesAddUp
<1>. QED  BY <1>1, <1>2, <1>3, <1>4, <1>6, <1>7

\* A team has as many slots to put players into as it had players: the invalid swap that
\* "shouldn't happen" does not happen.
LEMMA EnoughSlots ==
    ASSUME NEW sl, Layout(sl), NEW t \in Teams
    PROVE  LET free == {s \in Places : sl[s].team = t /\ sl[s].who # Machine}
           IN  IsFiniteSet(free) /\ free \in SUBSET Int /\ Sizes(sl)[t] <= Cardinality(free)
<1>. DEFINE free == {s \in Places : sl[s].team = t /\ sl[s].who # Machine}
            mine == {p \in Players(sl) : TeamOf(sl, p) = t}
            f == [p \in mine |-> SlotOf(sl, p)]
<1>1. IsFiniteSet(free)
  <2>1. IsFiniteSet(Places)
    BY FS_Interval, BalanceAssumption DEF Places
  <2>. QED  BY <2>1, FS_Subset
<1>2. free \in SUBSET Int
  BY BalanceAssumption DEF Places
<1>3. f \in Injection(mine, free)
  <2>1. \A p \in mine : /\ SlotOf(sl, p) \in free
                        /\ sl[SlotOf(sl, p)].who = p
    <3>. SUFFICES ASSUME NEW p \in mine PROVE SlotOf(sl, p) \in free /\ sl[SlotOf(sl, p)].who = p
      OBVIOUS
    <3>1. SlotOf(sl, p) \in Places /\ sl[SlotOf(sl, p)].who = p /\ p \in Scored
      BY LayoutProperties
    <3>2. p # Machine
      BY <3>1, BalanceAssumption DEF Scored, Machine
    <3>. QED  BY <3>1, <3>2 DEF TeamOf
  <2>2. f \in [mine -> free]
    BY <2>1
  <2>3. \A p, q \in mine : f[p] = f[q] => p = q
    BY <2>1
  <2>. HIDE DEF f, mine, free
  <2>. QED  BY <2>2, <2>3 DEF Injection, IsInjective
<1>4. Cardinality(mine) <= Cardinality(free)
  <2>. HIDE DEF f, mine, free
  <2>. QED  BY <1>1, <1>3, FS_Injection
<1>5. Sizes(sl)[t] = Cardinality(mine)
  BY LayoutProperties
<1>. QED  BY <1>1, <1>2, <1>4, <1>5

LEMMA TargetProperties ==
    ASSUME NEW sl, Layout(sl)
    PROVE  LET sizes == Sizes(sl)
               T == Targets(sl, sizes)
               n == Cardinality(Players(sl))
           IN  /\ n \in Nat
               /\ \A t \in Teams : Block(sizes, 1, t) \subseteq 1..n
               /\ \A k \in 1..n : \E t \in Teams : k \in Block(sizes, 1, t)
               /\ \A t \in Teams : \A k \in Block(sizes, 1, t) :
                    T[k] \in Places /\ sl[T[k]].team = t /\ sl[T[k]].who # Machine
               /\ \A t \in Teams : \A j, k \in Block(sizes, 1, t) : j < k => T[j] < T[k]
               /\ \A j, k \in 1..n : T[j] = T[k] => j = k
<1>. DEFINE sizes == Sizes(sl)
            T == Targets(sl, sizes)
            n == Cardinality(Players(sl))
            free(t) == {s \in Places : sl[s].team = t /\ sl[s].who # Machine}
            team(k) == CHOOSE u \in Teams : k \in Block(sizes, 1, u)
<1>1. /\ sizes \in [Teams -> Nat] /\ Offset(sizes, 1, NumTeams + 1) = n /\ Players(sl) \in SUBSET Scored
  BY LayoutProperties
<1>2. n \in Nat
  BY <1>1, SomeScored
<1>3. T = [k \in 1..n |-> Sorted(free(team(k)))[k - Offset(sizes, 1, team(k))]]
  BY DEF Targets
<1>4. \A t \in Teams : IsFiniteSet(free(t)) /\ free(t) \in SUBSET Int /\ sizes[t] <= Cardinality(free(t))
  BY EnoughSlots
<1>5. \A t \in Teams : \A s \in free(t) : s \in Places /\ sl[s].team = t /\ sl[s].who # Machine
  OBVIOUS
<1>. HIDE DEF sizes, T, n, free
<1>6. 1 \in 1..NumTeams + 1 /\ Teams = 1..NumTeams
  BY BalanceAssumption DEF Teams
<1>7. ASSUME NEW t \in Teams PROVE Block(sizes, 1, t) \subseteq 1..n
  BY <1>1, <1>6, BlockType
<1>8. ASSUME NEW k \in 1..n PROVE \E t \in Teams : k \in Block(sizes, 1, t)
  BY <1>1, <1>6, SomeTeam
<1>9. ASSUME NEW t \in Teams, NEW k \in Block(sizes, 1, t)
      PROVE  /\ T[k] = Sorted(free(t))[k - Offset(sizes, 1, t)]
             /\ k - Offset(sizes, 1, t) \in 1..Cardinality(free(t))
             /\ Offset(sizes, 1, t) \in Nat
  <2>1. \A u \in Teams : k \in Block(sizes, 1, u) => u = t
    BY <1>1, <1>6, OneTeam
  <2>2. team(k) = t
    BY <2>1
  <2>3. k \in 1..n
    BY <1>7
  <2>4. Offset(sizes, 1, t) \in Nat /\ sizes[t] \in Nat
    BY <1>1, <1>6, BlockType
  <2>5. k - Offset(sizes, 1, t) \in 1..sizes[t]
    BY <2>4 DEF Block
  <2>6. Cardinality(free(t)) \in Nat /\ sizes[t] <= Cardinality(free(t))
    BY <1>4, FS_CardinalityType
  <2>7. k - Offset(sizes, 1, t) \in 1..Cardinality(free(t))
    BY <2>4, <2>5, <2>6
  <2>. HIDE DEF team
  <2>8. T[k] = Sorted(free(t))[k - Offset(sizes, 1, t)]
    BY <1>3, <2>2, <2>3
  <2>. QED  BY <2>4, <2>7, <2>8
<1>10. ASSUME NEW t \in Teams
       PROVE  /\ \A k \in 1..Cardinality(free(t)) : Sorted(free(t))[k] \in free(t)
              /\ \A j, k \in 1..Cardinality(free(t)) : j < k => Sorted(free(t))[j] < Sorted(free(t))[k]
  BY <1>4, SortedProperties
<1>11. ASSUME NEW t \in Teams, NEW k \in Block(sizes, 1, t)
       PROVE  T[k] \in Places /\ sl[T[k]].team = t /\ sl[T[k]].who # Machine
  BY <1>5, <1>9, <1>10
<1>12. ASSUME NEW t \in Teams, NEW j \in Block(sizes, 1, t), NEW k \in Block(sizes, 1, t), j < k
       PROVE  T[j] < T[k]
  <2>1. j \in Int /\ k \in Int
    BY <1>2, <1>7
  <2>2. j - Offset(sizes, 1, t) < k - Offset(sizes, 1, t)
    BY <1>9, <1>12, <2>1
  <2>. QED  BY <1>9, <1>10, <2>2
<1>13. ASSUME NEW j \in 1..n, NEW k \in 1..n, T[j] = T[k] PROVE j = k
  <2>1. PICK t \in Teams : j \in Block(sizes, 1, t)
    BY <1>8
  <2>2. PICK u \in Teams : k \in Block(sizes, 1, u)
    BY <1>8
  <2>3. t = u
    BY <1>11, <1>13, <2>1, <2>2
  <2>4. T[j] \in Int
    BY <1>11, <2>1 DEF Places
  <2>5. ~ (T[j] < T[k]) /\ ~ (T[k] < T[j])
    BY <1>13, <2>4
  <2>6. ~ (j < k) /\ ~ (k < j)
    BY <1>12, <2>1, <2>2, <2>3, <2>5
  <2>. QED  BY <1>2, <2>6
<1>. QED  BY <1>2, <1>7, <1>8, <1>11, <1>12, <1>13 DEF sizes, T, n

\* The slots after each of the first n swaps.
Swaps(sl, T, o, g, n) ==
  g = [k \in 0..n |-> IF k = 0 THEN sl ELSE Exchange(g[k - 1], T[k], SlotOf(g[k - 1], o[k]))]

LEMMA SwapsExist == ASSUME NEW sl, NEW T, NEW o, NEW n \in Nat PROVE \E g : Swaps(sl, T, o, g, n)
<1>. DEFINE X == {k \in Nat : \E g : Swaps(sl, T, o, g, k)}
<1>1. 0 \in X
  <2>. DEFINE g == [i \in 0..0 |-> sl]
  <2>1. Swaps(sl, T, o, g, 0)
    BY DEF Swaps
  <2>. QED  BY <2>1
<1>2. ASSUME NEW k \in Nat, k \in X PROVE k + 1 \in X
  <2>1. PICK g : Swaps(sl, T, o, g, k)
    BY <1>2
  <2>. DEFINE next == Exchange(g[k], T[k + 1], SlotOf(g[k], o[k + 1]))
              h == [i \in 0..k + 1 |-> IF i = k + 1 THEN next ELSE g[i]]
  <2>2. ASSUME NEW i \in 0..k + 1
        PROVE  h[i] = IF i = 0 THEN sl ELSE Exchange(h[i - 1], T[i], SlotOf(h[i - 1], o[i]))
    <3>1. CASE i = k + 1
      <4>1. i # 0 /\ i - 1 = k /\ k \in 0..k + 1 /\ k # k + 1
        BY <3>1
      <4>2. h[i] = next /\ h[i - 1] = g[k]
        BY <3>1, <4>1
      <4>. HIDE DEF h
      <4>. QED  BY <3>1, <4>1, <4>2
    <3>2. CASE i # k + 1
      <4>1. i \in 0..k /\ (i # 0 => i - 1 \in 0..k + 1 /\ i - 1 # k + 1)
        BY <3>2
      <4>2. g[i] = IF i = 0 THEN sl ELSE Exchange(g[i - 1], T[i], SlotOf(g[i - 1], o[i]))
        BY <2>1, <4>1 DEF Swaps
      <4>3. h[i] = g[i] /\ (i # 0 => h[i - 1] = g[i - 1])
        BY <3>2, <4>1
      <4>. HIDE DEF h
      <4>. QED  BY <4>2, <4>3
    <3>. QED  BY <3>1, <3>2
  <2>3. h = [i \in 0..k + 1 |-> h[i]]
    OBVIOUS
  <2>. HIDE DEF h
  <2>4. Swaps(sl, T, o, h, k + 1)
    BY <2>2, <2>3 DEF Swaps
  <2>. QED  BY <2>4
<1>. HIDE DEF X
<1>3. n \in X
  BY <1>1, <1>2, SetInduction
<1>. QED  BY <1>3 DEF X

\* Nothing but players and open slots has moved.
Moved(sl, q) ==
  /\ Layout(q)
  /\ Players(q) = Players(sl)
  /\ \A s \in Places : q[s].team = sl[s].team
  /\ \A s \in Places : q[s].who = Machine <=> sl[s].who = Machine

\* A player is put into a slot that holds no computer.
LEMMA ExchangeMoves ==
    ASSUME NEW sl, NEW q, Moved(sl, q), NEW a \in Places, sl[a].who # Machine, NEW p \in Players(q)
    PROVE  LET b == SlotOf(q, p)
               r == Exchange(q, a, b)
           IN  /\ Moved(sl, r)
               /\ r[a].who = p
               /\ \A s \in Places \ {a, b} : r[s] = q[s]
               /\ b \in Places /\ q[b].who = p
<1>. DEFINE b == SlotOf(q, p)
            r == Exchange(q, a, b)
<1>1. Layout(q) /\ b \in Places /\ q[b].who = p /\ p \in Scored
  BY LayoutProperties DEF Moved
<1>. HIDE DEF b
<1>2. q \in [Places -> [team : Teams, who : Scored \cup {Nobody, Machine}]]
  BY <1>1 DEF Layout
<1>3. /\ r \in [Places -> [team : Teams, who : Scored \cup {Nobody, Machine}]]
      /\ r[a].who = q[b].who /\ r[b].who = q[a].who
      /\ \A s \in Places \ {a, b} : r[s] = q[s]
      /\ \A s \in Places : r[s].team = q[s].team
  BY <1>1, <1>2 DEF Exchange
<1>4. q[a].who # Machine /\ q[b].who # Machine
  <2>1. p # Machine
    BY <1>1, BalanceAssumption DEF Scored, Machine
  <2>. QED  BY <1>1, <2>1 DEF Moved
<1>. HIDE DEF r
<1>5. ASSUME NEW s \in Places, NEW t \in Places, r[s].who \in Scored, r[s].who = r[t].who PROVE s = t
  <2>. DEFINE from(i) == IF i = a THEN b ELSE IF i = b THEN a ELSE i
  <2>1. \A i \in Places : from(i) \in Places /\ r[i].who = q[from(i)].who /\ from(from(i)) = i
    BY <1>1, <1>3
  <2>. HIDE DEF from
  <2>2. from(s) = from(t)
    BY <1>1, <1>5, <2>1 DEF Layout
  <2>. QED  BY <2>1, <2>2
<1>6. Layout(r)
  BY <1>3, <1>5 DEF Layout
<1>7. {r[s].who : s \in Places} = {q[s].who : s \in Places}
  <2>. DEFINE from(i) == IF i = a THEN b ELSE IF i = b THEN a ELSE i
  <2>1. \A i \in Places : from(i) \in Places /\ r[i].who = q[from(i)].who /\ q[i].who = r[from(i)].who
    BY <1>1, <1>3
  <2>. HIDE DEF from
  <2>. QED  BY <2>1
<1>8. Players(r) = Players(sl)
  BY <1>7 DEF Players, Moved
<1>9. ASSUME NEW s \in Places PROVE r[s].who = Machine <=> sl[s].who = Machine
  <2>1. CASE s \in {a, b}
    BY <1>1, <1>3, <1>4, <2>1 DEF Moved
  <2>2. CASE s \notin {a, b}
    BY <1>3, <2>2 DEF Moved
  <2>. QED  BY <2>1, <2>2
<1>10. Moved(sl, r)
  BY <1>3, <1>6, <1>8, <1>9 DEF Moved
<1>. QED  BY <1>1, <1>3, <1>10 DEF b, r

\* In the end every player of the ordering is in its slot.
LEMMA PutInPlaceProperties ==
    ASSUME NEW sl, Layout(sl), NEW o, IsOrdering(o, Players(sl))
    PROVE  LET q == PutInPlace(sl, o)
               T == Targets(sl, Sizes(sl))
           IN  /\ Moved(sl, q)
               /\ \A k \in 1..Cardinality(Players(sl)) : q[T[k]].who = o[k]
<1>. DEFINE T == Targets(sl, Sizes(sl))
            n == Cardinality(Players(sl))
            g == CHOOSE h : Swaps(sl, T, o, h, n)
            X == {k \in Nat : k <= n => /\ Moved(sl, g[k])
                                        /\ \A j \in 1..k : g[k][T[j]].who = o[j]}
<1>1. n \in Nat /\ \A k \in 1..n : T[k] \in Places /\ sl[T[k]].who # Machine
  BY TargetProperties
<1>2. \A j, k \in 1..n : T[j] = T[k] => j = k
  BY TargetProperties
<1>3. /\ o \in [1..n -> Players(sl)] /\ \A j, k \in 1..n : o[j] = o[k] => j = k
  BY DEF IsOrdering
<1>4. Len(o) = n
  BY <1>1, <1>3
<1>5. Swaps(sl, T, o, g, n)
  BY <1>1, SwapsExist
<1>6. PutInPlace(sl, o) = g[n]
  BY <1>4 DEF PutInPlace, Swaps
<1>. HIDE DEF T, n, g
<1>7. g[0] = sl /\ \A k \in 1..n : g[k] = Exchange(g[k - 1], T[k], SlotOf(g[k - 1], o[k]))
  <2>1. 0 \in 0..n /\ \A k \in 1..n : k \in 0..n /\ k # 0
    BY <1>1
  <2>. QED  BY <1>5, <2>1 DEF Swaps
<1>8. 0 \in X
  <2>1. Moved(sl, sl)
    BY DEF Moved
  <2>. QED  BY <1>7, <2>1
<1>9. ASSUME NEW k \in Nat, k \in X PROVE k + 1 \in X
  <2>. SUFFICES ASSUME k + 1 <= n
                PROVE  Moved(sl, g[k + 1]) /\ \A j \in 1..(k + 1) : g[k + 1][T[j]].who = o[j]
    OBVIOUS
  <2>. DEFINE q == g[k]
              a == T[k + 1]
              b == SlotOf(q, o[k + 1])
  <2>1. k + 1 \in 1..n /\ (k + 1) - 1 = k /\ k <= n /\ \A j \in 1..(k + 1) : j = k + 1 \/ j \in 1..k
    BY <1>1
  <2>2. Moved(sl, q) /\ \A j \in 1..k : q[T[j]].who = o[j]
    BY <1>9, <2>1
  <2>3. g[k + 1] = Exchange(q, a, b)
    BY <1>7, <2>1
  <2>4. a \in Places /\ sl[a].who # Machine /\ o[k + 1] \in Players(q)
    BY <1>1, <1>3, <2>1, <2>2 DEF Moved
  <2>5. /\ Moved(sl, g[k + 1]) /\ g[k + 1][a].who = o[k + 1]
        /\ \A s \in Places \ {a, b} : g[k + 1][s] = q[s]
        /\ q[b].who = o[k + 1]
    BY <2>2, <2>3, <2>4, ExchangeMoves
  <2>6. ASSUME NEW j \in 1..k PROVE g[k + 1][T[j]].who = o[j]
    <3>1. j \in 1..n /\ j # k + 1
      BY <1>1, <2>1
    <3>2. T[j] \in Places /\ T[j] # a /\ T[j] # b
      BY <1>1, <1>2, <1>3, <2>1, <2>2, <2>5, <3>1
    <3>. QED  BY <2>2, <2>5, <3>2
  <2>. QED  BY <2>1, <2>5, <2>6
<1>10. n \in X
  <2>. HIDE DEF X
  <2>. QED  BY <1>1, <1>8, <1>9, SetInduction
<1>11. Moved(sl, g[n]) /\ \A j \in 1..n : g[n][T[j]].who = o[j]
  BY <1>1, <1>10
<1>. QED  BY <1>6, <1>11 DEF T, n

\* Every team has the players and the slots of its block.
LEMMA TeamsInPlace ==
    ASSUME NEW sl, Layout(sl), NEW o, IsOrdering(o, Players(sl))
    PROVE  LET q == PutInPlace(sl, o)
               sizes == Sizes(sl)
               T == Targets(sl, sizes)
           IN  \A t \in Teams :
                 /\ {p \in Players(sl) : TeamOf(q, p) = t} = {o[k] : k \in Block(sizes, 1, t)}
                 /\ {s \in Places : q[s].team = t /\ q[s].who \in Scored} = {T[k] : k \in Block(sizes, 1, t)}
                 /\ TeamSize(q, t) = TeamSize(sl, t)
<1>. DEFINE q == PutInPlace(sl, o)
            sizes == Sizes(sl)
            T == Targets(sl, sizes)
            n == Cardinality(Players(sl))
            P == Players(sl)
<1>1. Moved(sl, q) /\ \A k \in 1..n : q[T[k]].who = o[k]
  BY PutInPlaceProperties
<1>2. /\ \A t \in Teams : Block(sizes, 1, t) \subseteq 1..n
      /\ \A k \in 1..n : \E t \in Teams : k \in Block(sizes, 1, t)
      /\ \A t \in Teams : \A k \in Block(sizes, 1, t) : T[k] \in Places /\ sl[T[k]].team = t
  BY TargetProperties
<1>3. /\ o \in [1..n -> P]
      /\ \A j, k \in 1..n : o[j] = o[k] => j = k
      /\ \A p \in P : \E k \in 1..n : o[k] = p
  BY DEF IsOrdering
<1>4. P \subseteq Scored /\ sizes \in [Teams -> Nat] /\ \A t \in Teams : sizes[t] = TeamSize(sl, t)
  BY LayoutProperties DEF Sizes
<1>5. Layout(q) /\ Players(q) = P /\ \A s \in Places : q[s].team = sl[s].team
  BY <1>1 DEF Moved
<1>6. /\ \A p \in P : SlotOf(q, p) \in Places /\ q[SlotOf(q, p)].who = p
      /\ \A s \in Places : q[s].who \in Scored => q[s].who \in P /\ SlotOf(q, q[s].who) = s
  BY <1>5, LayoutProperties
<1>. HIDE DEF q, sizes, T, n, P
<1>7. ASSUME NEW t \in Teams, NEW k \in Block(sizes, 1, t)
      PROVE  o[k] \in P /\ SlotOf(q, o[k]) = T[k] /\ TeamOf(q, o[k]) = t /\ T[k] \in Places
  <2>1. k \in 1..n /\ T[k] \in Places /\ sl[T[k]].team = t
    BY <1>2
  <2>2. o[k] \in P /\ o[k] \in Scored /\ q[T[k]].who = o[k]
    BY <1>1, <1>3, <1>4, <2>1
  <2>3. SlotOf(q, o[k]) = T[k]
    BY <1>6, <2>1, <2>2
  <2>4. TeamOf(q, o[k]) = t
    BY <1>5, <2>1, <2>3 DEF TeamOf
  <2>. QED  BY <2>1, <2>2, <2>3, <2>4
<1>8. ASSUME NEW t \in Teams, NEW p \in P, TeamOf(q, p) = t
      PROVE  \E k \in Block(sizes, 1, t) : o[k] = p
  <2>1. PICK k \in 1..n : o[k] = p
    BY <1>3
  <2>2. PICK u \in Teams : k \in Block(sizes, 1, u)
    BY <1>2, <2>1
  <2>3. u = t
    BY <1>7, <1>8, <2>1, <2>2
  <2>. QED  BY <2>1, <2>2, <2>3
<1>. SUFFICES ASSUME NEW t \in Teams
              PROVE  /\ {p \in P : TeamOf(q, p) = t} = {o[k] : k \in Block(sizes, 1, t)}
                     /\ {s \in Places : q[s].team = t /\ q[s].who \in Scored} = {T[k] : k \in Block(sizes, 1, t)}
                     /\ TeamSize(q, t) = TeamSize(sl, t)
  BY DEF q, sizes, T, P
<1>9. {p \in P : TeamOf(q, p) = t} = {o[k] : k \in Block(sizes, 1, t)}
  BY <1>7, <1>8
<1>10. {s \in Places : q[s].team = t /\ q[s].who \in Scored} = {T[k] : k \in Block(sizes, 1, t)}
  <2>1. ASSUME NEW s \in Places, q[s].team = t, q[s].who \in Scored
        PROVE  \E k \in Block(sizes, 1, t) : T[k] = s
    <3>1. q[s].who \in P /\ SlotOf(q, q[s].who) = s
      BY <1>6, <2>1
    <3>2. TeamOf(q, q[s].who) = t
      BY <2>1, <3>1 DEF TeamOf
    <3>3. PICK k \in Block(sizes, 1, t) : o[k] = q[s].who
      BY <1>8, <3>1, <3>2
    <3>. QED  BY <1>7, <3>1, <3>3
  <2>2. ASSUME NEW k \in Block(sizes, 1, t)
        PROVE  T[k] \in Places /\ q[T[k]].team = t /\ q[T[k]].who \in Scored
    <3>1. o[k] \in P /\ SlotOf(q, o[k]) = T[k] /\ TeamOf(q, o[k]) = t /\ T[k] \in Places
      BY <1>7
    <3>2. q[T[k]].who = o[k]
      BY <1>6, <3>1
    <3>. QED  BY <1>4, <3>1, <3>2 DEF TeamOf
  <2>. QED  BY <2>1, <2>2
<1>11. TeamSize(q, t) = TeamSize(sl, t)
  <2>1. 1 \in 1..NumTeams + 1 /\ t \in 1..NumTeams
    BY BalanceAssumption DEF Teams
  <2>2. Block(sizes, 1, t) \in SUBSET (1..Cardinality(P))
    BY <1>2 DEF n, P
  <2>3. Cardinality({o[k] : k \in Block(sizes, 1, t)}) = Cardinality(Block(sizes, 1, t))
    <3>1. IsOrdering(o, P) /\ P \in SUBSET Scored
      BY <1>4 DEF P
    <3>. QED  BY <2>2, <3>1, ListedOnce
  <2>4. Cardinality(Block(sizes, 1, t)) = sizes[t]
    BY <1>4, <2>1, BlockSize
  <2>. QED  BY <1>4, <1>5, <1>9, <2>3, <2>4 DEF TeamSize
<1>. QED  BY <1>9, <1>10, <1>11

\* The best player of a team is in the team's first slot with a player.
LEMMA LeadersInPlace ==
    ASSUME ScoresOK, NEW sl, Layout(sl), NEW o, IsOrdering(o, Players(sl)), NEW t \in Teams
    PROVE  LET q == PutInPlace(sl, LeadersFirst(o, Sizes(sl)))
               mine == {s \in Places : q[s].team = t /\ q[s].who \in Scored}
           IN  \A s \in mine : score[q[s].who] <= score[q[Min(mine)].who]
<1>. DEFINE sizes == Sizes(sl)
            r == LeadersFirst(o, sizes)
            q == PutInPlace(sl, r)
            T == Targets(sl, sizes)
            n == Cardinality(Players(sl))
            B == Block(sizes, 1, t)
            mine == {s \in Places : q[s].team = t /\ q[s].who \in Scored}
<1>1. sizes \in [Teams -> Nat] /\ Players(sl) \in SUBSET Scored
  BY LayoutProperties
<1>2. /\ IsOrdering(r, Players(sl))
      /\ Here(o, sizes, t) # {} =>
           \A j \in Here(o, sizes, t) : score[r[j]] <= score[r[Min(Here(o, sizes, t))]]
  BY <1>1, LeadersFirstProperties
<1>3. B \subseteq 1..n /\ \A k \in B : T[k] \in Places
  BY TargetProperties
<1>4. \A j, k \in B : j < k => T[j] < T[k]
  BY TargetProperties
<1>5. Here(o, sizes, t) = B
  BY <1>3 DEF Here, IsOrdering
<1>6. mine = {T[k] : k \in B} /\ \A k \in 1..n : q[T[k]].who = r[k]
  BY <1>2, TeamsInPlace, PutInPlaceProperties
<1>. HIDE DEF sizes, r, q, T, n, B, mine
<1>7. ASSUME NEW s \in mine PROVE score[q[s].who] <= score[q[Min(mine)].who]
  <2>1. PICK k \in B : s = T[k]
    BY <1>6
  <2>2. B # {} /\ B \in SUBSET Nat /\ mine # {} /\ mine \in SUBSET Nat
    BY <1>3, <1>6, <2>1 DEF Places
  <2>3. Min(B) \in B /\ \A j \in B : Min(B) <= j
    BY <2>2, LeastIsMember
  <2>4. Min(mine) \in mine /\ \A j \in mine : Min(mine) <= j
    BY <2>2, LeastIsMember
  <2>5. PICK j \in B : Min(mine) = T[j]
    BY <1>6, <2>4
  <2>6. T[Min(B)] \in mine /\ T[Min(B)] \in Nat /\ T[j] \in Nat /\ Min(B) \in Nat /\ j \in Nat
    BY <1>6, <2>2, <2>3, <2>5
  <2>7. ~ (Min(B) < j)
    <3>1. ~ (T[Min(B)] < T[j])
      BY <2>4, <2>5, <2>6
    <3>. QED  BY <1>4, <2>3, <3>1
  <2>8. j = Min(B)
    <3>1. Min(B) <= j
      BY <2>3
    <3>. QED  BY <2>6, <2>7, <3>1
  <2>9. q[s].who = r[k] /\ q[Min(mine)].who = r[Min(B)]
    BY <1>3, <1>6, <2>1, <2>5, <2>8
  <2>10. score[r[k]] <= score[r[Min(B)]]
    BY <1>2, <1>5, <2>2
  <2>. QED  BY <2>9, <2>10
<1>. QED  BY <1>7 DEF mine, q, r, sizes

-----------------------------------------------------------------------------
(* The invariant.                                                           *)

\* A map with players has a layout, before the balancing.
BalanceInv ==
  /\ ScoresOK
  /\ Layout(before)
  /\ balanced \in BOOLEAN
  /\ ~balanced => teamSlots = before

\* Players in the slots' order have different PIDs, none above their number.
LEMMA PIDsInOrder ==
    ASSUME NEW S \in SUBSET Int, IsFiniteSet(S), NEW s \in S
    PROVE  LET pid(x) == Cardinality({y \in S : y <= x})
           IN  pid(s) \in 1..Cardinality(S) /\ \A u \in S : s < u => pid(s) < pid(u)
<1>. DEFINE pid(x) == Cardinality({y \in S : y <= x})
            rank(x) == Cardinality({y \in S : y < x})
<1>1. ASSUME NEW x \in S PROVE pid(x) = rank(x) + 1
  <2>. DEFINE below == {y \in S : y < x}
  <2>1. {y \in S : y <= x} = below \cup {x} /\ x \notin below
    <3>1. x \in Int /\ \A y \in S : y \in Int
      OBVIOUS
    <3>2. \A y \in S : y <= x <=> (y < x \/ y = x)
      BY <3>1
    <3>3. ~ (x < x)
      BY <3>1
    <3>. QED  BY <3>2, <3>3
  <2>2. IsFiniteSet(below)
    BY FS_Subset
  <2>. HIDE DEF below
  <2>3. Cardinality(below \cup {x}) = Cardinality(below) + 1
    BY <2>1, <2>2, FS_AddElement
  <2>. QED  BY <2>1, <2>3 DEF below
<1>2. \A x \in S : rank(x) \in 0..Cardinality(S) - 1
  BY Ranks
<1>3. \A x, z \in S : x < z => rank(x) < rank(z)
  BY Ranks
<1>4. Cardinality(S) \in Nat
  BY FS_CardinalityType
<1>. HIDE DEF pid, rank
<1>5. pid(s) \in 1..Cardinality(S)
  BY <1>1, <1>2, <1>4
<1>6. ASSUME NEW u \in S, s < u PROVE pid(s) < pid(u)
  <2>1. rank(s) \in Int /\ rank(u) \in Int /\ rank(s) < rank(u)
    BY <1>2, <1>3, <1>6
  <2>. QED  BY <1>1, <2>1
<1>. QED  BY <1>5, <1>6 DEF pid

LEMMA BalanceInvInit == BalanceInit => BalanceInv
<1>. SUFFICES ASSUME BalanceInit PROVE BalanceInv
  OBVIOUS
<1>1. PICK map \in Maps :
        LET playing == {s \in Places : map.what[s] = "player"}
            n == Cardinality(playing)
            pids == IF map.inOrder THEN {[s \in playing |-> Cardinality({t \in playing : t <= s})]}
                    ELSE Bijection(playing, 1..n)
        IN \E pid \in pids :
             /\ teamSlots = [s \in Places |->
                               [team |-> map.team[s],
                                who  |-> CASE map.what[s] = "player"   -> pid[s]
                                           [] map.what[s] = "computer" -> Machine
                                           [] map.what[s] = "open"     -> Nobody]]
             /\ score \in [Scored -> 0..map.best]
             /\ \A p \in Scored : p > n => score[p] = 0
  BY DEF BalanceInit
<1>. DEFINE playing == {s \in Places : map.what[s] = "player"}
            n == Cardinality(playing)
            pids == IF map.inOrder THEN {[s \in playing |-> Cardinality({t \in playing : t <= s})]}
                    ELSE Bijection(playing, 1..n)
<1>2. PICK pid \in pids :
        /\ teamSlots = [s \in Places |->
                          [team |-> map.team[s],
                           who  |-> CASE map.what[s] = "player"   -> pid[s]
                                      [] map.what[s] = "computer" -> Machine
                                      [] map.what[s] = "open"     -> Nobody]]
        /\ score \in [Scored -> 0..map.best]
  BY <1>1
<1>3. /\ map.team \in [Places -> Teams] /\ map.what \in [Places -> {"player", "computer", "open"}]
      /\ map.best \in Nat /\ map.best <= MaxScore
  BY BalanceAssumption DEF Places, Teams
<1>4. ScoresOK
  <2>1. 0..map.best \subseteq 0..MaxScore
    BY <1>3, BalanceAssumption
  <2>. QED  BY <1>2, <2>1 DEF ScoresOK
<1>5. playing \in SUBSET Int /\ IsFiniteSet(playing) /\ n \in Nat /\ n <= MapSlots
  <2>1. IsFiniteSet(Places) /\ Cardinality(Places) = MapSlots
    BY FS_Interval, BalanceAssumption DEF Places
  <2>2. IsFiniteSet(playing) /\ Cardinality(playing) <= Cardinality(Places)
    BY <2>1, FS_Subset
  <2>3. n \in Nat
    BY <2>2, FS_CardinalityType
  <2>4. playing \in SUBSET Int
    BY DEF Places
  <2>. QED  BY <2>1, <2>2, <2>3, <2>4
<1>6. /\ \A s \in playing : pid[s] \in 1..n
      /\ \A s, t \in playing : pid[s] = pid[t] => s = t
  <2>. HIDE DEF playing
  <2>1. CASE map.inOrder
    <3>1. pid = [s \in playing |-> Cardinality({t \in playing : t <= s})]
      BY <2>1
    <3>2. \A s \in playing : pid[s] \in 1..n /\ \A u \in playing : s < u => pid[s] < pid[u]
      BY <1>5, <3>1, PIDsInOrder
    <3>. HIDE DEF n, pids
    <3>3. ASSUME NEW s \in playing, NEW t \in playing, pid[s] = pid[t] PROVE s = t
      <4>1. pid[s] \in Int /\ pid[t] \in Int /\ s \in Int /\ t \in Int
        BY <1>5, <3>2
      <4>2. ~ (s < t) /\ ~ (t < s)
        BY <3>2, <3>3, <4>1
      <4>. QED  BY <4>1, <4>2
    <3>. QED  BY <3>2, <3>3
  <2>2. CASE ~map.inOrder
    <3>1. pid \in Bijection(playing, 1..n)
      BY <2>2
    <3>. HIDE DEF n, pids
    <3>. QED  BY <3>1 DEF Bijection, Injection, IsInjective
  <2>. QED  BY <2>1, <2>2
<1>. HIDE DEF n, pids
<1>7. ASSUME NEW s \in Places
      PROVE  /\ teamSlots[s].team \in Teams
             /\ teamSlots[s].who \in Scored => s \in playing /\ teamSlots[s].who = pid[s]
             /\ teamSlots[s].who \in Scored \cup {Nobody, Machine}
             /\ teamSlots[s] = [team |-> teamSlots[s].team, who |-> teamSlots[s].who]
  <2>1. teamSlots[s] = [team |-> map.team[s],
                        who  |-> CASE map.what[s] = "player"   -> pid[s]
                                   [] map.what[s] = "computer" -> Machine
                                   [] map.what[s] = "open"     -> Nobody]
    BY <1>2
  <2>2. map.team[s] \in Teams /\ map.what[s] \in {"player", "computer", "open"}
    BY <1>3
  <2>3. Machine \notin Scored /\ Nobody \notin Scored
    BY BalanceAssumption DEF Machine, Nobody, Scored
  <2>4. CASE map.what[s] = "player"
    <3>1. s \in playing /\ pid[s] \in Scored
      BY <1>5, <1>6, <2>4, BalanceAssumption DEF Scored
    <3>. QED  BY <2>1, <2>2, <2>4, <3>1
  <2>5. CASE map.what[s] = "computer"
    BY <2>1, <2>2, <2>3, <2>5
  <2>6. CASE map.what[s] = "open"
    BY <2>1, <2>2, <2>3, <2>6
  <2>. QED  BY <2>2, <2>4, <2>5, <2>6
<1>8. Layout(teamSlots)
  <2>1. teamSlots = [s \in Places |-> teamSlots[s]]
    BY <1>2
  <2>2. \A s \in Places : teamSlots[s] \in [team : Teams, who : Scored \cup {Nobody, Machine}]
    <3>. SUFFICES ASSUME NEW s \in Places
                  PROVE  teamSlots[s] \in [team : Teams, who : Scored \cup {Nobody, Machine}]
      OBVIOUS
    <3>. DEFINE a == teamSlots[s].team
                b == teamSlots[s].who
    <3>1. teamSlots[s] = [team |-> a, who |-> b] /\ a \in Teams /\ b \in Scored \cup {Nobody, Machine}
      BY <1>7
    <3>. HIDE DEF a, b
    <3>. QED  BY <3>1
  <2>3. teamSlots \in [Places -> [team : Teams, who : Scored \cup {Nobody, Machine}]]
    BY <2>1, <2>2
  <2>4. \A s, t \in Places : teamSlots[s].who \in Scored /\ teamSlots[s].who = teamSlots[t].who => s = t
    BY <1>6, <1>7
  <2>. QED  BY <2>3, <2>4 DEF Layout
<1>9. before = teamSlots /\ balanced = FALSE
  BY DEF BalanceInit
<1>. QED  BY <1>4, <1>8, <1>9 DEF BalanceInv

LEMMA BalanceInvNext == BalanceInv /\ [Balance]_balanceVars => BalanceInv'
BY DEF BalanceInv, Balance, balanceVars, ScoresOK, Layout

\* The search returns a list of the players with the leaders first.
LEMMA BestOrderingProperties ==
    ASSUME ScoresOK, NEW sl, Layout(sl)
    PROVE  \E o : IsOrdering(o, Players(sl)) /\ BestOrdering(sl) = LeadersFirst(o, Sizes(sl))
<1>1. Sizes(sl) \in [Teams -> Nat] /\ Players(sl) \in SUBSET Scored
  BY LayoutProperties
<1>2. ListsFrom(BalanceSlotsRecursive(Sizes(sl)), 2)
  <2>1. ListsFrom(BalanceSlotsRecursive(Sizes(sl)), 1)
    BY <1>1, SearchLists
  <2>2. \A s \in 2..NumTeams + 1 : s \in 1..NumTeams + 1
    BY BalanceAssumption
  <2>. QED  BY <2>1, <2>2 DEF ListsFrom
<1>3. 1 \in 1..NumTeams + 1 /\ 1 + 1 = 2
  BY BalanceAssumption
<1>. QED  BY <1>1, <1>2, <1>3, SearchFinds DEF BestOrdering

\* Balancing loses no player, computer or open slot and changes no team's size, whatever
\* the map, the scores and the number of teams (the swaps at the end of BalanceSlots).
THEOREM BalancingLosesNobody == BalanceSpec => []NobodyIsLost
<1>1. BalanceInit => NobodyIsLost
  BY DEF BalanceInit, NobodyIsLost
<1>2. BalanceInv /\ NobodyIsLost /\ [Balance]_balanceVars => NobodyIsLost'
  <2>. SUFFICES ASSUME BalanceInv, NobodyIsLost, [Balance]_balanceVars PROVE NobodyIsLost'
    OBVIOUS
  <2>1. CASE Balance
    <3>. DEFINE r == BestOrdering(teamSlots)
    <3>1. teamSlots' = PutInPlace(before, r) /\ before' = before
      BY <2>1 DEF Balance, BalanceInv
    <3>2. ScoresOK /\ Layout(before) /\ teamSlots = before
      BY <2>1 DEF Balance, BalanceInv
    <3>3. PICK o : IsOrdering(o, Players(before)) /\ r = LeadersFirst(o, Sizes(before))
      BY <3>2, BestOrderingProperties
    <3>. HIDE DEF r
    <3>4. IsOrdering(r, Players(before))
      <4>1. Sizes(before) \in [Teams -> Nat] /\ Players(before) \in SUBSET Scored
        BY <3>2, LayoutProperties
      <4>. QED  BY <3>2, <3>3, <4>1, LeadersFirstProperties
    <3>5. Moved(before, teamSlots') /\ \A t \in Teams : TeamSize(teamSlots', t) = TeamSize(before, t)
      BY <3>1, <3>2, <3>4, PutInPlaceProperties, TeamsInPlace
    <3>. QED  BY <3>1, <3>5 DEF NobodyIsLost, Moved
  <2>2. CASE UNCHANGED balanceVars
    BY <2>2 DEF NobodyIsLost, balanceVars
  <2>. QED  BY <2>1, <2>2
<1>. QED  BY <1>1, <1>2, BalanceInvInit, BalanceInvNext, PTL DEF BalanceSpec

\* Whatever the search went through, the first player that the slots list of a team has the
\* team's best score (the swap of the leader in BalanceSlotsRecursive).
THEOREM TheLeaderIsAlwaysFirst == BalanceSpec => []LeaderIsFirst
<1>1. BalanceInit => LeaderIsFirst
  BY DEF BalanceInit, LeaderIsFirst
<1>2. BalanceInv /\ LeaderIsFirst /\ [Balance]_balanceVars => LeaderIsFirst'
  <2>. SUFFICES ASSUME BalanceInv, LeaderIsFirst, [Balance]_balanceVars PROVE LeaderIsFirst'
    OBVIOUS
  <2>1. CASE Balance
    <3>. DEFINE r == BestOrdering(teamSlots)
    <3>1. teamSlots' = PutInPlace(before, r) /\ score' = score
      BY <2>1 DEF Balance, BalanceInv
    <3>2. ScoresOK /\ Layout(before) /\ teamSlots = before
      BY <2>1 DEF Balance, BalanceInv
    <3>3. PICK o : IsOrdering(o, Players(before)) /\ r = LeadersFirst(o, Sizes(before))
      BY <3>2, BestOrderingProperties
    <3>. HIDE DEF r
    <3>4. ASSUME NEW t \in Teams
          PROVE  LET q == teamSlots'
                     mine == {s \in Places : q[s].team = t /\ q[s].who \in Scored}
                 IN  \A s \in mine : score[q[s].who] <= score[q[Min(mine)].who]
      BY <3>1, <3>2, <3>3, LeadersInPlace
    <3>. QED  BY <3>1, <3>4 DEF LeaderIsFirst
  <2>2. CASE UNCHANGED balanceVars
    BY <2>2 DEF LeaderIsFirst, balanceVars
  <2>. QED  BY <2>1, <2>2
<1>. QED  BY <1>1, <1>2, BalanceInvInit, BalanceInvNext, PTL DEF BalanceSpec

-----------------------------------------------------------------------------
(* Equal teams are balanced.                                                *)

\* At most three teams have players, or no team has more than two.
FewOrSmallTeams(sl) ==
  \/ Cardinality({t \in Teams : TeamSize(sl, t) > 0}) <= 3
  \/ \A t \in Teams : TeamSize(sl, t) <= 2

LEMMA LayoutFits ==
    ASSUME NEW sl, Layout(sl)
    PROVE  /\ Fits(Sizes(sl), 1, Players(sl))
           /\ Sizes(sl) \in [Teams -> Nat]
           /\ \A t \in Teams : Sizes(sl)[t] = TeamSize(sl, t)
           /\ Playing(Sizes(sl), 1) = {t \in Teams : TeamSize(sl, t) > 0}
<1>1. Sizes(sl) \in [Teams -> Nat] /\ \A t \in Teams : Sizes(sl)[t] = TeamSize(sl, t)
  BY LayoutProperties DEF Sizes
<1>2. Fits(Sizes(sl), 1, Players(sl))
  BY LayoutProperties DEF Fits
<1>3. Playing(Sizes(sl), 1) = {t \in Teams : TeamSize(sl, t) > 0}
  BY <1>1 DEF Playing, Teams
<1>. QED  BY <1>1, <1>2, <1>3

\* The search is optimal for such teams.
LEMMA EqualTeamsAreSearched ==
    ASSUME ScoresOK, NEW sl, Layout(sl), EqualTeams(sl), FewOrSmallTeams(sl)
    PROVE  /\ IsOrdering(BestOrdering(sl), Players(sl))
           /\ Optimal(BestOrdering(sl), Sizes(sl), 1, Players(sl))
<1>. DEFINE sizes == Sizes(sl)
            P == Playing(sizes, 1)
            ids == Players(sl)
<1>1. /\ Fits(sizes, 1, ids) /\ sizes \in [Teams -> Nat]
      /\ \A t \in Teams : sizes[t] = TeamSize(sl, t)
      /\ P = {t \in Teams : TeamSize(sl, t) > 0}
  BY LayoutFits
<1>2. BestOrdering(sl) = Found(sizes, 1, ids)
  BY DEF BestOrdering, Found
<1>3. 1 \in 1..NumTeams + 1
  BY BalanceAssumption
<1>. HIDE DEF sizes, P, ids
<1>4. \A t, u \in P : sizes[t] = sizes[u]
  BY <1>1 DEF EqualTeams
<1>5. \A t \in Teams : t \in P \/ sizes[t] = 0
  <2>. SUFFICES ASSUME NEW t \in Teams, t \notin P PROVE sizes[t] = 0
    OBVIOUS
  <2>1. sizes[t] \in Nat /\ ~ (sizes[t] > 0)
    BY <1>1
  <2>. QED  BY <2>1
<1>6. OptimalFrom(sizes, 1)
  <2>1. CASE P = {}
    <3>1. EqualSizes(sizes, 1)
      BY <1>1, <1>5, <2>1 DEF EqualSizes
    <3>. QED  BY <1>3, <3>1, SmallTeamsLeft
  <2>2. ASSUME NEW u \in P PROVE OptimalFrom(sizes, 1)
    <3>1. u \in Teams /\ sizes[u] \in Nat \ {0}
      <4>1. u \in Teams /\ sizes[u] \in Nat /\ sizes[u] > 0
        BY <1>1
      <4>. QED  BY <4>1
    <3>2. EqualSizes(sizes, sizes[u])
      BY <1>1, <1>4, <1>5, <3>1 DEF EqualSizes
    <3>3. CASE Cardinality({t \in Teams : TeamSize(sl, t) > 0}) <= 3
      <4>1. Cardinality(Playing(sizes, 1)) <= 3
        BY <1>1, <3>3 DEF P
      <4>. QED  BY <1>3, <3>2, <4>1, ThreeTeamsLeft
    <3>4. CASE \A t \in Teams : TeamSize(sl, t) <= 2
      <4>1. sizes[u] <= 2
        BY <1>1, <3>1, <3>4
      <4>. QED  BY <1>3, <3>2, <4>1, SmallTeamsLeft
    <3>. QED  BY <3>3, <3>4 DEF FewOrSmallTeams
  <2>. QED  BY <2>1, <2>2
<1>7. Optimal(Found(sizes, 1, ids), sizes, 1, ids)
  BY <1>1, <1>6 DEF OptimalFrom
<1>8. IsOrdering(Found(sizes, 1, ids), ids)
  BY <1>1, <1>3, FoundIsOrdering
<1>. QED  BY <1>2, <1>7, <1>8 DEF sizes, ids

\* The swaps make the teams those of the ordering.
LEMMA BalancedTeams ==
    ASSUME ScoresOK, NEW sl, Layout(sl), NEW r, IsOrdering(r, Players(sl)),
           Optimal(r, Sizes(sl), 1, Players(sl)), NEW f \in Splits(sl)
    PROVE  Unfairness(PutInPlace(sl, r)) <= SplitUnfairness(sl, f)
<1>. DEFINE sizes == Sizes(sl)
            ids == Players(sl)
            q == PutInPlace(sl, r)
            P == {t \in Teams : TeamSize(sl, t) > 0}
            split == [t \in Teams |-> Score({p \in ids : f[p] = t})]
            after == [t \in Teams |-> Score({p \in ids : TeamOf(q, p) = t})]
            n == Score(Scored)
            c == [t \in P |-> {p \in ids : f[p] = t}]
            b == SplitUnfairness(sl, f)
<1>1. /\ Fits(sizes, 1, ids) /\ sizes \in [Teams -> Nat]
      /\ \A t \in Teams : sizes[t] = TeamSize(sl, t)
      /\ Playing(sizes, 1) = P
  BY LayoutFits
<1>2. /\ Players(q) = ids
      /\ \A t \in Teams : /\ {p \in ids : TeamOf(q, p) = t} = {r[k] : k \in Block(sizes, 1, t)}
                          /\ TeamSize(q, t) = TeamSize(sl, t)
  BY TeamsInPlace, PutInPlaceProperties DEF Moved
<1>3. b = Spread(split, P)
  BY DEF SplitUnfairness
<1>4. Unfairness(q) = Spread(after, P)
  <2>. DEFINE g == [p \in Players(q) |-> TeamOf(q, p)]
  <2>1. \A t \in Teams : {p \in Players(q) : g[p] = t} = {p \in ids : TeamOf(q, p) = t}
    BY <1>2
  <2>2. {t \in Teams : TeamSize(q, t) > 0} = P
    BY <1>2
  <2>3. Unfairness(q) = SplitUnfairness(q, g)
    BY DEF Unfairness
  <2>. HIDE DEF g, q, P
  <2>4. [t \in Teams |-> Score({p \in Players(q) : g[p] = t})] = after
    BY <2>1
  <2>5. SplitUnfairness(q, g)
        = Spread([t \in Teams |-> Score({p \in Players(q) : g[p] = t})], {t \in Teams : TeamSize(q, t) > 0})
    BY DEF SplitUnfairness
  <2>. HIDE DEF after
  <2>. QED  BY <2>2, <2>3, <2>4, <2>5
<1>5. \A A : Score(A) \in Nat /\ Score(A) <= n
  BY ScoreType, BalanceAssumption DEF ScoresOK
<1>6. P \subseteq Teams /\ n \in Nat
  BY <1>5
<1>7. \A t \in P : split[t] \in Nat /\ split[t] <= n /\ after[t] \in Nat /\ after[t] <= n
  <2>. HIDE DEF n, q, P
  <2>. QED  BY <1>5, <1>6
<1>8. Split(c, sizes, 1, ids)
  <2>. HIDE DEF q, sizes, ids
  <2>1. c \in [P -> SUBSET ids]
    OBVIOUS
  <2>2. \A t \in P : Cardinality(c[t]) = sizes[t]
    <3>1. \A t \in Teams : Cardinality({p \in Players(sl) : f[p] = t}) = TeamSize(sl, t)
      BY DEF Splits
    <3>. QED  BY <1>1, <3>1 DEF ids
  <2>3. \A t, u \in P : t # u => c[t] \cap c[u] = {}
    OBVIOUS
  <2>. HIDE DEF c, P
  <2>. QED  BY <1>1, <2>1, <2>2, <2>3 DEF Split
<1>9. \A t \in P : Score(c[t]) = split[t] /\ t \in DOMAIN c
  OBVIOUS
<1>10. DOMAIN c = P
  OBVIOUS
<1>11. \A t \in P : Score(Parts(r, sizes, 1)[t]) = after[t]
  <2>. SUFFICES ASSUME NEW t \in P PROVE Score(Parts(r, sizes, 1)[t]) = after[t]
    OBVIOUS
  <2>1. t \in Teams /\ t \in 1..NumTeams /\ 1 \in 1..NumTeams + 1
    BY BalanceAssumption DEF Teams
  <2>2. Members(r, sizes, 1, t) = {r[k] : k \in Block(sizes, 1, t)}
    BY <1>1, <2>1, PartsProperties
  <2>. HIDE DEF q, P, sizes, ids
  <2>3. Parts(r, sizes, 1)[t] = {p \in ids : TeamOf(q, p) = t}
    BY <1>1, <1>2, <2>1, <2>2 DEF Parts
  <2>. QED  BY <2>1, <2>3
<1>12. DOMAIN Parts(r, sizes, 1) = P
  BY <1>1 DEF Parts
<1>. HIDE DEF sizes, ids, q, P, split, after, n, c
<1>13. b \in Nat /\ \A t, u \in P : split[t] - split[u] <= b
  BY <1>3, <1>6, <1>7, SpreadProperties
<1>. HIDE DEF b
<1>14. AtMost(c, b)
  BY <1>9, <1>10, <1>13 DEF AtMost
<1>15. AtMost(Parts(r, sizes, 1), b)
  BY <1>8, <1>13, <1>14 DEF Optimal, sizes, ids
<1>16. \A t, u \in P : after[t] - after[u] <= b
  BY <1>11, <1>12, <1>15 DEF AtMost
<1>17. Spread(after, P) <= b
  BY <1>6, <1>7, <1>13, <1>16, SpreadProperties
<1>. QED  BY <1>4, <1>17 DEF q, b

\* The teams that are balanced at the start are searched well: no way to put the players on
\* the teams makes their scores differ less.
THEOREM EqualTeamsAreBalanced == BalanceSpec => [](FewOrSmallTeams(before) => EqualSplitIsOptimal)
<1>. DEFINE Inv == FewOrSmallTeams(before) => EqualSplitIsOptimal
<1>1. BalanceInit => Inv
  BY DEF BalanceInit, EqualSplitIsOptimal, SplitIsOptimal
<1>2. BalanceInv /\ Inv /\ [Balance]_balanceVars => Inv'
  <2>. SUFFICES ASSUME BalanceInv, Inv, [Balance]_balanceVars PROVE Inv'
    OBVIOUS
  <2>1. CASE Balance
    <3>. DEFINE q == PutInPlace(before, BestOrdering(before))
    <3>1. teamSlots' = q /\ before' = before /\ score' = score
      BY <2>1 DEF Balance, BalanceInv
    <3>2. ScoresOK /\ Layout(before)
      BY DEF BalanceInv
    <3>. SUFFICES ASSUME FewOrSmallTeams(before), EqualTeams(before), NEW f \in Splits(before)
                  PROVE  Unfairness(teamSlots)' <= SplitUnfairness(before, f)'
      BY <3>1 DEF EqualSplitIsOptimal, SplitIsOptimal, FewOrSmallTeams, EqualTeams
    <3>3. Unfairness(q) <= SplitUnfairness(before, f)
      BY <3>2, EqualTeamsAreSearched, BalancedTeams
    <3>. HIDE DEF q
    <3>4. SplitUnfairness(before, f)' = SplitUnfairness(before, f)
      BY <3>1 DEF SplitUnfairness, Score
    <3>5. Unfairness(teamSlots)' = Unfairness(q)
      BY <3>1 DEF Unfairness, SplitUnfairness, Score
    <3>. QED  BY <3>3, <3>4, <3>5
  <2>2. CASE UNCHANGED balanceVars
    BY <2>2 DEF balanceVars, EqualSplitIsOptimal, SplitIsOptimal, FewOrSmallTeams, EqualTeams,
                Unfairness, SplitUnfairness, Score
  <2>. QED  BY <2>1, <2>2
<1>. QED  BY <1>1, <1>2, BalanceInvInit, BalanceInvNext, PTL DEF BalanceSpec

-----------------------------------------------------------------------------
(* Where the search is used.                                                *)

\* Every team takes at least three players.
LEMMA LargeTeams ==
    ASSUME NEW sizes \in [Teams -> Nat], \A t \in Teams : sizes[t] = 0 \/ sizes[t] >= 3, NEW n \in Nat
    PROVE  \A start \in 1..NumTeams + 1 : Cardinality(Playing(sizes, start)) = n =>
             Offset(sizes, start, NumTeams + 1) >= 3 * n
<1>. DEFINE X == {k \in Nat : \A start \in 1..NumTeams + 1 : Cardinality(Playing(sizes, start)) = k =>
                    Offset(sizes, start, NumTeams + 1) >= 3 * k}
<1>1. 0 \in X
  <2>. SUFFICES ASSUME NEW start \in 1..NumTeams + 1
                PROVE  Offset(sizes, start, NumTeams + 1) >= 3 * 0
    OBVIOUS
  <2>1. NumTeams + 1 \in start..NumTeams + 1
    BY BalanceAssumption
  <2>2. Offset(sizes, start, NumTeams + 1) \in Nat
    BY <2>1, OffsetSteps
  <2>. QED  BY <2>2
<1>2. ASSUME NEW k \in Nat, k \in X PROVE k + 1 \in X
  <2>. SUFFICES ASSUME NEW start \in 1..NumTeams + 1, Cardinality(Playing(sizes, start)) = k + 1
                PROVE  Offset(sizes, start, NumTeams + 1) >= 3 * (k + 1)
    OBVIOUS
  <2>. DEFINE P == Playing(sizes, start)
  <2>1. IsFiniteSet(P) /\ P # {}
    BY PlayingFinite, FS_EmptySet
  <2>2. PICK u : FirstTeam(sizes, start, u)
    BY <2>1, SomeFirstTeam
  <2>. DEFINE Q == Playing(sizes, u + 1)
  <2>3. /\ u \in P /\ Q = P \ {u} /\ u + 1 \in 1..NumTeams + 1
        /\ NumTeams + 1 \in (u + 1)..NumTeams + 1
        /\ Offset(sizes, start, NumTeams + 1) = sizes[u] + Offset(sizes, u + 1, NumTeams + 1)
        /\ Offset(sizes, u + 1, NumTeams + 1) \in Nat
    <3>1. /\ u \in P /\ Q = P \ {u} /\ u + 1 \in 1..NumTeams + 1
          /\ \A t \in (u + 1)..NumTeams + 1 :
               /\ Offset(sizes, start, t) = sizes[u] + Offset(sizes, u + 1, t)
               /\ Offset(sizes, u + 1, t) \in Nat
      BY <2>2, LaterTeams DEF FirstTeam
    <3>2. NumTeams + 1 \in (u + 1)..NumTeams + 1
      BY <3>1, BalanceAssumption
    <3>. QED  BY <3>1, <3>2
  <2>4. Cardinality(Q) = k
    <3>. HIDE DEF P, Q
    <3>1. Cardinality(P) = k + 1
      BY DEF P
    <3>. QED  BY <2>1, <2>3, <3>1, FS_RemoveElement
  <2>5. Offset(sizes, u + 1, NumTeams + 1) >= 3 * k
    BY <1>2, <2>3, <2>4
  <2>6. sizes[u] \in Nat /\ sizes[u] >= 3
    <3>1. u \in Teams /\ sizes[u] \in Nat /\ sizes[u] # 0
      BY <2>3, PlayingType
    <3>. QED  BY <3>1
  <2>. HIDE DEF P, Q
  <2>. DEFINE a == Offset(sizes, start, NumTeams + 1)
              b == Offset(sizes, u + 1, NumTeams + 1)
              m == sizes[u]
  <2>7. a = m + b /\ b \in Nat /\ b >= 3 * k /\ m \in Nat /\ m >= 3
    BY <2>3, <2>5, <2>6
  <2>. HIDE DEF a, b, m
  <2>8. a >= 3 * (k + 1)
    BY <2>7
  <2>. QED  BY <2>8 DEF a
<1>. HIDE DEF X
<1>3. n \in X
  BY <1>1, <1>2, SetInduction
<1>. QED  BY <1>3 DEF X

\* Four teams of three take twelve players.
LEMMA FewTeams ==
    ASSUME NumTeams <= 3 \/ MapSlots < 12, NEW sl, Layout(sl), EqualTeams(sl)
    PROVE  FewOrSmallTeams(sl)
<1>. DEFINE sizes == Sizes(sl)
            P == Playing(sizes, 1)
            ids == Players(sl)
            n == Cardinality(P)
<1>1. /\ Fits(sizes, 1, ids) /\ sizes \in [Teams -> Nat]
      /\ \A t \in Teams : sizes[t] = TeamSize(sl, t)
      /\ P = {t \in Teams : TeamSize(sl, t) > 0}
  BY LayoutFits
<1>2. 1 \in 1..NumTeams + 1 /\ NumTeams \in Nat /\ MapSlots \in Nat
  BY BalanceAssumption
<1>. HIDE DEF sizes, ids
<1>3. n \in Nat
  BY <1>1, <1>2, PlayingFinite
<1>4. n = Cardinality({t \in Teams : TeamSize(sl, t) > 0})
  BY <1>1
<1>5. n <= NumTeams
  <2>1. P \in SUBSET Teams
    BY <1>1
  <2>2. IsFiniteSet(Teams) /\ Cardinality(Teams) = NumTeams
    BY <1>2, FS_Interval DEF Teams
  <2>. HIDE DEF P
  <2>3. Cardinality(P) <= Cardinality(Teams)
    BY <2>1, <2>2, FS_Subset
  <2>. QED  BY <2>2, <2>3
<1>6. Cardinality(ids) \in Nat /\ Cardinality(ids) <= MapSlots
  <2>1. ids \in SUBSET Scored /\ IsFiniteSet(ids)
    BY <1>1, SomeScored DEF Fits
  <2>2. IsFiniteSet(Scored) /\ Cardinality(Scored) = MapSlots
    BY <1>2, FS_Interval DEF Scored
  <2>. QED  BY <2>1, <2>2, FS_Subset, FS_CardinalityType
<1>7. Cardinality(ids) = Offset(sizes, 1, NumTeams + 1)
  BY <1>1 DEF Fits
<1>8. CASE \E u \in Teams : TeamSize(sl, u) > 2
  <2>1. PICK u \in Teams : TeamSize(sl, u) > 2
    BY <1>8
  <2>2. \A t \in Teams : sizes[t] = 0 \/ sizes[t] >= 3
    <3>. SUFFICES ASSUME NEW t \in Teams PROVE sizes[t] = 0 \/ sizes[t] >= 3
      OBVIOUS
    <3>1. /\ sizes[t] \in Nat /\ sizes[t] = TeamSize(sl, t)
          /\ sizes[u] \in Nat /\ sizes[u] = TeamSize(sl, u)
      BY <1>1
    <3>2. TeamSize(sl, t) > 0 /\ TeamSize(sl, u) > 0 => TeamSize(sl, t) = TeamSize(sl, u)
      BY DEF EqualTeams
    <3>. QED  BY <2>1, <3>1, <3>2
  <2>3. Offset(sizes, 1, NumTeams + 1) >= 3 * n
    BY <1>1, <1>2, <1>3, <2>2, LargeTeams
  <2>. HIDE DEF P, n
  <2>4. 3 * n <= MapSlots
    BY <1>2, <1>3, <1>6, <1>7, <2>3
  <2>5. n <= 3
    BY <1>2, <1>3, <1>5, <2>4
  <2>. QED  BY <1>4, <2>5 DEF FewOrSmallTeams
<1>9. CASE \A u \in Teams : ~ (TeamSize(sl, u) > 2)
  <2>. SUFFICES ASSUME NEW t \in Teams PROVE TeamSize(sl, t) <= 2
    BY DEF FewOrSmallTeams
  <2>1. sizes[t] \in Nat /\ sizes[t] = TeamSize(sl, t) /\ ~ (TeamSize(sl, t) > 2)
    BY <1>1, <1>9
  <2>. QED  BY <2>1
<1>. QED  BY <1>8, <1>9

\* With at most three teams, or on a map of fewer than twelve slots, balancing does all it
\* promises: it loses nobody, puts every team's best player first, and reaches the smallest
\* difference when the teams are equal.  Four teams of three players are the smallest equal
\* teams beyond that, and their cost is above the limit up to which the code searches.
THEOREM TeamsAreBalanced ==
    ASSUME NumTeams <= 3 \/ MapSlots < 12
    PROVE  BalanceSpec => []BalanceIsAsSearched
<1>1. BalanceInv => (EqualTeams(before) => FewOrSmallTeams(before))
  BY FewTeams DEF BalanceInv
<1>2. (EqualTeams(before) => FewOrSmallTeams(before)) /\ (FewOrSmallTeams(before) => EqualSplitIsOptimal)
      => EqualSplitIsOptimal
  BY DEF EqualSplitIsOptimal
<1>3. NobodyIsLost /\ LeaderIsFirst /\ EqualSplitIsOptimal => BalanceIsAsSearched
  BY DEF BalanceIsAsSearched
<1>4. BalanceSpec => []BalanceInv
  BY BalanceInvInit, BalanceInvNext, PTL DEF BalanceSpec
<1>. QED  BY <1>1, <1>2, <1>3, <1>4, BalancingLosesNobody, TheLeaderIsAlwaysFirst,
             EqualTeamsAreBalanced, PTL

=============================================================================
