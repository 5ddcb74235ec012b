----------------------------- MODULE BNETProofs -----------------------------
(***************************************************************************)
(* What holds of the connection to battle.net for any number of names, of  *)
(* packets, of chat commands and of lost connections: the queue belongs to *)
(* this connection, and the server is not left with an old game.           *)
(***************************************************************************)
EXTENDS BNET, SequenceTheorems, WellFoundedInduction, TLAPS

-----------------------------------------------------------------------------
(* The inductive invariant.                                                 *)

\* Nobody is logged on to a connection that is not there yet.
NotLoggedOn == socket \in {"idle", "connecting"} => ~m_LoggedIn

\* The server has heard of a game, and answers, on a connection that is logged on only.
SilentBefore == ~(socket = "connected" /\ m_LoggedIn) => server = 0 /\ replies = << >>

\* Nobody is about to queue a packet for a connection that is not logged on: a thread that
\* found m_LoggedIn set on the last one has ended before this one was made.
NobodyLate == socket \in {"connecting", "connected"} /\ ~m_LoggedIn => late = NoPacket

\* What a game's thread is about to queue is chat, or advertises the lobby of now.
LateIsOfTheLobby ==
  late # NoPacket => m_CurrentGame # 0 /\ late \in {Chat, Advert(m_CurrentGame)}

\* The packets in the queue advertise names that there have been.
NamedUpTo(n) == {Advert(i) : i \in 1..n} \cup {Stop, EnterChat, Chat, Ask}

Named == NamedUpTo(names)

KnownNames == m_OutPackets \in Seq(Named)

Connections == NotLoggedOn /\ SilentBefore /\ NobodyLate /\ LateIsOfTheLobby /\ KnownNames

-----------------------------------------------------------------------------
(* Induction over the natural numbers, for sets.                            *)

Below == OpToRel(<, Nat)

LEMMA BelowWellFounded == IsWellFoundedOn(Below, Nat)
BY NatLessThanWellFounded DEF Below

LEMMA BelowMembers == \A m, n \in Nat : <<m, n>> \in Below <=> m < n
BY DEF Below, OpToRel

\* A set with 0 and with the successors of its numbers has all of them: a number that it
\* lacks would leave a least one.
LEMMA SetInduction ==
    ASSUME NEW S, 0 \in S, \A n \in Nat : n \in S => n + 1 \in S
    PROVE  Nat \subseteq S
<1>. SUFFICES ASSUME NEW k \in Nat, k \notin S PROVE FALSE
  OBVIOUS
<1>. DEFINE Lacking == {n \in Nat : n \notin S}
<1>1. Lacking \subseteq Nat /\ Lacking # {}
  OBVIOUS
<1>. HIDE DEF Lacking
<1>2. PICK m \in Lacking : \A n \in Lacking : <<n, m>> \notin Below
  BY <1>1, BelowWellFounded, WFMin
<1>3. m \in Nat /\ m # 0 /\ m \notin S
  BY DEF Lacking
<1>4. m - 1 \in Nat /\ m - 1 < m /\ (m - 1) + 1 = m
  BY <1>3
<1>5. m - 1 \notin Lacking
  BY <1>2, <1>3, <1>4, BelowMembers
<1>6. m - 1 \in S
  BY <1>4, <1>5 DEF Lacking
<1>. QED  BY <1>3, <1>4, <1>6

-----------------------------------------------------------------------------
(* UnqueuePackets: the packets that are kept.                               *)

\* What is kept of the first i packets, for each i up to n.
KeptUpTo(q, g, n) ==
  g = [i \in 0..n |-> IF i = 0 THEN << >>
                      ELSE IF q[i][1] = "advert" THEN g[i - 1] ELSE Append(g[i - 1], q[i])]

LEMMA KeptExists == ASSUME NEW q, NEW n \in Nat PROVE \E g : KeptUpTo(q, g, n)
<1>. DEFINE S == {k \in Nat : \E g : KeptUpTo(q, g, k)}
<1>1. 0 \in S
  <2>. DEFINE g == [i \in 0..0 |-> << >>]
  <2>1. KeptUpTo(q, g, 0)
    BY DEF KeptUpTo
  <2>. QED  BY <2>1
<1>2. ASSUME NEW k \in Nat, k \in S PROVE k + 1 \in S
  <2>1. PICK g : KeptUpTo(q, g, k)
    BY <1>2
  <2>. DEFINE last == IF q[k + 1][1] = "advert" THEN g[k] ELSE Append(g[k], q[k + 1])
              h == [i \in 0..k + 1 |-> IF i = k + 1 THEN last ELSE g[i]]
  <2>2. \A i \in 0..k : h[i] = g[i]
    OBVIOUS
  <2>3. ASSUME NEW i \in 0..k + 1
        PROVE  h[i] = IF i = 0 THEN << >>
                      ELSE IF q[i][1] = "advert" THEN h[i - 1] ELSE Append(h[i - 1], q[i])
    <3>1. CASE i = k + 1
      <4>1. k \in 0..k /\ i - 1 = k /\ i # 0
        BY <3>1
      <4>2. h[i] = last /\ h[i - 1] = g[k]
        BY <2>2, <3>1, <4>1
      <4>. HIDE DEF h
      <4>. QED  BY <3>1, <4>1, <4>2
    <3>2. CASE i # k + 1
      <4>1. i \in 0..k /\ (i # 0 => i - 1 \in 0..k)
        BY <3>2
      <4>2. g[i] = IF i = 0 THEN << >>
                   ELSE IF q[i][1] = "advert" THEN g[i - 1] ELSE Append(g[i - 1], q[i])
        BY <2>1, <4>1 DEF KeptUpTo
      <4>3. h[i] = g[i] /\ (i # 0 => h[i - 1] = g[i - 1])
        BY <2>2, <4>1
      <4>. HIDE DEF h
      <4>. QED  BY <4>2, <4>3
    <3>. QED  BY <3>1, <3>2
  <2>4. h = [i \in 0..k + 1 |-> h[i]]
    OBVIOUS
  <2>. HIDE DEF h
  <2>5. KeptUpTo(q, h, k + 1)
    BY <2>3, <2>4 DEF KeptUpTo
  <2>. QED  BY <2>5
<1>. HIDE DEF S
<1>3. n \in S
  BY <1>1, <1>2, SetInduction
<1>. QED  BY <1>3 DEF S

\* Of a queue of packets UnqueueGameRefreshes leaves packets of the same queue, and none
\* that advertises a game; of an empty queue, nothing.
LEMMA UnqueuedPackets ==
    ASSUME NEW T, NEW q \in Seq(T)
    PROVE  /\ UnqueueGameRefreshes(q) \in Seq({p \in T : p[1] # "advert"})
           /\ q = << >> => UnqueueGameRefreshes(q) = << >>
<1>. DEFINE R == {p \in T : p[1] # "advert"}
            g == CHOOSE f : KeptUpTo(q, f, Len(q))
            S == {k \in Nat : k <= Len(q) => g[k] \in Seq(R)}
<1>1. Len(q) \in Nat /\ \A i \in 1..Len(q) : q[i] \in T
  BY LenProperties, ElementOfSeq
<1>2. KeptUpTo(q, g, Len(q))
  BY <1>1, KeptExists
<1>3. UnqueueGameRefreshes(q) = g[Len(q)]
  BY DEF UnqueueGameRefreshes, KeptUpTo
<1>. HIDE DEF g
<1>4. g[0] = << >>
  BY <1>1, <1>2 DEF KeptUpTo
<1>5. 0 \in S
  BY <1>4, EmptySeq
<1>6. ASSUME NEW k \in Nat, k \in S PROVE k + 1 \in S
  <2>. SUFFICES ASSUME k + 1 <= Len(q) PROVE g[k + 1] \in Seq(R)
    OBVIOUS
  <2>1. k + 1 \in 0..Len(q) /\ k + 1 \in 1..Len(q) /\ k + 1 # 0 /\ (k + 1) - 1 = k
    BY <1>1
  <2>2. g[k] \in Seq(R)
    BY <1>1, <1>6
  <2>3. g[k + 1] = IF q[k + 1][1] = "advert" THEN g[k] ELSE Append(g[k], q[k + 1])
    BY <1>2, <2>1 DEF KeptUpTo
  <2>4. q[k + 1] \in T
    BY <1>1, <2>1
  <2>. QED  BY <2>2, <2>3, <2>4, AppendProperties
<1>7. Len(q) \in S
  <2>. HIDE DEF S
  <2>. QED  BY <1>1, <1>5, <1>6, SetInduction
<1>. QED  BY <1>3, <1>4, <1>7, EmptySeq

-----------------------------------------------------------------------------
(* Withdrawn games: what the server is told of old games is followed by a   *)
(* packet that takes the game from the server.                              *)

\* In this sequence of packets every advertisement of a game other than the lobby is
\* followed by a Stop.
Withdrawn(c, lobbyName) ==
  \A i \in DOMAIN c :
    c[i][1] = "advert" /\ c[i][2] \notin {0, lobbyName} =>
      \E j \in DOMAIN c : i < j /\ c[j] = Stop

\* What the server advertises comes before the packets it has not taken yet.
Coming(name, q) == <<Advert(name)>> \o q

Adverts == Packets \cup {Advert(0)}

LEMMA PacketKinds ==
    /\ Stop[1] # "advert" /\ EnterChat[1] # "advert" /\ Chat[1] # "advert" /\ Ask[1] # "advert"
    /\ Stop # EnterChat
    /\ \A n : Advert(n)[1] = "advert" /\ Advert(n)[2] = n /\ Advert(n) # Stop
    /\ \A n : Advert(n) # NoPacket
    /\ Chat # NoPacket
BY DEF Stop, EnterChat, Chat, Ask, Advert, NoPacket

\* The elements of a sequence that two make up.
LEMMA ConcatElements ==
    ASSUME NEW T, NEW c \in Seq(T), NEW d \in Seq(T)
    PROVE  /\ c \o d \in Seq(T)
           /\ DOMAIN c \subseteq Nat /\ DOMAIN (c \o d) \subseteq Nat
           /\ \A i \in DOMAIN c : i \in DOMAIN (c \o d) /\ (c \o d)[i] = c[i] /\ i <= Len(c)
           /\ \A i \in DOMAIN d : /\ Len(c) + i \in DOMAIN (c \o d) /\ i > 0
                                  /\ (c \o d)[Len(c) + i] = d[i]
           /\ \A i \in DOMAIN (c \o d) :
                i \in DOMAIN c \/ (i - Len(c) \in DOMAIN d /\ i = Len(c) + (i - Len(c)))
<1>1. /\ Len(c) \in Nat /\ Len(d) \in Nat
      /\ DOMAIN c = 1..Len(c) /\ DOMAIN d = 1..Len(d)
  BY LenProperties
<1>2. /\ c \o d \in Seq(T) /\ Len(c \o d) = Len(c) + Len(d)
      /\ \A i \in 1..Len(c) + Len(d) : (c \o d)[i] = IF i <= Len(c) THEN c[i] ELSE d[i - Len(c)]
  BY ConcatProperties
<1>3. DOMAIN (c \o d) = 1..Len(c) + Len(d)
  BY <1>2, LenProperties
<1>. QED  BY <1>1, <1>2, <1>3

\* Packets that advertise nothing but the lobby can be queued.
LEMMA MoreWithdrawn ==
    ASSUME NEW T, NEW c \in Seq(T), NEW d \in Seq(T), NEW n, Withdrawn(c, n),
           \A i \in DOMAIN d : d[i][1] = "advert" => d[i][2] = n
    PROVE  Withdrawn(c \o d, n)
<1>. SUFFICES ASSUME NEW i \in DOMAIN (c \o d), (c \o d)[i][1] = "advert",
                     (c \o d)[i][2] \notin {0, n}
              PROVE  \E j \in DOMAIN (c \o d) : i < j /\ (c \o d)[j] = Stop
  BY DEF Withdrawn
<1>1. CASE i \in DOMAIN c
  <2>1. (c \o d)[i] = c[i]
    BY <1>1, ConcatElements
  <2>2. PICK j \in DOMAIN c : i < j /\ c[j] = Stop
    BY <1>1, <2>1 DEF Withdrawn
  <2>3. j \in DOMAIN (c \o d) /\ (c \o d)[j] = Stop
    BY <2>2, ConcatElements
  <2>. QED  BY <2>2, <2>3
<1>2. CASE i \notin DOMAIN c
  <2>1. i - Len(c) \in DOMAIN d /\ (c \o d)[i] = d[i - Len(c)]
    BY <1>2, ConcatElements
  <2>. QED  BY <2>1
<1>. QED  BY <1>1, <1>2

\* Once it is uncreated, everything that was advertised before is withdrawn.
LEMMA UncreateWithdraws ==
    ASSUME NEW T, NEW c \in Seq(T), Uncreate \in Seq(T), NEW n
    PROVE  Withdrawn(c \o Uncreate, n)
<1>. DEFINE d == Uncreate
<1>1. /\ 1 \in DOMAIN d /\ d[1] = Stop
      /\ \A i \in DOMAIN d : d[i][1] # "advert"
  BY PacketKinds DEF Uncreate
<1>. HIDE DEF d
<1>. SUFFICES ASSUME NEW i \in DOMAIN (c \o d), (c \o d)[i][1] = "advert"
              PROVE  \E j \in DOMAIN (c \o d) : i < j /\ (c \o d)[j] = Stop
  BY DEF Withdrawn, d
<1>2. d \in Seq(T)
  BY DEF d
<1>3. i \in DOMAIN c
  <2>1. CASE i \notin DOMAIN c
    <3>1. i - Len(c) \in DOMAIN d /\ (c \o d)[i] = d[i - Len(c)]
      BY <1>2, <2>1, ConcatElements
    <3>. QED  BY <1>1, <3>1
  <2>. QED  BY <2>1
<1>4. Len(c) + 1 \in DOMAIN (c \o d) /\ (c \o d)[Len(c) + 1] = Stop
  BY <1>1, <1>2, ConcatElements
<1>5. i \in Nat /\ i <= Len(c) /\ Len(c) \in Nat
  BY <1>2, <1>3, ConcatElements, LenProperties
<1>. QED  BY <1>4, <1>5

\* What is withdrawn while there is no lobby is withdrawn for every lobby.
LEMMA WithdrawnForAll ==
    ASSUME NEW c, NEW n, Withdrawn(c, 0)
    PROVE  Withdrawn(c, n)
BY DEF Withdrawn

\* The elements of what the server has and will take.
LEMMA ComingElements ==
    ASSUME NEW q \in Seq(Packets), NEW n \in 0..MaxNames
    PROVE  /\ Coming(n, q) \in Seq(Adverts)
           /\ DOMAIN q = 1..Len(q) /\ Len(q) \in Nat
           /\ DOMAIN Coming(n, q) = 1..Len(q) + 1
           /\ Coming(n, q)[1] = Advert(n)
           /\ \A i \in 1..Len(q) : Coming(n, q)[i + 1] = q[i]
<1>1. q \in Seq(Adverts) /\ Len(q) \in Nat /\ DOMAIN q = 1..Len(q)
  BY LenProperties, SeqDef DEF Adverts
<1>2. <<Advert(n)>> \in Seq(Adverts) /\ Len(<<Advert(n)>>) = 1 /\ <<Advert(n)>>[1] = Advert(n)
  <2>1. Advert(n) \in Adverts
    BY BNETAssumption DEF Adverts, Packets
  <2>. QED  BY <2>1
<1>3. /\ Coming(n, q) \in Seq(Adverts) /\ Len(Coming(n, q)) = 1 + Len(q)
      /\ \A i \in 1..1 + Len(q) :
           Coming(n, q)[i] = IF i <= 1 THEN <<Advert(n)>>[i] ELSE q[i - 1]
  BY <1>1, <1>2, ConcatProperties DEF Coming
<1>4. DOMAIN Coming(n, q) = 1..Len(q) + 1
  BY <1>1, <1>3, LenProperties
<1>5. ASSUME NEW i \in 1..Len(q) PROVE Coming(n, q)[i + 1] = q[i]
  <2>1. i + 1 \in 1..1 + Len(q) /\ ~(i + 1 <= 1) /\ (i + 1) - 1 = i
    BY <1>1
  <2>. QED  BY <1>3, <2>1
<1>. QED  BY <1>1, <1>2, <1>3, <1>4, <1>5

\* The property of the runs, in terms of Withdrawn.
LEMMA WithdrawnForm ==
    ASSUME m_OutPackets \in Seq(Packets), server \in 0..MaxNames
    PROVE  OldGamesAreWithdrawn <=>
             (socket = "connected" /\ m_LoggedIn /\ ~starting =>
                Withdrawn(Coming(server, m_OutPackets), m_CurrentGame))
<1>. DEFINE c == Coming(server, m_OutPackets)
<1>1. DOMAIN c = 1..Len(c) /\ Len(c) \in Nat
  BY ComingElements, LenProperties
<1>2. c = <<Advert(server)>> \o m_OutPackets
  BY DEF Coming
<1>. HIDE DEF c
<1>3. ASSUME NEW i \in DOMAIN c
      PROVE  (\E j \in i + 1..Len(c) : c[j] = Stop) <=> (\E j \in DOMAIN c : i < j /\ c[j] = Stop)
  BY <1>1
<1>. QED  BY <1>2, <1>3 DEF OldGamesAreWithdrawn, Withdrawn, c

\* The server takes a packet that advertises nothing new and withdraws nothing.
LEMMA NextPacketTaken ==
    ASSUME NEW q \in Seq(Packets), q # << >>, NEW n \in 0..MaxNames, NEW l,
           Withdrawn(Coming(n, q), l), Head(q) # Stop
    PROVE  Withdrawn(Coming(n, Tail(q)), l)
<1>. DEFINE r == Tail(q)
            c == Coming(n, q)
            d == Coming(n, r)
<1>1. /\ r \in Seq(Packets) /\ Len(q) \in Nat /\ Len(q) >= 1 /\ Len(r) = Len(q) - 1
      /\ Head(q) = q[1]
      /\ \A i \in 1..Len(q) - 1 : r[i] = q[i + 1]
  BY HeadTailProperties, LenProperties, EmptySeq
<1>2. /\ DOMAIN c = 1..Len(q) + 1 /\ c[1] = Advert(n)
      /\ \A i \in 1..Len(q) : c[i + 1] = q[i]
  BY ComingElements
<1>3. /\ DOMAIN d = 1..Len(q) /\ d[1] = Advert(n)
      /\ \A i \in 1..Len(q) - 1 : d[i + 1] = r[i]
  <2>1. (Len(q) - 1) + 1 = Len(q)
    BY <1>1
  <2>. HIDE DEF r
  <2>. QED  BY <1>1, <2>1, ComingElements
<1>. HIDE DEF r, c, d
<1>4. ASSUME NEW i \in 2..Len(q) PROVE d[i] = c[i + 1]
  <2>1. /\ i - 1 \in 1..Len(q) - 1 /\ (i - 1) + 1 = i /\ i \in 1..Len(q)
    BY <1>1
  <2>2. d[i] = r[i - 1] /\ r[i - 1] = q[i]
    BY <1>1, <1>3, <2>1
  <2>. QED  BY <1>2, <2>1, <2>2
<1>5. c[2] # Stop
  <2>1. 1 \in 1..Len(q)
    BY <1>1
  <2>2. c[1 + 1] = q[1]
    BY <1>2, <2>1
  <2>. QED  BY <1>1, <2>2
<1>6. ASSUME NEW i \in DOMAIN d, d[i][1] = "advert", d[i][2] \notin {0, l}
      PROVE  \E j \in DOMAIN d : i < j /\ d[j] = Stop
  <2>1. PICK k \in DOMAIN c : c[k] = d[i] /\ k >= i /\ (i >= 2 => k = i + 1)
    <3>1. CASE i = 1
      <4>1. 1 \in DOMAIN c /\ c[1] = d[1]
        BY <1>1, <1>2, <1>3
      <4>. QED  BY <3>1, <4>1
    <3>2. CASE i # 1
      <4>1. i \in 2..Len(q)
        BY <1>1, <1>3, <3>2
      <4>2. i + 1 \in DOMAIN c /\ c[i + 1] = d[i]
        BY <1>1, <1>2, <1>4, <4>1
      <4>. QED  BY <4>1, <4>2
    <3>. QED  BY <3>1, <3>2
  <2>2. PICK j \in DOMAIN c : k < j /\ c[j] = Stop
    <3>1. c[k][1] = "advert" /\ c[k][2] \notin {0, l}
      BY <1>6, <2>1
    <3>. QED  BY <3>1 DEF Withdrawn, c
  <2>3. j # 2 /\ j # 1 /\ j \in Nat /\ j <= Len(q) + 1 /\ k \in Nat /\ i \in Nat /\ i >= 1 /\ k >= 1
    BY <1>1, <1>2, <1>3, <1>5, <2>2
  <2>4. j - 1 \in 2..Len(q) /\ (j - 1) + 1 = j /\ i < j - 1
    BY <1>1, <2>1, <2>2, <2>3
  <2>5. d[j - 1] = Stop /\ j - 1 \in DOMAIN d
    BY <1>1, <1>3, <1>4, <2>2, <2>4
  <2>. QED  BY <2>4, <2>5
<1>. QED  BY <1>6 DEF Withdrawn, d, r

\* The server takes a packet that advertises a game, or withdraws it.
LEMMA NextAdvert ==
    ASSUME NEW q \in Seq(Packets), q # << >>, NEW n \in 0..MaxNames, NEW l,
           Withdrawn(Coming(n, q), l),
           NEW m \in 0..MaxNames, m = 0 \/ Head(q) = Advert(m)
    PROVE  Withdrawn(Coming(m, Tail(q)), l)
<1>. DEFINE r == Tail(q)
            c == Coming(n, q)
            d == Coming(m, r)
<1>1. /\ r \in Seq(Packets) /\ Len(q) \in Nat /\ Len(q) >= 1 /\ Len(r) = Len(q) - 1
      /\ Head(q) = q[1]
      /\ \A i \in 1..Len(q) - 1 : r[i] = q[i + 1]
  BY HeadTailProperties, LenProperties, EmptySeq
<1>2. /\ DOMAIN c = 1..Len(q) + 1
      /\ \A i \in 1..Len(q) : c[i + 1] = q[i]
  BY ComingElements
<1>3. /\ DOMAIN d = 1..Len(q) /\ d[1] = Advert(m)
      /\ \A i \in 1..Len(q) - 1 : d[i + 1] = r[i]
  <2>1. (Len(q) - 1) + 1 = Len(q)
    BY <1>1
  <2>. HIDE DEF r
  <2>. QED  BY <1>1, <2>1, ComingElements
<1>. HIDE DEF r, c, d
<1>4. ASSUME NEW i \in 2..Len(q) PROVE d[i] = c[i + 1]
  <2>1. /\ i - 1 \in 1..Len(q) - 1 /\ (i - 1) + 1 = i /\ i \in 1..Len(q)
    BY <1>1
  <2>2. d[i] = r[i - 1] /\ r[i - 1] = q[i]
    BY <1>1, <1>3, <2>1
  <2>. QED  BY <1>2, <2>1, <2>2
<1>5. m # 0 => c[2] = d[1]
  <2>1. 1 \in 1..Len(q)
    BY <1>1
  <2>2. c[1 + 1] = q[1]
    BY <1>2, <2>1
  <2>3. m # 0 => q[1] = Advert(m)
    BY <1>1
  <2>. QED  BY <1>3, <2>2, <2>3
<1>6. ASSUME NEW i \in DOMAIN d, d[i][1] = "advert", d[i][2] \notin {0, l}
      PROVE  \E j \in DOMAIN d : i < j /\ d[j] = Stop
  <2>1. i + 1 \in DOMAIN c /\ c[i + 1] = d[i] /\ i \in Nat /\ i >= 1
    <3>1. i \in Nat /\ i >= 1 /\ i <= Len(q) /\ i + 1 \in DOMAIN c
      BY <1>1, <1>2, <1>3
    <3>2. CASE i = 1
      <4>1. m # 0
        BY <1>3, <1>6, <3>2, PacketKinds
      <4>. QED  BY <1>5, <3>1, <3>2, <4>1
    <3>3. CASE i # 1
      BY <1>1, <1>4, <3>1, <3>3
    <3>. QED  BY <3>2, <3>3
  <2>2. PICK j \in DOMAIN c : i + 1 < j /\ c[j] = Stop
    BY <1>6, <2>1 DEF Withdrawn, c
  <2>3. j - 1 \in 2..Len(q) /\ (j - 1) + 1 = j /\ i < j - 1
    BY <1>1, <1>2, <2>1, <2>2
  <2>4. d[j - 1] = Stop /\ j - 1 \in DOMAIN d
    BY <1>1, <1>3, <1>4, <2>2, <2>3
  <2>. QED  BY <2>3, <2>4
<1>. QED  BY <1>6 DEF Withdrawn, d, r

\* Packets that are queued behind what the server has not taken yet.
LEMMA MoreComing ==
    ASSUME NEW q \in Seq(Packets), NEW d \in Seq(Packets), NEW n \in 0..MaxNames, NEW l,
           Withdrawn(Coming(n, q), l),
           \A i \in DOMAIN d : d[i][1] = "advert" => d[i][2] = l
    PROVE  Withdrawn(Coming(n, q \o d), l)
<1>1. Coming(n, q) \in Seq(Adverts) /\ d \in Seq(Adverts) /\ q \in Seq(Adverts)
  BY ComingElements, SeqDef DEF Adverts
<1>2. <<Advert(n)>> \in Seq(Adverts)
  <2>1. Advert(n) \in Adverts
    BY BNETAssumption DEF Adverts, Packets
  <2>. QED  BY <2>1
<1>3. Coming(n, q \o d) = Coming(n, q) \o d
  BY <1>1, <1>2, ConcatAssociative DEF Coming
<1>. QED  BY <1>1, <1>3, MoreWithdrawn

LEMMA UncreateComing ==
    ASSUME NEW q \in Seq(Packets), NEW n \in 0..MaxNames, NEW l
    PROVE  Withdrawn(Coming(n, q \o Uncreate), l)
<1>1. Coming(n, q) \in Seq(Adverts) /\ q \in Seq(Adverts)
  BY ComingElements, SeqDef DEF Adverts
<1>2. <<Advert(n)>> \in Seq(Adverts) /\ Uncreate \in Seq(Adverts)
  <2>1. Advert(n) \in Adverts /\ Stop \in Adverts /\ EnterChat \in Adverts
    BY BNETAssumption DEF Adverts, Packets
  <2>. QED  BY <2>1 DEF Uncreate
<1>3. Coming(n, q \o Uncreate) = Coming(n, q) \o Uncreate
  BY <1>1, <1>2, ConcatAssociative DEF Coming
<1>. QED  BY <1>1, <1>2, <1>3, UncreateWithdraws

\* One more packet.
LEMMA OnePacket ==
    ASSUME NEW T, NEW q \in Seq(T), NEW p \in T
    PROVE  Append(q, p) = q \o <<p>> /\ <<p>> \in Seq(T) /\ q \o <<p>> \in Seq(T)
<1>1. <<p>> \in Seq(T) /\ Len(<<p>>) = 1 /\ <<p>>[1] = p
  OBVIOUS
<1>2. q \o <<p>> \in Seq(T)
  BY <1>1, ConcatProperties
<1>. QED  BY <1>1, <1>2

-----------------------------------------------------------------------------
(* The types of what is queued.                                             *)

LEMMA Facts ==
    ASSUME TypeOK
    PROVE  /\ MaxNames \in Nat /\ names \in Nat /\ names <= MaxNames
           /\ server \in 0..names /\ m_CurrentGame \in 0..names
           /\ server \in 0..MaxNames /\ m_CurrentGame \in 0..MaxNames
           /\ socket \in {"idle", "connecting", "connected", "lost"}
           /\ m_WaitingToConnect \in BOOLEAN /\ m_LoggedIn \in BOOLEAN /\ public \in BOOLEAN
           /\ m_RefreshError \in BOOLEAN /\ starting \in BOOLEAN
           /\ m_OutPackets \in Seq(Packets) /\ replies \in Seq(Replies)
           /\ drops \in 0..MaxDrops /\ chats \in 0..MaxChat
BY BNETAssumption DEF TypeOK

\* The names there have been so far are names for ever.
LEMMA NamedPackets ==
    ASSUME NEW k \in Nat, NEW n \in Nat, k <= n, n <= MaxNames, MaxNames \in Nat
    PROVE  NamedUpTo(k) \subseteq NamedUpTo(n) /\ NamedUpTo(n) \subseteq Packets
<1>1. 1..k \subseteq 1..n /\ 1..n \subseteq 1..MaxNames
  OBVIOUS
<1>. QED  BY <1>1 DEF NamedUpTo, Packets

LEMMA NamedTypes ==
    ASSUME TypeOK, KnownNames
    PROVE  /\ Named \subseteq Packets
           /\ {Stop, EnterChat, Chat, Ask} \subseteq Named
           /\ m_CurrentGame # 0 => Advert(m_CurrentGame) \in Named
           /\ Uncreate \in Seq(Named)
<1>1. Named \subseteq Packets
  <2>1. names \in Nat /\ names <= names /\ names <= MaxNames /\ MaxNames \in Nat
    BY Facts
  <2>2. NamedUpTo(names) \subseteq Packets
    BY <2>1, NamedPackets
  <2>. QED  BY <2>2 DEF Named
<1>2. {Stop, EnterChat, Chat, Ask} \subseteq Named
  BY DEF Named, NamedUpTo
<1>3. m_CurrentGame # 0 => Advert(m_CurrentGame) \in Named
  <2>1. m_CurrentGame # 0 => m_CurrentGame \in 1..names
    BY Facts
  <2>. QED  BY <2>1 DEF Named, NamedUpTo
<1>4. Uncreate \in Seq(Named)
  BY <1>2 DEF Uncreate
<1>. QED  BY <1>1, <1>2, <1>3, <1>4

\* Sequences of packets may be taken for sequences of more packets.
LEMMA LargerSeq == ASSUME NEW S, NEW T, S \subseteq T PROVE Seq(S) \subseteq Seq(T)
BY SeqDef

LEMMA QueuedTypes ==
    ASSUME NEW T, NEW q \in Seq(T), NEW d \in Seq(T), Chat \in T
    PROVE  Queue(q, d) \in Seq(T) /\ QueueChatCommand(q) \in Seq(T)
<1>1. <<Chat>> \in Seq(T)
  OBVIOUS
<1>2. q \o d \in Seq(T) /\ q \o <<Chat>> \in Seq(T)
  BY <1>1, ConcatProperties
<1>. QED  BY <1>2 DEF Queue, QueueChatCommand

\* With nobody logged on nothing is queued.
LEMMA NothingQueued ==
    ASSUME ~m_LoggedIn, NEW q, NEW d
    PROVE  Queue(q, d) = q /\ QueueChatCommand(q) = q
BY DEF Queue, QueueChatCommand

-----------------------------------------------------------------------------

\* OldGamesAreWithdrawn, in terms of Withdrawn.
OldGames ==
  socket = "connected" /\ m_LoggedIn /\ ~starting =>
    Withdrawn(Coming(server, m_OutPackets), m_CurrentGame)

Inv == TypeOK /\ Connections /\ NothingStaleIsSent /\ OldGames

LEMMA InitInv == Init => Inv
<1>. SUFFICES ASSUME Init PROVE Inv
  OBVIOUS
<1>1. TypeOK
  <2>1. /\ 0 \in 0..MaxDrops /\ 0 \in 0..MaxChat /\ 0 \in 0..MaxNames /\ 0 \in 0..0
    BY BNETAssumption
  <2>2. << >> \in Seq(Packets) /\ << >> \in Seq(Replies)
    BY EmptySeq
  <2>. QED  BY <2>1, <2>2 DEF Init, TypeOK
<1>2. Connections
  BY EmptySeq DEF Init, Connections, NotLoggedOn, SilentBefore, NobodyLate, LateIsOfTheLobby, KnownNames
<1>. QED  BY <1>1, <1>2 DEF Init, Inv, NothingStaleIsSent, OldGames

-----------------------------------------------------------------------------
(* The steps of the connection.                                             *)

\* Connections are made, are not made, and are lost: there is no logon on them then.
LEMMA ConnectionInv ==
    ASSUME Inv, Connect \/ ConnectTimedOut \/ ConnectionLost \/ Disconnected
    PROVE  Inv'
<1>. USE DEF Inv, Connections
<1>0. /\ UNCHANGED <<names, m_CurrentGame, public, m_RefreshError, starting, late, chats, m_OutPackets>>
      /\ UNCHANGED <<server, replies>> \/ (server' = 0 /\ replies' = << >>)
  BY DEF Connect, ConnectTimedOut, ConnectionLost, Disconnected, lobby, outside
<1>1. drops' \in 0..MaxDrops
  <2>1. drops \in 0..MaxDrops /\ MaxDrops \in Nat
    BY Facts, BNETAssumption
  <2>2. drops' = drops \/ (drops < MaxDrops /\ drops' = drops + 1)
    BY DEF Connect, ConnectTimedOut, ConnectionLost, Disconnected
  <2>. QED  BY <2>1, <2>2
<1>2. TypeOK'
  <2>1. /\ socket' \in {"idle", "connecting", "lost"} /\ m_WaitingToConnect' \in BOOLEAN
        /\ m_LoggedIn' \in BOOLEAN /\ (socket' = "idle" => m_WaitingToConnect')
    BY Facts DEF Connect, ConnectTimedOut, ConnectionLost, Disconnected, Waits
  <2>2. server' \in 0..names' /\ replies' \in Seq(Replies)
    <3>1. names \in Nat /\ server \in 0..names /\ replies \in Seq(Replies)
      BY Facts
    <3>2. 0 \in 0..names /\ << >> \in Seq(Replies)
      BY <3>1, EmptySeq
    <3>. QED  BY <1>0, <3>1, <3>2
  <2>. QED  BY <1>0, <1>1, <2>1, <2>2 DEF TypeOK
<1>3. socket' # "connected" /\ server' = 0 /\ replies' = << >>
  BY <1>0 DEF Connect, ConnectTimedOut, ConnectionLost, Disconnected, SilentBefore
<1>4. NotLoggedOn' /\ NobodyLate'
  BY <1>0 DEF Connect, ConnectTimedOut, ConnectionLost, Disconnected, NotLoggedOn, NobodyLate
<1>5. SilentBefore' /\ LateIsOfTheLobby' /\ KnownNames'
  BY <1>0, <1>3 DEF SilentBefore, LateIsOfTheLobby, KnownNames, Named
<1>6. NothingStaleIsSent' /\ OldGames'
  BY <1>3 DEF NothingStaleIsSent, OldGames
<1>. QED  BY <1>2, <1>4, <1>5, <1>6

\* The queue is emptied when the connection is made.
LEMMA ConnectedInv == ASSUME Inv, Connected PROVE Inv'
<1>. USE DEF Inv, Connections
<1>0. /\ socket = "connecting" /\ socket' = "connected" /\ m_OutPackets' = << >>
      /\ UNCHANGED <<names, m_CurrentGame, public, m_RefreshError, starting, late, chats, drops,
                     server, replies, m_WaitingToConnect, m_LoggedIn>>
  BY DEF Connected, QueueOnConnect, lobby, outside
<1>1. ~m_LoggedIn
  BY <1>0 DEF NotLoggedOn
<1>2. TypeOK'
  BY <1>0, EmptySeq DEF TypeOK
<1>3. NotLoggedOn' /\ SilentBefore' /\ NobodyLate' /\ LateIsOfTheLobby' /\ KnownNames'
  BY <1>0, <1>1, EmptySeq DEF NotLoggedOn, SilentBefore, NobodyLate, LateIsOfTheLobby, KnownNames
<1>4. NothingStaleIsSent' /\ OldGames'
  BY <1>0, <1>1 DEF NothingStaleIsSent, OldGames
<1>. QED  BY <1>2, <1>3, <1>4

\* The logon finds an empty queue, and a server that advertises nothing.
LEMMA LoggedOnInv == ASSUME Inv, LoggedOn PROVE Inv'
<1>. USE DEF Inv, Connections
<1>0. /\ socket = "connected" /\ ~m_LoggedIn /\ m_LoggedIn' = TRUE
      /\ m_OutPackets' = m_OutPackets \o <<Ask, Ask>> /\ replies' = Append(replies, EnterChat)
      /\ UNCHANGED <<names, m_CurrentGame, public, m_RefreshError, starting, late, chats, drops,
                     server, socket, m_WaitingToConnect>>
  BY DEF LoggedOn, lobby
<1>1. m_OutPackets = << >> /\ server = 0 /\ late = NoPacket
  BY <1>0 DEF NothingStaleIsSent, SilentBefore, NobodyLate
<1>2. <<Ask, Ask>> \in Seq(Named) /\ Named \subseteq Packets
  <2>1. Ask \in Named /\ Named \subseteq Packets
    BY NamedTypes
  <2>. QED  BY <2>1
<1>3. m_OutPackets' \in Seq(Named) /\ m_OutPackets' \in Seq(Packets)
  BY <1>0, <1>2, ConcatProperties, LargerSeq DEF KnownNames
<1>4. TypeOK'
  <2>1. replies' \in Seq(Replies)
    BY <1>0, Facts, AppendProperties DEF Replies
  <2>. QED  BY <1>0, <1>3, <2>1 DEF TypeOK
<1>5. NotLoggedOn' /\ SilentBefore' /\ NobodyLate' /\ LateIsOfTheLobby' /\ KnownNames'
  BY <1>0, <1>1, <1>3 DEF NotLoggedOn, SilentBefore, NobodyLate, LateIsOfTheLobby, KnownNames, Named
<1>6. OldGames'
  <2>1. Withdrawn(Coming(0, << >>), m_CurrentGame)
    <3>1. 0 \in 0..MaxNames /\ << >> \in Seq(Packets)
      BY Facts, EmptySeq
    <3>2. \A i \in DOMAIN Coming(0, << >>) : Coming(0, << >>)[i] = Advert(0)
      <4>1. Coming(0, << >>)[1] = Advert(0) /\ DOMAIN Coming(0, << >>) = 1..Len(<< >>) + 1
        BY <3>1, ComingElements
      <4>2. 1..Len(<< >>) + 1 = {1}
        BY EmptySeq
      <4>. QED  BY <4>1, <4>2
    <3>. QED  BY <3>2, PacketKinds DEF Withdrawn
  <2>2. Withdrawn(Coming(0, << >> \o <<Ask, Ask>>), m_CurrentGame)
    <3>1. /\ 0 \in 0..MaxNames /\ << >> \in Seq(Packets) /\ <<Ask, Ask>> \in Seq(Packets)
      BY <1>2, Facts, EmptySeq, LargerSeq
    <3>2. \A i \in DOMAIN <<Ask, Ask>> : <<Ask, Ask>>[i][1] # "advert"
      BY PacketKinds
    <3>. QED  BY <2>1, <3>1, <3>2, MoreComing
  <2>3. server' = 0 /\ m_CurrentGame' = m_CurrentGame /\ m_OutPackets' = << >> \o <<Ask, Ask>>
    BY <1>0, <1>1
  <2>. QED  BY <2>2, <2>3 DEF OldGames
<1>7. NothingStaleIsSent'
  BY <1>0 DEF NothingStaleIsSent
<1>. QED  BY <1>4, <1>5, <1>6, <1>7

\* The server takes a packet of a connection that is logged on.
LEMMA SendPacketInv == ASSUME Inv, SendPacket PROVE Inv'
<1>. USE DEF Inv, Connections
<1>. DEFINE p == Head(m_OutPackets)
<1>0. /\ socket = "connected" /\ m_OutPackets # << >> /\ m_OutPackets' = Tail(m_OutPackets)
      /\ ServerTakes(p)
      /\ UNCHANGED <<names, m_CurrentGame, public, m_RefreshError, starting, late, chats, drops,
                     socket, m_WaitingToConnect, m_LoggedIn>>
  BY DEF SendPacket, lobby, connection
<1>1. m_LoggedIn
  BY <1>0, Facts DEF NothingStaleIsSent
<1>2. /\ m_OutPackets \in Seq(Named) /\ m_OutPackets \in Seq(Packets)
      /\ p \in Named /\ m_OutPackets' \in Seq(Named) /\ m_OutPackets' \in Seq(Packets)
  BY <1>0, Facts, HeadTailProperties DEF KnownNames
<1>. HIDE DEF p
<1>3. p[1] = "advert" => p[2] \in 1..names /\ p = Advert(p[2])
  <2>1. p \in {Stop, EnterChat, Chat, Ask} \/ \E n \in 1..names : p = Advert(n)
    BY <1>2 DEF Named, NamedUpTo
  <2>. QED  BY <2>1, PacketKinds
<1>4. server' \in 0..names /\ replies' \in Seq(Replies)
  <2>1. /\ server \in 0..names /\ replies \in Seq(Replies) /\ names \in Nat
        /\ MaxNames \in Nat /\ names <= MaxNames
    BY Facts
  <2>2. CASE p[1] = "advert"
    <3>1. p[2] \in 1..MaxNames /\ p[2] \in 0..names
      BY <1>3, <2>1, <2>2
    <3>2. <<"ok", p[2]>> \in Replies /\ <<"refused", p[2]>> \in Replies
      BY <3>1 DEF Replies
    <3>3. p \notin {Stop, EnterChat, Chat, Ask}
      BY <2>2, PacketKinds
    <3>4. /\ Append(replies, <<"ok", p[2]>>) \in Seq(Replies)
          /\ Append(replies, <<"refused", p[2]>>) \in Seq(Replies)
      BY <2>1, <3>2, AppendProperties
    <3>5. \/ server' = p[2] /\ replies' = Append(replies, <<"ok", p[2]>>)
          \/ server' = server /\ replies' = Append(replies, <<"refused", p[2]>>)
      BY <1>0, <3>3 DEF ServerTakes
    <3>. QED  BY <2>1, <3>1, <3>4, <3>5
  <2>3. CASE p[1] # "advert"
    <3>1. EnterChat \in Replies
      BY DEF Replies
    <3>2. Append(replies, EnterChat) \in Seq(Replies)
      BY <2>1, <3>1, AppendProperties
    <3>3. /\ server' = 0 \/ server' = server
          /\ replies' = replies \/ replies' = Append(replies, EnterChat)
      BY <1>0, <2>3 DEF ServerTakes, outside
    <3>4. 0 \in 0..names
      BY <2>1
    <3>. QED  BY <2>1, <3>2, <3>3, <3>4
  <2>. QED  BY <2>2, <2>3
<1>5. TypeOK'
  BY <1>0, <1>2, <1>4 DEF TypeOK
<1>6. NotLoggedOn' /\ SilentBefore' /\ NobodyLate' /\ LateIsOfTheLobby' /\ KnownNames'
  BY <1>0, <1>1, <1>2 DEF NotLoggedOn, SilentBefore, NobodyLate, LateIsOfTheLobby, KnownNames, Named
<1>7. OldGames'
  <2>. SUFFICES ASSUME ~starting
                PROVE  Withdrawn(Coming(server', Tail(m_OutPackets)), m_CurrentGame)
    BY <1>0 DEF OldGames
  <2>1. Withdrawn(Coming(server, m_OutPackets), m_CurrentGame)
    BY <1>0, <1>1 DEF OldGames
  <2>2. server \in 0..MaxNames /\ names <= MaxNames /\ names \in Nat /\ MaxNames \in Nat
    BY Facts
  <2>3. CASE p[1] = "advert" /\ server' = p[2]
    <3>1. server' \in 0..MaxNames /\ p = Advert(server')
      BY <1>3, <2>2, <2>3
    <3>. QED  BY <1>0, <1>2, <2>1, <2>2, <3>1, NextAdvert DEF p
  <2>4. CASE p = Stop
    <3>1. server' = 0 /\ 0 \in 0..MaxNames
      BY <1>0, <2>2, <2>4, PacketKinds DEF ServerTakes, Stop, EnterChat, Chat, Ask
    <3>. QED  BY <1>0, <1>2, <2>1, <2>2, <3>1, NextAdvert
  <2>5. CASE p # Stop /\ ~(p[1] = "advert" /\ server' = p[2])
    <3>1. server' = server
      BY <1>0, <2>5 DEF ServerTakes, outside
    <3>. QED  BY <1>0, <1>2, <2>1, <2>2, <2>5, <3>1, NextPacketTaken DEF p
  <2>. QED  BY <2>3, <2>4, <2>5
<1>8. NothingStaleIsSent'
  BY <1>0, <1>1 DEF NothingStaleIsSent
<1>. QED  BY <1>5, <1>6, <1>7, <1>8

-----------------------------------------------------------------------------
(* The steps that queue packets.                                            *)

\* What such a step has to see to.
LEMMA QueueStep ==
    ASSUME Inv, UNCHANGED <<socket, m_WaitingToConnect, m_LoggedIn, drops, server>>,
           \/ replies' = replies
           \/ socket = "connected" /\ m_LoggedIn /\ replies' \in Seq(Replies),
           names' \in Nat, names <= names', names' <= MaxNames, m_CurrentGame' \in 0..names',
           public' \in BOOLEAN, m_RefreshError' \in BOOLEAN, starting' \in BOOLEAN,
           chats' \in 0..MaxChat,
           m_OutPackets' \in Seq(NamedUpTo(names')),
           LateIsOfTheLobby', late' \in {NoPacket, late} \/ m_LoggedIn,
           NothingStaleIsSent',
           OldGames'
    PROVE  Inv'
<1>. USE DEF Inv, Connections
<1>0. /\ MaxNames \in Nat /\ names \in Nat /\ server \in 0..names /\ replies \in Seq(Replies)
      /\ drops \in 0..MaxDrops /\ m_LoggedIn \in BOOLEAN
  BY Facts
<1>1. NamedUpTo(names') \subseteq Packets
  <2>. DEFINE k == names'
  <2>1. k \in Nat /\ k <= k /\ k <= MaxNames /\ MaxNames \in Nat
    BY <1>0
  <2>. HIDE DEF k
  <2>2. NamedUpTo(k) \subseteq Packets
    BY <2>1, NamedPackets
  <2>. QED  BY <2>2 DEF k
<1>2. m_OutPackets' \in Seq(Packets)
  BY <1>1, LargerSeq
<1>3. late' \in Packets \cup {NoPacket}
  <2>. DEFINE n == m_CurrentGame'
  <2>1. late' = NoPacket \/ late' = Chat \/ (n # 0 /\ late' = Advert(n))
    BY DEF LateIsOfTheLobby
  <2>2. n # 0 => n \in 1..MaxNames
    BY <1>0
  <2>. HIDE DEF n
  <2>. QED  BY <2>1, <2>2 DEF Packets
<1>4. TypeOK'
  <2>1. server' \in 0..names'
    BY <1>0
  <2>. QED  BY <1>0, <1>2, <1>3, <2>1 DEF TypeOK
<1>5. NotLoggedOn' /\ SilentBefore' /\ NobodyLate' /\ KnownNames'
  BY <1>0 DEF NotLoggedOn, SilentBefore, NobodyLate, KnownNames, Named
<1>. QED  BY <1>4, <1>5

\* An answer of the server makes the bot chat and ask, or queues nothing.
LEMMA ReceiveInv == ASSUME Inv, Receive PROVE Inv'
<1>. USE DEF Inv, Connections
<1>0. /\ socket = "connected" /\ replies # << >> /\ replies' = Tail(replies)
      /\ m_RefreshError' \in {m_RefreshError, TRUE}
      /\ UNCHANGED <<socket, m_WaitingToConnect, m_LoggedIn, drops, server, names, m_CurrentGame,
                     public, starting, late, chats>>
  BY DEF Receive, connection
<1>1. m_LoggedIn
  BY <1>0, Facts DEF SilentBefore
<1>. DEFINE q == m_OutPackets
<1>2. q \in Seq(Named) /\ q \in Seq(Packets) /\ {Stop, EnterChat, Chat, Ask} \subseteq Named
      /\ Named \subseteq Packets /\ server \in 0..MaxNames
  BY Facts, NamedTypes DEF KnownNames
<1>3. ASSUME NEW r \in Seq(Named), NEW p \in {Chat, Ask}
      PROVE  /\ Append(r, p) = r \o <<p>> /\ Append(r, p) \in Seq(Named)
             /\ ~starting /\ Withdrawn(Coming(server, r), m_CurrentGame) =>
                  Withdrawn(Coming(server, Append(r, p)), m_CurrentGame)
  <2>1. Append(r, p) = r \o <<p>> /\ r \o <<p>> \in Seq(Named)
    BY <1>2, OnePacket
  <2>2. r \in Seq(Packets) /\ <<p>> \in Seq(Packets)
    BY <1>2, LargerSeq
  <2>3. \A i \in DOMAIN <<p>> : <<p>>[i][1] # "advert"
    BY PacketKinds
  <2>. QED  BY <1>2, <2>1, <2>2, <2>3, MoreComing
<1>4. ASSUME NEW r \in Seq(Named)
      PROVE  /\ QueueChatCommand(r) \in Seq(Named)
             /\ ~starting /\ Withdrawn(Coming(server, r), m_CurrentGame) =>
                  Withdrawn(Coming(server, QueueChatCommand(r)), m_CurrentGame)
  <2>1. QueueChatCommand(r) = r \/ QueueChatCommand(r) = Append(r, Chat)
    BY <1>3 DEF QueueChatCommand, Queue
  <2>. QED  BY <1>3, <2>1
<1>5. \/ m_OutPackets' = q \/ m_OutPackets' = Append(q, Ask)
      \/ m_OutPackets' = QueueChatCommand(QueueChatCommand(q))
  BY DEF Receive
<1>. HIDE DEF q
<1>6. m_OutPackets' \in Seq(Named)
  BY <1>2, <1>3, <1>4, <1>5
<1>7. OldGames'
  <2>. SUFFICES ASSUME ~starting PROVE Withdrawn(Coming(server, m_OutPackets'), m_CurrentGame)
    BY <1>0 DEF OldGames
  <2>1. Withdrawn(Coming(server, q), m_CurrentGame)
    BY <1>0, <1>1 DEF OldGames, q
  <2>. QED  BY <1>2, <1>3, <1>4, <1>5, <2>1
<1>8. replies' \in Seq(Replies)
  BY <1>0, Facts, HeadTailProperties
<1>9. LateIsOfTheLobby'
  BY <1>0 DEF LateIsOfTheLobby
<1>10. /\ names \in Nat /\ names <= MaxNames /\ m_CurrentGame \in 0..names /\ chats \in 0..MaxChat
       /\ public \in BOOLEAN /\ m_RefreshError \in BOOLEAN /\ starting \in BOOLEAN
  BY Facts
<1>11. names' \in Nat /\ names <= names' /\ names' <= MaxNames /\ m_CurrentGame' \in 0..names'
       /\ public' \in BOOLEAN /\ starting' \in BOOLEAN /\ chats' \in 0..MaxChat
  BY <1>0, <1>10
<1>12. m_RefreshError' \in BOOLEAN
  BY <1>0, <1>10
<1>13. m_OutPackets' \in Seq(NamedUpTo(names'))
  BY <1>0, <1>6 DEF Named
<1>14. NothingStaleIsSent'
  BY <1>0, <1>1 DEF NothingStaleIsSent
<1>. QED  BY <1>0, <1>1, <1>7, <1>8, <1>9, <1>11, <1>12, <1>13, <1>14, QueueStep

\* Every step that queues Stop at the end.
LEMMA UncreateStep ==
    ASSUME TypeOK, NEW q \in Seq(Packets), NEW l
    PROVE  m_LoggedIn => Withdrawn(Coming(server, Queue(q, Uncreate)), l)
<1>1. server \in 0..MaxNames
  BY Facts
<1>. QED  BY <1>1, UncreateComing DEF Queue

\* A game is taken from the server: when it is closed, given another name, or starts.
LEMMA UncreateInv ==
    ASSUME Inv, CloseLobby \/ RehostPublic \/ RehostPrivate \/ AutoRehost \/ QueueGameUncreate
    PROVE  Inv'
<1>. USE DEF Inv, Connections
<1>. DEFINE q == m_OutPackets
<1>0. /\ UNCHANGED <<socket, m_WaitingToConnect, m_LoggedIn, drops, server, replies, chats>>
      /\ \/ m_OutPackets' = Queue(q, Uncreate)
         \/ m_OutPackets' = Queue(UnqueueGameRefreshes(q), Uncreate)
  BY DEF CloseLobby, RehostPublic, RehostPrivate, AutoRehost, QueueGameUncreate, NewName,
         connection, outside
<1>1. /\ names \in Nat /\ names <= MaxNames /\ m_CurrentGame \in 0..names /\ chats \in 0..MaxChat
      /\ public \in BOOLEAN /\ m_RefreshError \in BOOLEAN /\ starting \in BOOLEAN
      /\ MaxNames \in Nat
  BY Facts
<1>2. q \in Seq(Named) /\ q \in Seq(Packets) /\ Uncreate \in Seq(Named) /\ Chat \in Named
  BY Facts, NamedTypes DEF KnownNames
<1>3. /\ UnqueueGameRefreshes(q) \in Seq(Named) /\ UnqueueGameRefreshes(q) \in Seq(Packets)
      /\ q = << >> => UnqueueGameRefreshes(q) = << >>
  <2>1. /\ UnqueueGameRefreshes(q) \in Seq({p \in Named : p[1] # "advert"})
        /\ q = << >> => UnqueueGameRefreshes(q) = << >>
    BY <1>2, UnqueuedPackets
  <2>2. {p \in Named : p[1] # "advert"} \subseteq Named /\ Named \subseteq Packets
    BY NamedTypes
  <2>3. UnqueueGameRefreshes(q) \in Seq(Named)
    BY <2>1, <2>2, LargerSeq, Zenon
  <2>. QED  BY <2>1, <2>2, <2>3, LargerSeq, Zenon
<1>4. m_OutPackets' \in Seq(Named)
  BY <1>0, <1>2, <1>3, QueuedTypes
<1>5. OldGames'
  <2>1. m_LoggedIn => Withdrawn(Coming(server, m_OutPackets'), m_CurrentGame')
    BY <1>0, <1>2, <1>3, UncreateStep
  <2>. QED  BY <1>0, <2>1 DEF OldGames
<1>6. ~m_LoggedIn /\ q = << >> => m_OutPackets' = << >>
  BY <1>0, <1>3, NothingQueued
<1>. HIDE DEF q
<1>7. /\ \/ names' = names /\ m_CurrentGame' \in {0, m_CurrentGame}
         \/ names < MaxNames /\ names' = names + 1 /\ m_CurrentGame' = names + 1
      /\ public' \in {public, TRUE, FALSE} /\ m_RefreshError' \in {m_RefreshError, FALSE}
      /\ starting' \in {starting, FALSE}
  <2>1. CASE CloseLobby \/ QueueGameUncreate
    BY <2>1 DEF CloseLobby, QueueGameUncreate, lobby
  <2>2. CASE RehostPublic \/ RehostPrivate \/ AutoRehost
    BY <2>2 DEF RehostPublic, RehostPrivate, AutoRehost, NewName
  <2>. QED  BY <2>1, <2>2
<1>8. /\ names' \in Nat /\ names <= names' /\ names' <= MaxNames /\ m_CurrentGame' \in 0..names'
  BY <1>1, <1>7
<1>9. public' \in BOOLEAN /\ m_RefreshError' \in BOOLEAN /\ starting' \in BOOLEAN
  BY <1>1, <1>7, Zenon
<1>10. LateIsOfTheLobby' /\ (late' \in {NoPacket, late} \/ m_LoggedIn)
  <2>1. CASE CloseLobby \/ QueueGameUncreate
    BY <2>1 DEF CloseLobby, QueueGameUncreate, lobby, LateIsOfTheLobby
  <2>2. CASE RehostPublic \/ AutoRehost
    BY <2>2 DEF RehostPublic, AutoRehost, NewName, LateIsOfTheLobby
  <2>3. CASE RehostPrivate
    <3>1. m_CurrentGame' = names + 1 /\ names + 1 # 0 /\ late' \in {Advert(names + 1), NoPacket}
          /\ (late' # NoPacket => m_LoggedIn)
      BY <1>1, <2>3 DEF RehostPrivate, NewName
    <3>. QED  BY <3>1 DEF LateIsOfTheLobby
  <2>. QED  BY <2>1, <2>2, <2>3
<1>11. m_OutPackets' \in Seq(NamedUpTo(names'))
  <2>. DEFINE k == names'
  <2>1. k \in Nat /\ names <= k /\ k <= MaxNames
    BY <1>8
  <2>. HIDE DEF k
  <2>2. Named \subseteq NamedUpTo(k)
    BY <1>1, <2>1, NamedPackets DEF Named
  <2>3. m_OutPackets' \in Seq(NamedUpTo(k))
    BY <1>4, <2>2, LargerSeq
  <2>. QED  BY <2>3 DEF k
<1>12. NothingStaleIsSent' /\ chats' \in 0..MaxChat
  BY <1>0, <1>1, <1>6 DEF NothingStaleIsSent, q
<1>. QED  BY <1>0, <1>5, <1>10, <1>11, <1>12, <1>8, <1>9, QueueStep

\* A lobby is created when there was none: everything older is withdrawn already.
LEMMA CreateGameInv == ASSUME Inv, NEW pub \in BOOLEAN, CreateGame(pub) PROVE Inv'
<1>. USE DEF Inv, Connections
<1>. DEFINE q  == m_OutPackets
            k  == names + 1
            ps == IF pub THEN <<Advert(k)>> ELSE <<Advert(k), EnterChat>>
            r  == QueueChatCommand(q)
<1>0. /\ UNCHANGED <<socket, m_WaitingToConnect, m_LoggedIn, drops, server, replies, chats, late, starting>>
      /\ m_CurrentGame = 0 /\ names < MaxNames /\ names' = k /\ m_CurrentGame' = k
      /\ public' = pub /\ m_RefreshError' = FALSE
      /\ m_OutPackets' = Queue(r, ps)
  BY DEF CreateGame, connection, outside
<1>1. /\ names \in Nat /\ MaxNames \in Nat /\ chats \in 0..MaxChat /\ starting \in BOOLEAN
      /\ k \in Nat /\ names <= k /\ k <= MaxNames /\ k \in 0..k /\ k \in 1..k /\ server \in 0..MaxNames
  BY <1>0, Facts
<1>2. /\ q \in Seq(Named) /\ q \in Seq(Packets) /\ Chat \in Packets
      /\ Named \subseteq NamedUpTo(k) /\ NamedUpTo(k) \subseteq Packets
  BY <1>1, Facts, NamedTypes, NamedPackets DEF KnownNames, Named
<1>3. /\ Advert(k) \in NamedUpTo(k) /\ EnterChat \in NamedUpTo(k) /\ Chat \in NamedUpTo(k)
  BY <1>1 DEF NamedUpTo
<1>. HIDE DEF k, q
<1>4. ps \in Seq(NamedUpTo(k)) /\ q \in Seq(NamedUpTo(k))
  BY <1>2, <1>3, LargerSeq
<1>. HIDE DEF ps, r
<1>5. /\ r \in Seq(NamedUpTo(k)) /\ m_OutPackets' \in Seq(NamedUpTo(k))
      /\ r \in Seq(Packets) /\ ps \in Seq(Packets) /\ <<Chat>> \in Seq(Packets)
  <2>1. r \in Seq(NamedUpTo(k))
    BY <1>3, <1>4, QueuedTypes DEF r
  <2>2. Queue(r, ps) \in Seq(NamedUpTo(k))
    BY <1>3, <1>4, <2>1, QueuedTypes
  <2>3. <<Chat>> \in Seq(Packets)
    BY <1>2
  <2>. QED  BY <1>0, <1>2, <1>4, <2>1, <2>2, <2>3, LargerSeq
<1>6. OldGames'
  <2>. SUFFICES ASSUME socket = "connected", m_LoggedIn, ~starting
                PROVE  Withdrawn(Coming(server, Queue(r, ps)), k)
    BY <1>0 DEF OldGames
  <2>1. Withdrawn(Coming(server, q), k)
    BY <1>0, WithdrawnForAll DEF OldGames, q
  <2>2. Withdrawn(Coming(server, r), k)
    <3>1. r = q \/ r = q \o <<Chat>>
      BY DEF r, QueueChatCommand, Queue
    <3>2. \A i \in DOMAIN <<Chat>> : <<Chat>>[i][1] # "advert"
      BY PacketKinds
    <3>3. Withdrawn(Coming(server, q \o <<Chat>>), k)
      BY <1>1, <1>2, <1>5, <2>1, <3>2, MoreComing
    <3>. QED  BY <2>1, <3>1, <3>3
  <2>3. \A i \in DOMAIN ps : ps[i][1] = "advert" => ps[i][2] = k
    BY PacketKinds DEF ps
  <2>4. Withdrawn(Coming(server, r \o ps), k)
    BY <1>1, <1>5, <2>2, <2>3, MoreComing
  <2>. QED  BY <2>4 DEF Queue
<1>7. NothingStaleIsSent'
  BY <1>0, NothingQueued DEF NothingStaleIsSent, q, r
<1>8. late = NoPacket /\ LateIsOfTheLobby'
  BY <1>0 DEF LateIsOfTheLobby
<1>9. public' \in BOOLEAN /\ m_RefreshError' \in BOOLEAN /\ starting' \in BOOLEAN
  BY <1>0, <1>1, Zenon
<1>10. /\ names' \in Nat /\ names <= names' /\ names' <= MaxNames /\ m_CurrentGame' \in 0..names'
       /\ chats' \in 0..MaxChat
  BY <1>0, <1>1
<1>11. m_OutPackets' \in Seq(NamedUpTo(names'))
  BY <1>0, <1>5
<1>. QED  BY <1>0, <1>6, <1>7, <1>8, <1>9, <1>10, <1>11, QueueStep

\* A game's thread finds m_LoggedIn set.
LEMMA LooksInv == ASSUME Inv, Refresh \/ SayOnBNET PROVE Inv'
<1>. USE DEF Inv, Connections
<1>0. /\ UNCHANGED <<socket, m_WaitingToConnect, m_LoggedIn, drops, server, replies, names,
                     m_CurrentGame, public, m_RefreshError, starting, m_OutPackets>>
      /\ m_LoggedIn /\ m_CurrentGame # 0 /\ late' \in {Chat, Advert(m_CurrentGame)}
      /\ chats' = chats \/ (chats < MaxChat /\ chats' = chats + 1)
  BY DEF Refresh, SayOnBNET, connection, outside, lobby
<1>1. /\ names \in Nat /\ names <= MaxNames /\ m_CurrentGame \in 0..names
      /\ chats \in 0..MaxChat /\ MaxChat \in Nat
  BY Facts, BNETAssumption
<1>2. public' \in BOOLEAN /\ m_RefreshError' \in BOOLEAN /\ starting' \in BOOLEAN
  BY <1>0, Facts
<1>3. /\ names' \in Nat /\ names <= names' /\ names' <= MaxNames /\ m_CurrentGame' \in 0..names'
      /\ chats' \in 0..MaxChat
  BY <1>0, <1>1
<1>4. m_OutPackets' \in Seq(NamedUpTo(names'))
  BY <1>0 DEF KnownNames, Named
<1>5. LateIsOfTheLobby' /\ NothingStaleIsSent' /\ OldGames'
  BY <1>0 DEF LateIsOfTheLobby, NothingStaleIsSent, OldGames
<1>. QED  BY <1>0, <1>2, <1>3, <1>4, <1>5, QueueStep

\* The thread queues the packet, whether m_LoggedIn is still set or not: the connection that
\* it was for is the last one that was logged on, and the next one empties the queue.
LEMMA QueueLateInv == ASSUME Inv, QueueLate PROVE Inv'
<1>. USE DEF Inv, Connections
<1>. DEFINE q == m_OutPackets
            d == Append(q, late)
            e == IF public THEN << >> ELSE <<EnterChat>>
<1>0. /\ UNCHANGED <<socket, m_WaitingToConnect, m_LoggedIn, drops, server, replies, names,
                     m_CurrentGame, public, m_RefreshError, starting, chats>>
      /\ late # NoPacket /\ late' = NoPacket
      /\ m_OutPackets' \in {q, d, Queue(d, e)}
  BY DEF QueueLate, connection, outside, lobby
<1>1. /\ names \in Nat /\ names <= MaxNames /\ m_CurrentGame \in 0..names /\ chats \in 0..MaxChat
      /\ server \in 0..MaxNames
  BY Facts
<1>2. /\ q \in Seq(Named) /\ late \in Named /\ EnterChat \in Named /\ Chat \in Named
      /\ Named \subseteq Packets
  BY <1>0, NamedTypes DEF KnownNames, LateIsOfTheLobby
<1>3. d = q \o <<late>> /\ d \in Seq(Named) /\ <<late>> \in Seq(Named)
  BY <1>2, OnePacket
<1>4. e \in Seq(Named)
  BY <1>2
<1>5. \A i \in DOMAIN e : e[i][1] # "advert"
  BY PacketKinds
<1>6. \A i \in DOMAIN <<late>> : <<late>>[i][1] = "advert" => <<late>>[i][2] = m_CurrentGame
  BY <1>0, PacketKinds DEF LateIsOfTheLobby
<1>. HIDE DEF d, e, q
<1>7. m_OutPackets' \in Seq(Named)
  BY <1>0, <1>2, <1>3, <1>4, QueuedTypes
<1>8. OldGames'
  <2>. SUFFICES ASSUME socket = "connected", m_LoggedIn, ~starting
                PROVE  Withdrawn(Coming(server, m_OutPackets'), m_CurrentGame)
    BY <1>0 DEF OldGames
  <2>1. Withdrawn(Coming(server, q), m_CurrentGame)
    BY DEF OldGames, q
  <2>2. /\ q \in Seq(Packets) /\ d \in Seq(Packets) /\ e \in Seq(Packets)
        /\ <<late>> \in Seq(Packets)
    BY <1>2, <1>3, <1>4, LargerSeq
  <2>3. Withdrawn(Coming(server, d), m_CurrentGame)
    BY <1>1, <1>3, <1>6, <2>1, <2>2, MoreComing
  <2>4. Withdrawn(Coming(server, d \o e), m_CurrentGame)
    BY <1>1, <1>5, <2>2, <2>3, MoreComing
  <2>. QED  BY <1>0, <2>1, <2>3, <2>4 DEF Queue
<1>9. NothingStaleIsSent'
  BY <1>0 DEF NothingStaleIsSent, NobodyLate
<1>10. LateIsOfTheLobby'
  BY <1>0 DEF LateIsOfTheLobby
<1>11. public' \in BOOLEAN /\ m_RefreshError' \in BOOLEAN /\ starting' \in BOOLEAN
  BY <1>0, Facts
<1>12. /\ names' \in Nat /\ names <= names' /\ names' <= MaxNames /\ m_CurrentGame' \in 0..names'
       /\ chats' \in 0..MaxChat
  BY <1>0, <1>1
<1>13. m_OutPackets' \in Seq(NamedUpTo(names'))
  BY <1>0, <1>7 DEF Named
<1>. QED  BY <1>0, <1>8, <1>9, <1>10, <1>11, <1>12, <1>13, QueueStep

\* The lobby becomes a game that is still to be uncreated.
LEMMA StartGameInv == ASSUME Inv, StartGame PROVE Inv'
<1>. USE DEF Inv, Connections
<1>0. /\ UNCHANGED <<socket, m_WaitingToConnect, m_LoggedIn, drops, server, replies, names,
                     public, m_RefreshError, chats, m_OutPackets, late>>
      /\ late = NoPacket /\ m_CurrentGame' = 0 /\ starting' = TRUE
  BY DEF StartGame, connection, outside
<1>1. names \in Nat /\ names <= MaxNames /\ chats \in 0..MaxChat
  BY Facts
<1>2. public' \in BOOLEAN /\ m_RefreshError' \in BOOLEAN /\ starting' \in BOOLEAN
  BY <1>0, Facts
<1>3. /\ names' \in Nat /\ names <= names' /\ names' <= MaxNames /\ m_CurrentGame' \in 0..names'
      /\ chats' \in 0..MaxChat
  BY <1>0, <1>1
<1>4. m_OutPackets' \in Seq(NamedUpTo(names'))
  BY <1>0 DEF KnownNames, Named
<1>5. LateIsOfTheLobby' /\ NothingStaleIsSent' /\ OldGames'
  BY <1>0 DEF LateIsOfTheLobby, NothingStaleIsSent, OldGames
<1>. QED  BY <1>0, <1>2, <1>3, <1>4, <1>5, QueueStep

LEMMA NextInv == Inv /\ [Next]_vars => Inv'
<1>. SUFFICES ASSUME Inv, [Next]_vars PROVE Inv'
  OBVIOUS
<1>1. CASE Connect \/ ConnectTimedOut \/ ConnectionLost \/ Disconnected
  BY <1>1, ConnectionInv
<1>2. CASE Connected
  BY <1>2, ConnectedInv
<1>3. CASE LoggedOn
  BY <1>3, LoggedOnInv
<1>4. CASE SendPacket
  BY <1>4, SendPacketInv
<1>5. CASE Receive
  BY <1>5, ReceiveInv
<1>6. ASSUME NEW pub \in BOOLEAN, CreateGame(pub) PROVE Inv'
  BY <1>6, CreateGameInv
<1>7. CASE CloseLobby \/ RehostPublic \/ RehostPrivate \/ AutoRehost \/ QueueGameUncreate
  BY <1>7, UncreateInv
<1>8. CASE Refresh \/ SayOnBNET
  BY <1>8, LooksInv
<1>9. CASE QueueLate
  BY <1>9, QueueLateInv
<1>10. CASE StartGame
  BY <1>10, StartGameInv
<1>11. CASE UNCHANGED vars
  <2>1. UNCHANGED <<socket, m_WaitingToConnect, m_LoggedIn, drops, m_OutPackets, chats, late,
                    server, replies, names, m_CurrentGame, public, m_RefreshError, starting>>
    BY <1>11 DEF vars, connection, outside, lobby
  <2>2. TypeOK'
    BY <2>1 DEF Inv, TypeOK
  <2>3. Connections'
    BY <2>1 DEF Inv, Connections, NotLoggedOn, SilentBefore, NobodyLate, LateIsOfTheLobby,
                KnownNames, Named
  <2>4. NothingStaleIsSent' /\ OldGames'
    BY <2>1 DEF Inv, NothingStaleIsSent, OldGames
  <2>. QED  BY <2>2, <2>3, <2>4 DEF Inv
<1>. QED  BY <1>1, <1>2, <1>3, <1>4, <1>5, <1>6, <1>7, <1>8, <1>9, <1>10, <1>11
          DEF Next, Update, Games

-----------------------------------------------------------------------------

\* For any number of names, packets and lost connections the variables have their types,
\* what the server advertises has been a name of a game, and a socket that is idle waits for
\* the next attempt (CBNET::Update never leaves it idle for good).
THEOREM TypeCorrect == Spec => []TypeOK
<1>1. Inv => TypeOK
  BY DEF Inv
<1>. QED  BY <1>1, InitInv, NextInv, PTL DEF Spec

\* Whatever the threads of the games queue while the bot notices that the connection is gone,
\* nothing of it is sent on the next one; and an old game that the server advertises, or will,
\* is uncreated by a packet that comes later, or by the thread of the game that starts.
THEOREM QueueIsAlwaysCurrent == Spec => []QueueIsCurrent
<1>1. Inv => QueueIsCurrent
  BY Facts, WithdrawnForm DEF Inv, OldGames, QueueIsCurrent
<1>. QED  BY <1>1, InitInv, NextInv, PTL DEF Spec

=============================================================================
