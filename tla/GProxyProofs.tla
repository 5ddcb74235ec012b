---------------------------- MODULE GProxyProofs ----------------------------
(***************************************************************************)
(* What holds of GProxy for every number of connections and packets.  Two  *)
(* inductive invariants: IInv for m_GProxyBuffer and the acknowledgements, *)
(* StreamInv, which rests on it, for the two streams of packets and the    *)
(* life of a connection.                                                   *)
(***************************************************************************)
EXTENDS GProxy, SequenceTheorems, TLAPS

-----------------------------------------------------------------------------
(* Lemmas about the operators of the model.                                 *)

\* A function on 1 .. n is a sequence of length n.
LEMMA FunctionIsSeq ==
    ASSUME NEW S, NEW n \in Nat, NEW f \in [1 .. n -> S]
    PROVE  f \in Seq(S) /\ Len(f) = n
<1>1. f \in Seq(S)
  BY SeqDef
<1>2. DOMAIN f = 1 .. n /\ DOMAIN f = 1 .. Len(f) /\ Len(f) \in Nat
  BY <1>1, LenProperties
<1>3. CASE n = 0
  BY <1>2, <1>3
<1>4. CASE n > 0
  <2>1. n \in 1 .. Len(f) /\ Len(f) \in 1 .. n
    BY <1>2, <1>4
  <2>. QED  BY <2>1, <1>2
<1>. QED  BY <1>1, <1>3, <1>4

\* Packets(from, upto) is a sequence of upto - from numbers.
LEMMA PacketsType ==
    ASSUME NEW from \in Nat, NEW upto \in Nat, from <= upto
    PROVE  /\ Packets(from, upto) \in Seq(Nat)
           /\ Len(Packets(from, upto)) = upto - from
           /\ \A i \in 1 .. (upto - from) : Packets(from, upto)[i] = from + i
<1>1. Packets(from, upto) \in [1 .. (upto - from) -> Nat]
  BY DEF Packets
<1>2. upto - from \in Nat
  OBVIOUS
<1>3. \A i \in 1 .. (upto - from) : Packets(from, upto)[i] = from + i
  BY DEF Packets
<1>. QED  BY <1>1, <1>2, <1>3, FunctionIsSeq

\* Game packets made of numbers are messages.
LEMMA AsGamesType ==
    ASSUME NEW s \in Seq(Nat)
    PROVE  AsGames(s) \in Seq(Message)
<1>1. s \in [1 .. Len(s) -> Nat] /\ Len(s) \in Nat
  BY LenProperties
<1>2. AsGames(s) \in [1 .. Len(s) -> Message]
  BY <1>1 DEF AsGames, Game, Message
<1>. QED  BY <1>1, <1>2, FunctionIsSeq

\* Removing an element of a sequence leaves a sequence.
LEMMA RemoveType ==
    ASSUME NEW S, NEW s \in Seq(S), NEW i \in DOMAIN s
    PROVE  SubSeq(s, 1, i - 1) \o SubSeq(s, i + 1, Len(s)) \in Seq(S)
<1>1. Len(s) \in Nat /\ i \in 1 .. Len(s) /\ \A j \in 1 .. Len(s) : s[j] \in S
  BY LenProperties
<1>2. SubSeq(s, 1, i - 1) \in Seq(S) /\ SubSeq(s, i + 1, Len(s)) \in Seq(S)
  BY <1>1, SubSeqProperties
<1>. QED  BY <1>2, ConcatProperties

\* What remains of the buffer after an acknowledgement is still the end of
\* the stream, and nothing beyond the acknowledged packet has been dropped.
LEMMA UnqueueProperties ==
    ASSUME totalSent \in Nat, buffer \in Seq(Nat), Unqueued \in Nat,
           \A i \in DOMAIN buffer : buffer[i] = Unqueued + i,
           NEW last \in Nat
    PROVE  /\ Unqueue(last) \in Seq(Nat)
           /\ Len(Unqueue(last)) <= Len(buffer)
           /\ totalSent - Len(Unqueue(last)) <= Max2(Unqueued, last)
           /\ \A i \in DOMAIN Unqueue(last) :
                 Unqueue(last)[i] = totalSent - Len(Unqueue(last)) + i
<1>1. Len(buffer) \in Nat /\ \A i \in 1 .. Len(buffer) : buffer[i] \in Nat
  BY LenProperties
<1>2. CASE last <= Unqueued
  <2>0. ~(last > Unqueued)
    BY <1>2
  <2>1. Unqueue(last) = buffer
    BY <2>0, Zenon DEF Unqueue
  <2>2. totalSent - Len(buffer) = Unqueued /\ Unqueued <= Max2(Unqueued, last)
    BY <1>2 DEF Unqueued, Max2
  <2>. QED  BY <1>1, <2>1, <2>2
<1>3. CASE last > Unqueued
  <2>. DEFINE many == IF last - Unqueued > Len(buffer) THEN Len(buffer)
                                                      ELSE last - Unqueued
              rest == SubSeq(buffer, many + 1, Len(buffer))
  <2>1. many \in Nat /\ many <= Len(buffer) /\ many <= last - Unqueued
    BY <1>1, <1>3
  <2>2. Unqueue(last) = rest
    BY <1>3 DEF Unqueue
  <2>. HIDE DEF many
  <2>3. /\ rest \in Seq(Nat)
        /\ Len(rest) = Len(buffer) - many
        /\ \A i \in 1 .. Len(buffer) - many : rest[i] = buffer[many + i]
    <3>1. /\ many + 1 \in Int /\ Len(buffer) \in Int
          /\ \A i \in many + 1 .. Len(buffer) : buffer[i] \in Nat
      BY <1>1, <2>1
    <3>2. /\ rest \in Seq(Nat)
          /\ Len(rest) = IF many + 1 <= Len(buffer)
                         THEN Len(buffer) - (many + 1) + 1 ELSE 0
          /\ \A i \in 1 .. Len(buffer) - (many + 1) + 1 :
                rest[i] = buffer[many + 1 + i - 1]
      BY <3>1, SubSeqProperties
    <3>. QED  BY <3>2, <1>1, <2>1
  <2>. HIDE DEF rest
  <2>4. DOMAIN rest = 1 .. Len(buffer) - many
    BY <2>3, LenProperties
  <2>5. DOMAIN buffer = 1 .. Len(buffer)
    BY LenProperties
  <2>6. \A i \in DOMAIN rest : rest[i] = totalSent - Len(rest) + i
    <3>1. Unqueued = totalSent - Len(buffer)
      BY DEF Unqueued
    <3>. SUFFICES ASSUME NEW i \in DOMAIN rest
                  PROVE  rest[i] = totalSent - Len(rest) + i
      OBVIOUS
    <3>2. i \in 1 .. Len(buffer) - many /\ many + i \in DOMAIN buffer
      BY <1>1, <2>1, <2>4, <2>5
    <3>3. rest[i] = Unqueued + (many + i)
      BY <2>3, <3>2
    <3>. QED  BY <1>1, <2>1, <2>3, <3>1, <3>2, <3>3
  <2>7. totalSent - Len(rest) <= Max2(Unqueued, last)
    BY <1>1, <2>1, <2>3, <1>3 DEF Unqueued, Max2
  <2>. QED  BY <1>1, <2>1, <2>2, <2>3, <2>6, <2>7
<1>. QED
  <2>1. Unqueued \in Int /\ last \in Int
    OBVIOUS
  <2>. QED  BY <2>1, <1>2, <1>3

-----------------------------------------------------------------------------
(* Type correctness.                                                        *)

LEMMA MessageTypes ==
    /\ InitMsg \in Message
    /\ \A n \in Nat : /\ Game(n) \in Message
                       /\ Ack(n) \in Message
                       /\ Reconnect(n) \in Message
BY DEF InitMsg, Game, Ack, Reconnect, Message

\* Writing messages into the player's socket keeps the channels typed.
LEMMA WrittenType ==
    ASSUME TypeOK, NEW messages \in Seq(Message)
    PROVE  Written(messages) \in [Conns -> Seq(Message)]
<1>1. down[socket] \in Seq(Message)
  BY DEF TypeOK
<1>2. down[socket] \o messages \in Seq(Message)
  BY <1>1, ConcatProperties
<1>. QED  BY <1>2 DEF Written, TypeOK

LEMMA InitType == Init => TypeOK
<1>1. 1 \in Conns /\ 1 \in Nat
  BY BoundsAssumption DEF Conns
<1>2. <<InitMsg>> \in Seq(Message)
  BY MessageTypes
<1>3. <<1>> \in Seq(Nat) /\ \A S : << >> \in Seq(S)
  BY EmptySeq
<1>. SUFFICES ASSUME Init PROVE TypeOK
  OBVIOUS
<1>4. /\ linkUp \in [Conns -> BOOLEAN]
      /\ down \in [Conns -> Seq(Message)]
      /\ up \in [Conns -> Seq(Message)]
  BY <1>2, <1>3 DEF Init
<1>5. buffer \in Seq(Nat) /\ pending \in Seq(Request)
      /\ delivered \in Seq(Nat) /\ processed \in Seq(Nat)
  BY <1>3 DEF Init
<1>6. socket \in Conns /\ cConn \in Conns
  BY <1>1 DEF Init
<1>. QED  BY <1>4, <1>5, <1>6 DEF Init, TypeOK

LEMMA SendPacketsType ==
    ASSUME TypeOK, NEW k \in Nat, SendPackets(k)
    PROVE  /\ totalSent' \in Nat
           /\ buffer' \in Seq(Nat)
           /\ unbuffered' \in Nat
           /\ down' \in [Conns -> Seq(Message)]
<1>. DEFINE new == Packets(totalSent, totalSent + k)
<1>1. totalSent \in Nat /\ totalSent + k \in Nat /\ totalSent <= totalSent + k
  BY DEF TypeOK
<1>2. new \in Seq(Nat)
  BY <1>1, PacketsType
<1>3. AsGames(new) \in Seq(Message)
  BY <1>2, AsGamesType
<1>4. Written(AsGames(new)) \in [Conns -> Seq(Message)]
  BY <1>3, WrittenType
<1>5. buffer \o new \in Seq(Nat)
  BY <1>2, ConcatProperties DEF TypeOK
<1>. HIDE DEF new
<1>6. totalSent' = totalSent + k /\ down' = Written(AsGames(new))
  BY DEF SendPackets, new
<1>7. CASE gproxy /\ gameLoaded
  <2>1. buffer' = buffer \o new /\ unbuffered' = unbuffered
    BY <1>7 DEF SendPackets, new
  <2>. QED  BY <1>1, <1>4, <1>5, <1>6, <2>1 DEF TypeOK
<1>8. CASE ~(gproxy /\ gameLoaded)
  <2>1. buffer' = buffer /\ unbuffered' = unbuffered + k
    BY <1>8 DEF SendPackets
  <2>. QED  BY <1>1, <1>4, <1>6, <2>1 DEF TypeOK
<1>. QED  BY <1>7, <1>8

\* Reading a message leaves a typed message and a typed channel.
LEMMA HeadTailType ==
    ASSUME NEW chans \in [Conns -> Seq(Message)], NEW c \in Conns,
           chans[c] # << >>
    PROVE  /\ Head(chans[c]) \in Message
           /\ Head(chans[c]).n \in Nat
           /\ [chans EXCEPT ![c] = Tail(@)] \in [Conns -> Seq(Message)]
<1>1. chans[c] \in Seq(Message)
  OBVIOUS
<1>2. Head(chans[c]) \in Message /\ Tail(chans[c]) \in Seq(Message)
  BY <1>1, HeadTailProperties
<1>. QED  BY <1>2 DEF Message

\* Appending to one channel keeps the channels typed.
LEMMA ConcatType ==
    ASSUME NEW chans \in [Conns -> Seq(Message)], NEW c \in Conns,
           NEW messages \in Seq(Message)
    PROVE  /\ [chans EXCEPT ![c] = @ \o messages] \in [Conns -> Seq(Message)]
           /\ [chans EXCEPT ![c] = messages] \in [Conns -> Seq(Message)]
<1>1. chans[c] \o messages \in Seq(Message)
  BY ConcatProperties
<1>. QED  BY <1>1

\* The request that a game takes over.
LEMMA HandleType ==
    ASSUME TypeOK, Unqueued \in Nat,
           \A i \in DOMAIN buffer : buffer[i] = Unqueued + i,
           NEW i \in DOMAIN pending, HandleReconnect(i)
    PROVE  TypeOK'
<1>. DEFINE request == pending[i]
            kept    == Append(Unqueue(request.last), totalSent + 1)
<1>1. request \in Request
  BY ElementOfSeq, LenProperties DEF TypeOK
<1>2. request.conn \in Conns /\ request.last \in Nat
  BY <1>1 DEF Request
<1>3. Unqueue(request.last) \in Seq(Nat)
  BY <1>2, UnqueueProperties DEF TypeOK
<1>4. kept \in Seq(Nat)
  BY <1>3, AppendProperties DEF TypeOK
<1>5. AsGames(kept) \in Seq(Message)
  BY <1>4, AsGamesType
<1>6. <<Reconnect(totalReceived)>> \in Seq(Message)
  BY MessageTypes DEF TypeOK
<1>7. down[request.conn] \o <<Reconnect(totalReceived)>> \in Seq(Message)
  BY <1>2, <1>6, ConcatProperties DEF TypeOK
<1>8. down[request.conn] \o <<Reconnect(totalReceived)>> \o AsGames(kept)
         \in Seq(Message)
  BY <1>5, <1>7, ConcatProperties
<1>9. down' \in [Conns -> Seq(Message)]
  BY <1>2, <1>8 DEF HandleReconnect, TypeOK
<1>10. up' \in [Conns -> Seq(Message)] /\ linkUp' \in [Conns -> BOOLEAN]
  BY EmptySeq DEF HandleReconnect, TypeOK
<1>11. pending' \in Seq(Request)
  BY RemoveType DEF HandleReconnect, TypeOK
<1>12. buffer' \in Seq(Nat) /\ totalSent' \in Nat /\ socket' \in Conns
  BY <1>2, <1>4 DEF HandleReconnect, TypeOK
<1>. QED
  BY <1>9, <1>10, <1>11, <1>12
  DEF HandleReconnect, TypeOK, clientVars, histVars

-----------------------------------------------------------------------------
(* The inductive invariant.  That nothing is discarded early rests on the   *)
(* bot never being told more than the client has received; that the buffer  *)
(* is the end of the stream rests on nothing being buffered before the      *)
(* player is a GProxy++ player of a loaded game.                            *)

Buffering ==
    ~(gproxy /\ gameLoaded) => Len(buffer) = 0 /\ unbuffered = totalSent

\* The acknowledgements among the messages s do not exceed n.
Honest(s, n) ==
    \A i \in DOMAIN s : s[i].t \in {"ack", "reconnect"} => s[i].n <= n

\* The client's own requests among the requests s do not exceed n.
HonestRequests(s, n) ==
    \A i \in DOMAIN s : s[i].key = "own" => s[i].last <= n

AcksAreTrue ==
    /\ \A c \in Conns : Honest(up[c], Len(delivered))
    /\ HonestRequests(pending, Len(delivered))

IInv ==
    /\ TypeOK
    /\ BufferIsTheTail
    /\ Buffering
    /\ AcksAreTrue
    /\ NothingDiscardedEarly

\* What is honest stays so when the client has received more.
LEMMA HonestMonotone ==
    ASSUME NEW s \in Seq(Message), NEW m \in Nat, NEW n \in Nat, m <= n,
           Honest(s, m)
    PROVE  Honest(s, n)
<1>. SUFFICES ASSUME NEW i \in DOMAIN s, s[i].t \in {"ack", "reconnect"}
              PROVE  s[i].n <= n
  BY DEF Honest
<1>1. s[i] \in Message
  BY ElementOfSeq, LenProperties
<1>2. s[i].n \in Nat /\ s[i].n <= m
  BY <1>1 DEF Message, Honest
<1>. QED  BY <1>2

\* Reading a message, or writing honest ones, leaves a channel honest.
LEMMA HonestTail ==
    ASSUME NEW s \in Seq(Message), s # << >>, NEW n \in Nat, Honest(s, n)
    PROVE  /\ Honest(Tail(s), n)
           /\ Head(s).t \in {"ack", "reconnect"} => Head(s).n <= n
<1>1. /\ Tail(s) \in Seq(Message)
      /\ Len(Tail(s)) = Len(s) - 1
      /\ \A i \in 1 .. Len(Tail(s)) : Tail(s)[i] = s[i + 1]
      /\ Head(s) = s[1]
      /\ Len(s) \in Nat /\ Len(s) > 0 /\ DOMAIN s = 1 .. Len(s)
  BY HeadTailProperties, LenProperties, EmptySeq
<1>2. DOMAIN Tail(s) = 1 .. Len(Tail(s))
  BY <1>1, LenProperties
<1>3. \A i \in DOMAIN Tail(s) : i + 1 \in DOMAIN s /\ Tail(s)[i] = s[i + 1]
  BY <1>1, <1>2
<1>4. 1 \in DOMAIN s
  BY <1>1
<1>. QED  BY <1>1, <1>3, <1>4 DEF Honest

LEMMA HonestConcat ==
    ASSUME NEW s \in Seq(Message), NEW t \in Seq(Message), NEW n \in Nat,
           Honest(s, n), Honest(t, n)
    PROVE  Honest(s \o t, n)
<1>1. /\ s \o t \in Seq(Message)
      /\ Len(s \o t) = Len(s) + Len(t)
      /\ \A i \in 1 .. Len(s) + Len(t) :
            (s \o t)[i] = IF i <= Len(s) THEN s[i] ELSE t[i - Len(s)]
  BY ConcatProperties
<1>2. /\ Len(s) \in Nat /\ DOMAIN s = 1 .. Len(s)
      /\ Len(t) \in Nat /\ DOMAIN t = 1 .. Len(t)
  BY LenProperties
<1>3. DOMAIN (s \o t) = 1 .. Len(s) + Len(t)
  BY <1>1, LenProperties
<1>. SUFFICES ASSUME NEW i \in DOMAIN (s \o t),
                     (s \o t)[i].t \in {"ack", "reconnect"}
              PROVE  (s \o t)[i].n <= n
  BY DEF Honest
<1>4. CASE i <= Len(s)
  <2>1. i \in DOMAIN s /\ (s \o t)[i] = s[i]
    BY <1>1, <1>2, <1>3, <1>4
  <2>. QED  BY <2>1 DEF Honest
<1>5. CASE ~(i <= Len(s))
  <2>1. i - Len(s) \in DOMAIN t /\ (s \o t)[i] = t[i - Len(s)]
    BY <1>1, <1>2, <1>3, <1>5
  <2>. QED  BY <2>1 DEF Honest
<1>. QED  BY <1>4, <1>5

LEMMA HonestSingletons ==
    ASSUME NEW n \in Nat
    PROVE  /\ Honest(<< >>, n)
           /\ Honest(<<InitMsg>>, n)
           /\ \A k \in Nat : Honest(<<Game(k)>>, n)
           /\ \A k \in Nat : k <= n => Honest(<<Ack(k)>>, n)
           /\ \A k \in Nat : k <= n => Honest(<<Reconnect(k)>>, n)
BY DEF Honest, InitMsg, Game, Ack, Reconnect

LEMMA HonestGames ==
    ASSUME NEW s \in Seq(Nat), NEW n \in Nat
    PROVE  Honest(AsGames(s), n)
BY DEF AsGames, Game, Honest

\* The same facts about the posted requests.
LEMMA RequestsMonotone ==
    ASSUME NEW s \in Seq(Request), NEW m \in Nat, NEW n \in Nat, m <= n,
           HonestRequests(s, m)
    PROVE  HonestRequests(s, n)
<1>. SUFFICES ASSUME NEW i \in DOMAIN s, s[i].key = "own"
              PROVE  s[i].last <= n
  BY DEF HonestRequests
<1>1. s[i] \in Request
  BY ElementOfSeq, LenProperties
<1>2. s[i].last \in Nat /\ s[i].last <= m
  BY <1>1 DEF Request, HonestRequests
<1>. QED  BY <1>2

LEMMA RequestsAppend ==
    ASSUME NEW s \in Seq(Request), NEW r \in Request, NEW n \in Nat,
           HonestRequests(s, n), r.key = "own" => r.last <= n
    PROVE  HonestRequests(Append(s, r), n)
<1>1. /\ Append(s, r) \in Seq(Request)
      /\ Len(Append(s, r)) = Len(s) + 1
      /\ \A i \in 1 .. Len(s) : Append(s, r)[i] = s[i]
      /\ Append(s, r)[Len(s) + 1] = r
  BY AppendProperties
<1>2. Len(s) \in Nat /\ DOMAIN s = 1 .. Len(s)
  BY LenProperties
<1>3. DOMAIN Append(s, r) = 1 .. Len(s) + 1
  BY <1>1, LenProperties
<1>4. \A i \in DOMAIN Append(s, r) : i \in DOMAIN s \/ i = Len(s) + 1
  BY <1>2, <1>3
<1>. QED  BY <1>1, <1>2, <1>4 DEF HonestRequests

LEMMA RequestsRemove ==
    ASSUME NEW s \in Seq(Request), NEW k \in DOMAIN s, NEW n \in Nat,
           HonestRequests(s, n)
    PROVE  HonestRequests(SubSeq(s, 1, k - 1) \o SubSeq(s, k + 1, Len(s)), n)
<1>. DEFINE front == SubSeq(s, 1, k - 1)
            back  == SubSeq(s, k + 1, Len(s))
<1>1. /\ Len(s) \in Nat /\ DOMAIN s = 1 .. Len(s) /\ k \in 1 .. Len(s)
      /\ \A j \in 1 .. Len(s) : s[j] \in Request
  BY LenProperties
<1>2. /\ front \in Seq(Request)
      /\ Len(front) = k - 1
      /\ \A i \in 1 .. k - 1 : front[i] = s[i]
  <2>1. /\ front \in Seq(Request)
        /\ Len(front) = IF 1 <= k - 1 THEN k - 1 - 1 + 1 ELSE 0
        /\ \A i \in 1 .. k - 1 - 1 + 1 : front[i] = s[1 + i - 1]
    BY <1>1, SubSeqProperties
  <2>. QED  BY <2>1, <1>1
<1>3. /\ back \in Seq(Request)
      /\ Len(back) = Len(s) - k
      /\ \A i \in 1 .. Len(s) - k : back[i] = s[k + i]
  <2>1. /\ back \in Seq(Request)
        /\ Len(back) = IF k + 1 <= Len(s) THEN Len(s) - (k + 1) + 1 ELSE 0
        /\ \A i \in 1 .. Len(s) - (k + 1) + 1 : back[i] = s[k + 1 + i - 1]
    BY <1>1, SubSeqProperties
  <2>. QED  BY <2>1, <1>1
<1>. HIDE DEF front, back
<1>4. /\ front \o back \in Seq(Request)
      /\ Len(front \o back) = Len(front) + Len(back)
      /\ \A i \in 1 .. Len(front) + Len(back) :
            (front \o back)[i] = IF i <= Len(front) THEN front[i]
                                 ELSE back[i - Len(front)]
  BY <1>2, <1>3, ConcatProperties
<1>5. DOMAIN (front \o back) = 1 .. Len(front) + Len(back)
  BY <1>4, LenProperties
<1>6. \A i \in DOMAIN (front \o back) :
         \E j \in DOMAIN s : (front \o back)[i] = s[j]
  <2>. TAKE i \in DOMAIN (front \o back)
  <2>1. CASE i <= k - 1
    <3>1. i \in 1 .. k - 1 /\ i \in DOMAIN s
      BY <2>1, <1>1, <1>2, <1>3, <1>5
    <3>2. (front \o back)[i] = s[i]
      BY <3>1, <1>1, <1>2, <1>3, <1>4
    <3>. QED  BY <3>1, <3>2
  <2>2. CASE ~(i <= k - 1)
    <3>1. i - (k - 1) \in 1 .. Len(s) - k /\ i + 1 \in DOMAIN s
      BY <2>2, <1>1, <1>2, <1>3, <1>5
    <3>2. (front \o back)[i] = back[i - (k - 1)]
      BY <2>2, <1>1, <1>2, <1>3, <1>4, <1>5
    <3>3. back[i - (k - 1)] = s[i + 1]
      BY <3>1, <1>1, <1>3
    <3>. QED  BY <3>1, <3>2, <3>3
  <2>. QED  BY <2>1, <2>2
<1>7. HonestRequests(front \o back, n)
  BY <1>6 DEF HonestRequests
<1>. QED  BY <1>7 DEF front, back

LEMMA RequestsTail ==
    ASSUME NEW s \in Seq(Request), s # << >>, NEW n \in Nat,
           HonestRequests(s, n)
    PROVE  Tail(s) \in Seq(Request) /\ HonestRequests(Tail(s), n)
<1>1. /\ Tail(s) \in Seq(Request)
      /\ Len(Tail(s)) = Len(s) - 1
      /\ \A i \in 1 .. Len(Tail(s)) : Tail(s)[i] = s[i + 1]
      /\ Len(s) \in Nat /\ Len(s) > 0 /\ DOMAIN s = 1 .. Len(s)
  BY HeadTailProperties, LenProperties, EmptySeq
<1>2. DOMAIN Tail(s) = 1 .. Len(Tail(s))
  BY <1>1, LenProperties
<1>3. \A i \in DOMAIN Tail(s) : i + 1 \in DOMAIN s /\ Tail(s)[i] = s[i + 1]
  BY <1>1, <1>2
<1>. QED  BY <1>1, <1>3 DEF HonestRequests

\* Packets is a sequence whatever its bounds are.
LEMMA PacketsSeq ==
    ASSUME NEW from \in Nat, NEW upto \in Nat
    PROVE  Packets(from, upto) \in Seq(Nat)
<1>1. CASE from <= upto
  BY <1>1, PacketsType
<1>2. CASE ~(from <= upto)
  <2>1. 1 .. (upto - from) = 1 .. 0
    BY <1>2
  <2>2. Packets(from, upto) \in [1 .. 0 -> Nat]
    BY <2>1 DEF Packets
  <2>. QED  BY <2>2, FunctionIsSeq
<1>. QED  BY <1>1, <1>2

-----------------------------------------------------------------------------
(* What a step does to the buffer.                                          *)

BufferFacts == BufferIsTheTail /\ Buffering /\ NothingDiscardedEarly

\* PacketsAlreadyUnqueued is a number of packets.
LEMMA BufferNumbers ==
    ASSUME TypeOK, BufferIsTheTail
    PROVE  /\ Len(buffer) \in Nat /\ DOMAIN buffer = 1 .. Len(buffer)
           /\ Len(delivered) \in Nat
           /\ Unqueued \in Nat /\ Unqueued = totalSent - Len(buffer)
<1>1. /\ Len(buffer) \in Nat /\ DOMAIN buffer = 1 .. Len(buffer)
      /\ Len(delivered) \in Nat
  BY LenProperties DEF TypeOK
<1>2. Unqueued = totalSent - Len(buffer)
  BY DEF Unqueued
<1>3. unbuffered <= Unqueued /\ unbuffered \in Nat /\ totalSent \in Nat
  BY DEF BufferIsTheTail, TypeOK
<1>. QED  BY <1>1, <1>2, <1>3

LEMMA BufferFrame ==
    ASSUME BufferFacts,
           UNCHANGED <<gameLoaded, gproxy, totalSent, buffer, unbuffered,
                       delivered>>
    PROVE  BufferFacts'
BY DEF BufferFacts, BufferIsTheTail, Buffering, NothingDiscardedEarly, Unqueued

\* Sending keeps the buffer the end of the stream.
LEMMA BufferSend ==
    ASSUME TypeOK, BufferFacts, NEW k \in Nat, SendPackets(k),
           UNCHANGED <<gameLoaded, gproxy, delivered>>
    PROVE  BufferFacts'
<1>. DEFINE new == Packets(totalSent, totalSent + k)
<1>1. /\ Len(buffer) \in Nat /\ DOMAIN buffer = 1 .. Len(buffer)
      /\ Len(delivered) \in Nat
      /\ Unqueued \in Nat /\ Unqueued = totalSent - Len(buffer)
  BY BufferNumbers DEF BufferFacts
<1>2. totalSent \in Nat /\ unbuffered \in Nat
  BY DEF TypeOK
<1>3. /\ new \in Seq(Nat) /\ Len(new) = k
      /\ \A i \in 1 .. k : new[i] = totalSent + i
  <2>. DEFINE upto == totalSent + k
  <2>1. upto \in Nat /\ totalSent <= upto /\ upto - totalSent = k
    BY <1>2
  <2>2. new = Packets(totalSent, upto)
    OBVIOUS
  <2>. HIDE DEF upto, new
  <2>3. /\ Packets(totalSent, upto) \in Seq(Nat)
        /\ Len(Packets(totalSent, upto)) = upto - totalSent
        /\ \A i \in 1 .. (upto - totalSent) :
              Packets(totalSent, upto)[i] = totalSent + i
    BY <1>2, <2>1, PacketsType
  <2>. QED  BY <2>1, <2>2, <2>3
<1>. HIDE DEF new
<1>4. totalSent' = totalSent + k
  BY DEF SendPackets
<1>5. CASE gproxy /\ gameLoaded
  <2>1. buffer' = buffer \o new /\ unbuffered' = unbuffered
    BY <1>5 DEF SendPackets, new
  <2>2. /\ buffer \o new \in Seq(Nat)
        /\ Len(buffer \o new) = Len(buffer) + k
        /\ \A i \in 1 .. Len(buffer) + k :
              (buffer \o new)[i] = IF i <= Len(buffer) THEN buffer[i]
                                   ELSE new[i - Len(buffer)]
    BY <1>3, ConcatProperties DEF TypeOK
  <2>3. DOMAIN (buffer \o new) = 1 .. Len(buffer) + k
    BY <2>2, LenProperties
  <2>4. totalSent' - Len(buffer') = Unqueued
    BY <1>1, <1>2, <1>4, <2>1, <2>2
  <2>5. \A i \in DOMAIN (buffer \o new) : (buffer \o new)[i] = Unqueued + i
    <3>. TAKE i \in DOMAIN (buffer \o new)
    <3>1. CASE i <= Len(buffer)
      <4>1. i \in DOMAIN buffer /\ (buffer \o new)[i] = buffer[i]
        BY <1>1, <2>2, <2>3, <3>1
      <4>. QED  BY <4>1 DEF BufferFacts, BufferIsTheTail
    <3>2. CASE ~(i <= Len(buffer))
      <4>1. i - Len(buffer) \in 1 .. k
        BY <1>1, <2>3, <3>2
      <4>2. (buffer \o new)[i] = totalSent + (i - Len(buffer))
        BY <1>1, <1>3, <2>2, <2>3, <3>2, <4>1
      <4>. QED  BY <1>1, <1>2, <2>3, <4>1, <4>2
    <3>. QED  BY <3>1, <3>2
  <2>6. Unqueued' = Unqueued
    BY <2>4 DEF Unqueued
  <2>7. BufferIsTheTail' /\ NothingDiscardedEarly'
    BY <2>1, <2>5, <2>6
    DEF BufferFacts, BufferIsTheTail, NothingDiscardedEarly
  <2>. QED  BY <1>5, <2>7 DEF BufferFacts, Buffering
<1>6. CASE ~(gproxy /\ gameLoaded)
  <2>1. buffer' = buffer /\ unbuffered' = unbuffered + k
    BY <1>6 DEF SendPackets
  <2>2. Len(buffer) = 0 /\ unbuffered = totalSent
    BY <1>6 DEF BufferFacts, Buffering
  <2>3. Unqueued' = totalSent + k
    BY <1>2, <1>4, <2>1, <2>2 DEF Unqueued
  <2>4. BufferIsTheTail'
    BY <1>1, <1>2, <2>1, <2>2, <2>3 DEF BufferIsTheTail
  <2>5. NothingDiscardedEarly'
    BY <1>1, <1>2, <2>1, <2>2, <2>3 DEF NothingDiscardedEarly, Max2
  <2>. QED  BY <1>4, <2>1, <2>2, <2>4, <2>5 DEF BufferFacts, Buffering
<1>. QED  BY <1>5, <1>6

\* An honest acknowledgement drops nothing the client has not received.
LEMMA BufferAck ==
    ASSUME TypeOK, BufferFacts, NEW last \in Nat, last <= Len(delivered),
           buffer' = Unqueue(last),
           UNCHANGED <<gameLoaded, gproxy, totalSent, unbuffered, delivered>>
    PROVE  BufferFacts'
<1>1. /\ Len(buffer) \in Nat /\ Len(delivered) \in Nat
      /\ Unqueued \in Nat /\ Unqueued = totalSent - Len(buffer)
  BY BufferNumbers DEF BufferFacts
<1>2. totalSent \in Nat /\ unbuffered \in Nat /\ buffer \in Seq(Nat)
  BY DEF TypeOK
<1>3. /\ buffer' \in Seq(Nat)
      /\ Len(buffer') <= Len(buffer)
      /\ totalSent - Len(buffer') <= Max2(Unqueued, last)
      /\ \A i \in DOMAIN buffer' : buffer'[i] = totalSent - Len(buffer') + i
  BY <1>1, <1>2, UnqueueProperties DEF BufferFacts, BufferIsTheTail
<1>4. Len(buffer') \in Nat
  BY <1>3, LenProperties
<1>5. Unqueued' = totalSent - Len(buffer')
  BY DEF Unqueued
<1>6. BufferIsTheTail'
  BY <1>1, <1>2, <1>3, <1>4, <1>5 DEF BufferFacts, BufferIsTheTail
<1>7. NothingDiscardedEarly'
  BY <1>1, <1>2, <1>3, <1>4, <1>5
  DEF BufferFacts, NothingDiscardedEarly, Max2
<1>8. Buffering'
  BY <1>1, <1>3, <1>4 DEF BufferFacts, Buffering
<1>. QED  BY <1>6, <1>7, <1>8 DEF BufferFacts

\* A reconnection: the acknowledgement it carries, then one packet more.
LEMMA BufferReconnect ==
    ASSUME TypeOK, BufferFacts, gproxy, gameLoaded,
           NEW last \in Nat, last <= Len(delivered),
           buffer' = Append(Unqueue(last), totalSent + 1),
           totalSent' = totalSent + 1,
           UNCHANGED <<gameLoaded, gproxy, unbuffered, delivered>>
    PROVE  BufferFacts'
<1>. DEFINE kept == Unqueue(last)
<1>1. /\ Len(buffer) \in Nat /\ Len(delivered) \in Nat
      /\ Unqueued \in Nat /\ Unqueued = totalSent - Len(buffer)
  BY BufferNumbers DEF BufferFacts
<1>2. totalSent \in Nat /\ unbuffered \in Nat /\ buffer \in Seq(Nat)
  BY DEF TypeOK
<1>3. /\ kept \in Seq(Nat)
      /\ Len(kept) <= Len(buffer)
      /\ totalSent - Len(kept) <= Max2(Unqueued, last)
      /\ \A i \in DOMAIN kept : kept[i] = totalSent - Len(kept) + i
  BY <1>1, <1>2, UnqueueProperties DEF BufferFacts, BufferIsTheTail
<1>. HIDE DEF kept
<1>4. Len(kept) \in Nat /\ DOMAIN kept = 1 .. Len(kept)
  BY <1>3, LenProperties
<1>5. buffer' = Append(kept, totalSent + 1)
  BY DEF kept
<1>6. /\ buffer' \in Seq(Nat)
      /\ Len(buffer') = Len(kept) + 1
      /\ \A i \in 1 .. Len(kept) : buffer'[i] = kept[i]
      /\ buffer'[Len(kept) + 1] = totalSent + 1
  <2>1. totalSent + 1 \in Nat
    BY <1>2
  <2>2. /\ Append(kept, totalSent + 1) \in Seq(Nat)
        /\ Len(Append(kept, totalSent + 1)) = Len(kept) + 1
        /\ \A i \in 1 .. Len(kept) : Append(kept, totalSent + 1)[i] = kept[i]
        /\ Append(kept, totalSent + 1)[Len(kept) + 1] = totalSent + 1
    BY <1>3, <2>1, AppendProperties
  <2>. QED  BY <1>5, <2>2
<1>7. DOMAIN buffer' = 1 .. Len(kept) + 1
  BY <1>6, LenProperties
<1>8. totalSent' - Len(buffer') = totalSent - Len(kept)
  BY <1>2, <1>4, <1>6
<1>9. Unqueued' = totalSent - Len(kept)
  BY <1>8 DEF Unqueued
<1>10. \A i \in DOMAIN buffer' : buffer'[i] = Unqueued' + i
  <2>. TAKE i \in DOMAIN buffer'
  <2>1. CASE i \in 1 .. Len(kept)
    BY <1>3, <1>4, <1>6, <1>9, <2>1
  <2>2. CASE i = Len(kept) + 1
    BY <1>2, <1>4, <1>6, <1>9, <2>2
  <2>. QED  BY <1>4, <1>7, <2>1, <2>2
<1>11. BufferIsTheTail'
  BY <1>1, <1>2, <1>3, <1>4, <1>9, <1>10 DEF BufferFacts, BufferIsTheTail
<1>12. NothingDiscardedEarly'
  BY <1>1, <1>2, <1>3, <1>4, <1>9
  DEF BufferFacts, NothingDiscardedEarly, Max2
<1>. QED  BY <1>11, <1>12 DEF BufferFacts, Buffering

-----------------------------------------------------------------------------
(* The invariant is inductive: one step per action.                         *)

LEMMA AcksFrame ==
    ASSUME AcksAreTrue, UNCHANGED <<up, pending, delivered>>
    PROVE  AcksAreTrue'
BY DEF AcksAreTrue

\* Reading a message from one channel, or closing the channel.
LEMMA AcksRead ==
    ASSUME TypeOK, AcksAreTrue, NEW c \in Conns, UNCHANGED <<pending, delivered>>,
           \/ up[c] # << >> /\ up' = [up EXCEPT ![c] = Tail(@)]
           \/ up' = [up EXCEPT ![c] = << >>]
    PROVE  AcksAreTrue'
<1>1. Len(delivered) \in Nat /\ up \in [Conns -> Seq(Message)]
  BY LenProperties DEF TypeOK
<1>2. \A d \in Conns : up[d] \in Seq(Message) /\ Honest(up[d], Len(delivered))
  BY <1>1 DEF AcksAreTrue
<1>3. Honest(up'[c], Len(delivered))
  BY <1>1, <1>2, HonestTail, HonestSingletons
<1>4. \A d \in Conns \ {c} : up'[d] = up[d]
  BY <1>1
<1>. QED  BY <1>2, <1>3, <1>4 DEF AcksAreTrue

\* Writing honest messages to one channel.
LEMMA AcksWrite ==
    ASSUME TypeOK, AcksAreTrue, NEW c \in Conns, NEW messages \in Seq(Message),
           Honest(messages, Len(delivered)), UNCHANGED <<pending, delivered>>,
           \/ up' = [up EXCEPT ![c] = @ \o messages]
           \/ up' = [up EXCEPT ![c] = messages]
    PROVE  AcksAreTrue'
<1>1. Len(delivered) \in Nat /\ up \in [Conns -> Seq(Message)]
  BY LenProperties DEF TypeOK
<1>2. \A d \in Conns : up[d] \in Seq(Message) /\ Honest(up[d], Len(delivered))
  BY <1>1 DEF AcksAreTrue
<1>3. Honest(up'[c], Len(delivered))
  BY <1>1, <1>2, HonestConcat
<1>4. \A d \in Conns \ {c} : up'[d] = up[d]
  BY <1>1
<1>. QED  BY <1>2, <1>3, <1>4 DEF AcksAreTrue

\* The client has received one more packet: what was honest stays honest.
LEMMA AcksDeliver ==
    ASSUME TypeOK, AcksAreTrue, delivered' \in Seq(Nat),
           Len(delivered) <= Len(delivered'), UNCHANGED pending,
           NEW c \in Conns, NEW messages \in Seq(Nat),
           \/ up' = up
           \/ up' = [up EXCEPT ![c] = @ \o AsGames(messages)]
    PROVE  AcksAreTrue'
<1>1. /\ Len(delivered) \in Nat /\ up \in [Conns -> Seq(Message)]
      /\ Len(delivered') \in Nat /\ pending \in Seq(Request)
  BY LenProperties DEF TypeOK
<1>2. \A d \in Conns : up[d] \in Seq(Message) /\ Honest(up[d], Len(delivered'))
  BY <1>1, HonestMonotone DEF AcksAreTrue
<1>3. HonestRequests(pending, Len(delivered'))
  BY <1>1, RequestsMonotone DEF AcksAreTrue
<1>4. AsGames(messages) \in Seq(Message)
  BY AsGamesType
<1>5. Honest(AsGames(messages), Len(delivered'))
  BY <1>1, HonestGames
<1>6. Honest(up[c] \o AsGames(messages), Len(delivered'))
  BY <1>1, <1>2, <1>4, <1>5, HonestConcat
<1>7. \A d \in Conns : Honest(up'[d], Len(delivered'))
  BY <1>1, <1>2, <1>6
<1>. QED  BY <1>3, <1>7 DEF AcksAreTrue

LEMMA IInvInit == Init => IInv
<1>. SUFFICES ASSUME Init PROVE IInv
  OBVIOUS
<1>1. TypeOK
  BY InitType
<1>2. /\ Len(buffer) = 0 /\ DOMAIN buffer = {} /\ Len(delivered) = 0
      /\ totalSent = 0 /\ unbuffered = 0 /\ ~gproxy
  BY EmptySeq DEF Init
<1>3. Unqueued = 0
  BY <1>2 DEF Unqueued
<1>4. BufferIsTheTail /\ Buffering /\ NothingDiscardedEarly
  BY <1>2, <1>3 DEF BufferIsTheTail, Buffering, NothingDiscardedEarly, Max2
<1>5. \A c \in Conns : up[c] = << >> \/ up[c] = <<InitMsg>>
  BY DEF Init
<1>6. AcksAreTrue
  BY <1>2, <1>5, HonestSingletons DEF AcksAreTrue, HonestRequests, Init
<1>. QED  BY <1>1, <1>4, <1>6 DEF IInv

LEMMA IInvNext == IInv /\ [Next]_vars => IInv'
<1>. SUFFICES ASSUME IInv, [Next]_vars PROVE IInv'
  OBVIOUS
<1>. USE DEF IInv
<1>0. /\ Unqueued \in Nat /\ Len(delivered) \in Nat
      /\ BufferFacts
      /\ \A i \in DOMAIN buffer : buffer[i] = Unqueued + i
      /\ up \in [Conns -> Seq(Message)] /\ down \in [Conns -> Seq(Message)]
      /\ pending \in Seq(Request)
  BY BufferNumbers DEF BufferFacts, BufferIsTheTail, TypeOK
<1>. SUFFICES TypeOK' /\ BufferFacts' /\ AcksAreTrue'
  BY DEF BufferFacts
<1>1. CASE GameLoad
  <2>1. TypeOK'
    BY <1>1 DEF GameLoad, TypeOK, mainVars, netVars, clientVars, histVars
  <2>2. BufferFacts'
    BY <1>1, <1>0 DEF GameLoad, clientVars, histVars, BufferFacts, Buffering,
       BufferIsTheTail, NothingDiscardedEarly, Unqueued
  <2>3. AcksAreTrue'
    BY <1>1, AcksFrame DEF GameLoad, mainVars, netVars, clientVars
  <2>. QED  BY <2>1, <2>2, <2>3
<1>2. CASE BotSend
  <2>1. TypeOK'
    BY <1>2, SendPacketsType DEF BotSend, TypeOK, mainVars, clientVars
  <2>2. BufferFacts'
    BY <1>2, <1>0, BufferSend DEF BotSend, clientVars
  <2>3. AcksAreTrue'
    BY <1>2, AcksFrame DEF BotSend, mainVars, clientVars
  <2>. QED  BY <2>1, <2>2, <2>3
<1>3. CASE BotReceiveGame
  <2>1. socket \in Conns
    BY DEF TypeOK
  <2>2. /\ Head(up[socket]).n \in Nat
        /\ up' \in [Conns -> Seq(Message)]
    BY <1>3, <1>0, <2>1, HeadTailType DEF BotReceiveGame
  <2>3. processed' \in Seq(Nat)
    BY <1>3, <2>2, AppendProperties DEF BotReceiveGame, TypeOK
  <2>4. TypeOK'
    BY <1>3, <2>2, <2>3 DEF BotReceiveGame, TypeOK, mainVars, clientVars
  <2>5. BufferFacts'
    BY <1>3, <1>0, BufferFrame DEF BotReceiveGame, clientVars
  <2>6. AcksAreTrue'
    BY <1>3, <2>1, AcksRead DEF BotReceiveGame, mainVars, clientVars
  <2>. QED  BY <2>4, <2>5, <2>6
<1>4. CASE BotReceiveInit
  <2>1. socket \in Conns /\ <<InitMsg>> \in Seq(Message)
    BY MessageTypes DEF TypeOK
  <2>2. up' \in [Conns -> Seq(Message)]
    BY <1>4, <1>0, <2>1, HeadTailType DEF BotReceiveInit
  <2>3. down' \in [Conns -> Seq(Message)]
    BY <1>4, <2>1, WrittenType DEF BotReceiveInit
  <2>4. TypeOK'
    BY <1>4, <2>2, <2>3 DEF BotReceiveInit, TypeOK, mainVars, clientVars, histVars
  <2>5. BufferFacts'
    BY <1>4, <1>0 DEF BotReceiveInit, clientVars, histVars, BufferFacts,
       Buffering, BufferIsTheTail, NothingDiscardedEarly, Unqueued
  <2>6. AcksAreTrue'
    BY <1>4, <2>1, AcksRead DEF BotReceiveInit, mainVars, clientVars
  <2>. QED  BY <2>4, <2>5, <2>6
<1>5. CASE BotReceiveAck
  <2>1. socket \in Conns
    BY DEF TypeOK
  <2>2. /\ Head(up[socket]).n \in Nat
        /\ up' \in [Conns -> Seq(Message)]
    BY <1>5, <1>0, <2>1, HeadTailType DEF BotReceiveAck
  <2>3. buffer' \in Seq(Nat)
    BY <1>5, <1>0, <2>2, UnqueueProperties DEF BotReceiveAck, TypeOK
  <2>4. TypeOK'
    BY <1>5, <2>2, <2>3
    DEF BotReceiveAck, TypeOK, mainVars, clientVars, histVars
  <2>5. Honest(up[socket], Len(delivered)) /\ up[socket] \in Seq(Message)
    BY <1>0, <2>1 DEF AcksAreTrue
  <2>6. Head(up[socket]).n <= Len(delivered)
    BY <1>5, <1>0, <2>5, HonestTail DEF BotReceiveAck
  <2>7. BufferFacts'
    BY <1>5, <1>0, <2>2, <2>6, BufferAck DEF BotReceiveAck, clientVars, histVars
  <2>8. AcksAreTrue'
    BY <1>5, <2>1, AcksRead DEF BotReceiveAck, mainVars, clientVars
  <2>. QED  BY <2>4, <2>7, <2>8
<1>6. CASE BotAck
  <2>1. <<Ack(totalReceived)>> \in Seq(Message)
    BY MessageTypes DEF TypeOK
  <2>2. down' \in [Conns -> Seq(Message)]
    BY <1>6, <2>1, WrittenType DEF BotAck
  <2>3. TypeOK'
    BY <1>6, <2>2 DEF BotAck, TypeOK, gameVars, mainVars, clientVars, histVars
  <2>4. BufferFacts'
    BY <1>6, <1>0, BufferFrame DEF BotAck, gameVars, clientVars, histVars
  <2>5. AcksAreTrue'
    BY <1>6, AcksFrame DEF BotAck, mainVars, clientVars
  <2>. QED  BY <2>3, <2>4, <2>5
<1>7. CASE BotNoticesLoss
  <2>0. AcksAreTrue'
    BY <1>7, AcksFrame DEF BotNoticesLoss, mainVars, clientVars
  <2>1. CASE gproxy /\ gameLoaded
    <3>1. PICK chats \in 0 .. 2 : SendPackets(chats)
      BY <1>7, <2>1 DEF BotNoticesLoss
    <3>2. chats \in Nat /\ socketUp' = FALSE
      BY <1>7, <2>1 DEF BotNoticesLoss
    <3>3. TypeOK'
      BY <1>7, <2>1, <3>1, <3>2, SendPacketsType
      DEF BotNoticesLoss, TypeOK, mainVars, clientVars
    <3>4. BufferFacts'
      BY <1>7, <1>0, <3>1, <3>2, BufferSend DEF BotNoticesLoss, clientVars
    <3>. QED  BY <2>0, <3>3, <3>4
  <2>2. CASE ~(gproxy /\ gameLoaded)
    <3>1. TypeOK'
      BY <1>7, <2>2 DEF BotNoticesLoss, TypeOK, mainVars, clientVars
    <3>2. BufferFacts'
      BY <1>7, <1>0, <2>2, BufferFrame DEF BotNoticesLoss, clientVars
    <3>. QED  BY <2>0, <3>1, <3>2
  <2>. QED  BY <2>1, <2>2
<1>8. CASE DropPlayer
  <2>1. socket \in Conns
    BY DEF TypeOK
  <2>2. up' \in [Conns -> Seq(Message)] /\ linkUp' \in [Conns -> BOOLEAN]
    BY <1>8, EmptySeq DEF DropPlayer, TypeOK
  <2>3. TypeOK'
    BY <1>8, <2>2 DEF DropPlayer, TypeOK, mainVars, clientVars, histVars
  <2>4. BufferFacts'
    BY <1>8, <1>0, BufferFrame DEF DropPlayer, clientVars, histVars
  <2>5. AcksAreTrue'
    BY <1>8, <2>1, AcksRead DEF DropPlayer, mainVars, clientVars
  <2>. QED  BY <2>3, <2>4, <2>5
<1>9. ASSUME NEW i \in DOMAIN pending, HandleReconnect(i)
      PROVE  TypeOK' /\ BufferFacts' /\ AcksAreTrue'
  <2>1. TypeOK'
    BY <1>9, <1>0, HandleType
  <2>2. pending[i] \in Request /\ gproxy /\ gameLoaded /\ pending[i].key = "own"
    BY <1>9, <1>0, ElementOfSeq, LenProperties DEF HandleReconnect, IsForUs
  <2>3. /\ pending[i].last \in Nat
        /\ pending[i].last <= Len(delivered)
    BY <2>2 DEF AcksAreTrue, HonestRequests, Request
  <2>4. BufferFacts'
    BY <1>9, <1>0, <2>2, <2>3, BufferReconnect
    DEF HandleReconnect, clientVars, histVars
  <2>5. HonestRequests(pending', Len(delivered))
    BY <1>9, <1>0, RequestsRemove DEF HandleReconnect, AcksAreTrue
  <2>6. \A c \in Conns : Honest(up'[c], Len(delivered))
    BY <1>9, <1>0, HonestSingletons DEF HandleReconnect, AcksAreTrue
  <2>7. AcksAreTrue'
    BY <1>9, <2>5, <2>6 DEF HandleReconnect, clientVars, AcksAreTrue
  <2>. QED  BY <2>1, <2>4, <2>7
<1>10. ASSUME NEW c \in Conns, PostReconnect(c)
       PROVE  TypeOK' /\ BufferFacts' /\ AcksAreTrue'
  <2>. DEFINE request == [conn |-> c, key |-> "own", last |-> Head(up[c]).n]
  <2>1. /\ Head(up[c]).n \in Nat
        /\ up' \in [Conns -> Seq(Message)]
    BY <1>10, <1>0, HeadTailType DEF PostReconnect
  <2>2. request \in Request
    BY <2>1 DEF Request
  <2>3. pending' = Append(pending, request) /\ pending' \in Seq(Request)
    BY <1>10, <1>0, <2>2, AppendProperties DEF PostReconnect
  <2>4. TypeOK'
    BY <1>10, <2>1, <2>3
    DEF PostReconnect, TypeOK, gameVars, clientVars, histVars
  <2>5. BufferFacts'
    BY <1>10, <1>0, BufferFrame DEF PostReconnect, gameVars, clientVars, histVars
  <2>6. /\ Honest(Tail(up[c]), Len(delivered))
        /\ Head(up[c]).n <= Len(delivered)
    BY <1>10, <1>0, HonestTail DEF PostReconnect, AcksAreTrue
  <2>7. HonestRequests(pending', Len(delivered))
    BY <1>0, <2>2, <2>3, <2>6, RequestsAppend DEF AcksAreTrue
  <2>8. \A d \in Conns : Honest(up'[d], Len(delivered))
    BY <1>10, <1>0, <2>6 DEF PostReconnect, AcksAreTrue
  <2>9. AcksAreTrue'
    BY <1>10, <2>7, <2>8 DEF PostReconnect, clientVars, AcksAreTrue
  <2>. QED  BY <2>4, <2>5, <2>9
<1>11. ASSUME NEW c \in Conns, DropListening(c)
       PROVE  TypeOK' /\ BufferFacts' /\ AcksAreTrue'
  <2>1. up' \in [Conns -> Seq(Message)] /\ linkUp' \in [Conns -> BOOLEAN]
    BY <1>11, EmptySeq DEF DropListening, TypeOK
  <2>2. TypeOK'
    BY <1>11, <2>1 DEF DropListening, TypeOK, gameVars, clientVars, histVars
  <2>3. BufferFacts'
    BY <1>11, <1>0, BufferFrame DEF DropListening, gameVars, clientVars, histVars
  <2>4. AcksAreTrue'
    BY <1>11, AcksRead DEF DropListening, clientVars
  <2>. QED  BY <2>2, <2>3, <2>4
<1>12. CASE ExpireReconnect
  <2>1. /\ pending' \in Seq(Request)
        /\ HonestRequests(pending', Len(delivered))
    BY <1>12, <1>0, RequestsTail DEF ExpireReconnect, AcksAreTrue
  <2>2. linkUp' \in [Conns -> BOOLEAN]
    BY <1>12 DEF ExpireReconnect, TypeOK
  <2>3. TypeOK'
    BY <1>12, <2>1, <2>2 DEF ExpireReconnect, TypeOK, gameVars, clientVars, histVars
  <2>4. BufferFacts'
    BY <1>12, <1>0, BufferFrame
    DEF ExpireReconnect, gameVars, clientVars, histVars
  <2>5. AcksAreTrue'
    BY <1>12, <2>1 DEF ExpireReconnect, clientVars, AcksAreTrue
  <2>. QED  BY <2>3, <2>4, <2>5
<1>13. ASSUME NEW last \in Strangers, StrangerReconnects(last)
       PROVE  TypeOK' /\ BufferFacts' /\ AcksAreTrue'
  <2>. DEFINE request == [conn |-> Stranger, key |-> "other", last |-> last]
  <2>1. request \in Request /\ request.key # "own"
    BY BoundsAssumption DEF Request, Stranger, Conns
  <2>2. pending' = Append(pending, request) /\ pending' \in Seq(Request)
    BY <1>13, <1>0, <2>1, AppendProperties DEF StrangerReconnects
  <2>3. TypeOK'
    BY <1>13, <2>2
    DEF StrangerReconnects, TypeOK, gameVars, netVars, clientVars
  <2>4. BufferFacts'
    BY <1>13, <1>0, BufferFrame DEF StrangerReconnects, gameVars, clientVars
  <2>5. HonestRequests(pending', Len(delivered))
    BY <1>0, <2>1, <2>2, RequestsAppend DEF AcksAreTrue
  <2>6. AcksAreTrue'
    BY <1>13, <2>5 DEF StrangerReconnects, netVars, clientVars, AcksAreTrue
  <2>. QED  BY <2>3, <2>4, <2>6
<1>14. ASSUME NEW i \in DOMAIN pending, OtherGameHandles(i)
       PROVE  TypeOK' /\ BufferFacts' /\ AcksAreTrue'
  <2>1. /\ pending' \in Seq(Request)
        /\ HonestRequests(pending', Len(delivered))
    BY <1>14, <1>0, RemoveType, RequestsRemove DEF OtherGameHandles, AcksAreTrue
  <2>2. TypeOK'
    BY <1>14, <2>1
    DEF OtherGameHandles, TypeOK, gameVars, netVars, clientVars, histVars
  <2>3. BufferFacts'
    BY <1>14, <1>0, BufferFrame
    DEF OtherGameHandles, gameVars, clientVars, histVars
  <2>4. AcksAreTrue'
    BY <1>14, <2>1 DEF OtherGameHandles, netVars, clientVars, AcksAreTrue
  <2>. QED  BY <2>2, <2>3, <2>4
<1>15. CASE LinkBreaks
  <2>1. linkUp' \in [Conns -> BOOLEAN]
    BY <1>15 DEF LinkBreaks, TypeOK
  <2>2. TypeOK'
    BY <1>15, <2>1
    DEF LinkBreaks, TypeOK, gameVars, mainVars, clientVars, histVars
  <2>3. BufferFacts'
    BY <1>15, <1>0, BufferFrame DEF LinkBreaks, gameVars, clientVars, histVars
  <2>4. AcksAreTrue'
    BY <1>15, AcksFrame DEF LinkBreaks, mainVars, clientVars
  <2>. QED  BY <2>2, <2>3, <2>4
<1>16. CASE ClientReceive
  <2>. DEFINE m == Head(down[cConn])
  <2>1. cConn \in Conns
    BY DEF TypeOK
  <2>2. /\ m.n \in Nat
        /\ down' \in [Conns -> Seq(Message)]
    BY <1>16, <1>0, <2>1, HeadTailType DEF ClientReceive
  <2>3. /\ delivered' \in Seq(Nat)
        /\ Len(delivered) <= Len(delivered')
    <3>1. delivered \in Seq(Nat)
      BY DEF TypeOK
    <3>2. /\ Append(delivered, m.n) \in Seq(Nat)
          /\ Len(Append(delivered, m.n)) = Len(delivered) + 1
      BY <2>2, <3>1, AppendProperties
    <3>3. delivered' = delivered \/ delivered' = Append(delivered, m.n)
      BY <1>16 DEF ClientReceive
    <3>4. CASE delivered' = delivered
      BY <1>0, <3>1, <3>4
    <3>5. CASE delivered' = Append(delivered, m.n)
      BY <1>0, <3>2, <3>5
    <3>. QED  BY <3>3, <3>4, <3>5
  <2>4. cUnqueued' \in Nat
    BY <1>16, <2>2 DEF ClientReceive, Max2, TypeOK
  <2>5. cReliable' \in BOOLEAN /\ cWaiting' \in BOOLEAN
    BY <1>16 DEF ClientReceive
  <2>6. Packets(cUnqueued', cSent) \in Seq(Nat)
    BY <2>4, PacketsSeq DEF TypeOK
  <2>7. \/ up' = up
        \/ up' = [up EXCEPT ![cConn] = @ \o AsGames(Packets(cUnqueued', cSent))]
    BY <1>16 DEF ClientReceive
  <2>8. AsGames(Packets(cUnqueued', cSent)) \in Seq(Message)
    BY <2>6, AsGamesType
  <2>9. up' \in [Conns -> Seq(Message)]
    <3>. DEFINE resent == AsGames(Packets(cUnqueued', cSent))
    <3>1. [up EXCEPT ![cConn] = @ \o resent] \in [Conns -> Seq(Message)]
      BY <1>0, <2>1, <2>8, ConcatType
    <3>. QED  BY <1>0, <2>7, <3>1
  <2>10. TypeOK'
    BY <1>16, <2>2, <2>3, <2>4, <2>5, <2>9
    DEF ClientReceive, TypeOK, gameVars, mainVars, histVars
  <2>11. BufferFacts'
    BY <1>16, <1>0, <2>3, LenProperties
    DEF ClientReceive, gameVars, histVars, BufferFacts, Buffering,
        BufferIsTheTail, NothingDiscardedEarly, Unqueued, Max2, TypeOK
  <2>12. AcksAreTrue'
    BY <1>16, <2>1, <2>3, <2>6, <2>7, AcksDeliver DEF ClientReceive, mainVars
  <2>. QED  BY <2>10, <2>11, <2>12
<1>17. CASE ClientSend
  <2>1. cConn \in Conns /\ cSent' \in Nat /\ cSent + 1 \in Nat
    BY <1>17 DEF ClientSend, TypeOK
  <2>2. Game(cSent + 1) \in Message /\ <<Game(cSent + 1)>> \in Seq(Message)
    BY <2>1, MessageTypes
  <2>3. up' = up \/ up' = [up EXCEPT ![cConn] = @ \o <<Game(cSent + 1)>>]
    <3>1. Append(up[cConn], Game(cSent + 1)) = up[cConn] \o <<Game(cSent + 1)>>
      BY <1>0, <2>1, <2>2, AppendIsConcat
    <3>. QED  BY <1>17, <3>1 DEF ClientSend
  <2>4. up' \in [Conns -> Seq(Message)]
    <3>1. [up EXCEPT ![cConn] = @ \o <<Game(cSent + 1)>>]
             \in [Conns -> Seq(Message)]
      BY <1>0, <2>1, <2>2, ConcatType
    <3>. QED  BY <1>0, <2>3, <3>1
  <2>5. TypeOK'
    BY <1>17, <2>1, <2>4 DEF ClientSend, TypeOK, gameVars, mainVars, histVars
  <2>6. BufferFacts'
    BY <1>17, <1>0, BufferFrame DEF ClientSend, gameVars, histVars
  <2>7. Honest(<<Game(cSent + 1)>>, Len(delivered))
    BY <1>0, <2>1, HonestSingletons
  <2>8. AcksAreTrue'
    BY <1>17, <2>1, <2>2, <2>3, <2>7, AcksFrame, AcksWrite
    DEF ClientSend, mainVars
  <2>. QED  BY <2>5, <2>6, <2>8
<1>18. CASE ClientAck
  <2>. DEFINE ack == Ack(Len(delivered))
  <2>1. cConn \in Conns
    BY DEF TypeOK
  <2>2. ack \in Message /\ <<ack>> \in Seq(Message)
    BY <1>0, MessageTypes
  <2>3. up' = [up EXCEPT ![cConn] = @ \o <<ack>>]
    <3>1. Append(up[cConn], ack) = up[cConn] \o <<ack>>
      BY <1>0, <2>1, <2>2, AppendIsConcat
    <3>. QED  BY <1>18, <3>1 DEF ClientAck
  <2>4. up' \in [Conns -> Seq(Message)]
    BY <1>0, <2>1, <2>2, <2>3, ConcatType
  <2>5. TypeOK'
    BY <1>18, <2>4
    DEF ClientAck, TypeOK, gameVars, mainVars, clientVars, histVars
  <2>6. BufferFacts'
    BY <1>18, <1>0, BufferFrame DEF ClientAck, gameVars, clientVars, histVars
  <2>7. Honest(<<ack>>, Len(delivered))
    BY <1>0, HonestSingletons
  <2>8. AcksAreTrue'
    BY <1>18, <2>1, <2>2, <2>3, <2>7, AcksWrite
    DEF ClientAck, mainVars, clientVars
  <2>. QED  BY <2>5, <2>6, <2>8
<1>19. CASE ClientReconnect
  <2>. DEFINE first == <<Reconnect(Len(delivered))>>
  <2>1. cConn \in Conns /\ cConn + 1 \in Conns
    BY <1>19, BoundsAssumption DEF ClientReconnect, TypeOK, Conns
  <2>2. first \in Seq(Message)
    BY <1>0, MessageTypes
  <2>3. up' = [up EXCEPT ![cConn + 1] = first]
    BY <1>19 DEF ClientReconnect
  <2>4. up' \in [Conns -> Seq(Message)]
    BY <1>0, <2>1, <2>2, <2>3, ConcatType
  <2>5. down' \in [Conns -> Seq(Message)]
    BY <1>19, <1>0, <2>1, EmptySeq DEF ClientReconnect
  <2>6. linkUp' \in [Conns -> BOOLEAN] /\ listening' \subseteq Conns
    BY <1>19, <2>1 DEF ClientReconnect, TypeOK
  <2>7. TypeOK'
    BY <1>19, <2>1, <2>4, <2>5, <2>6
    DEF ClientReconnect, TypeOK, gameVars, histVars
  <2>8. BufferFacts'
    BY <1>19, <1>0, BufferFrame DEF ClientReconnect, gameVars, histVars
  <2>9. Honest(first, Len(delivered))
    BY <1>0, HonestSingletons
  <2>10. AcksAreTrue'
    BY <1>19, <2>1, <2>2, <2>3, <2>9, AcksWrite DEF ClientReconnect
  <2>. QED  BY <2>7, <2>8, <2>10
<1>20. CASE UNCHANGED vars
  <2>1. TypeOK'
    BY <1>20 DEF vars, gameVars, mainVars, netVars, clientVars, histVars, TypeOK
  <2>2. BufferFacts'
    BY <1>20, <1>0, BufferFrame DEF vars, gameVars, clientVars, histVars
  <2>3. AcksAreTrue'
    BY <1>20, AcksFrame DEF vars, mainVars, netVars, clientVars
  <2>. QED  BY <2>1, <2>2, <2>3
<1>. QED
  BY <1>1, <1>2, <1>3, <1>4, <1>5, <1>6, <1>7, <1>8, <1>9, <1>10, <1>11, <1>12,
     <1>13, <1>14, <1>15, <1>16, <1>17, <1>18, <1>19, <1>20
  DEF Next

-----------------------------------------------------------------------------
(* Streams in channels.                                                     *)

\* The game packets among the messages s are those from a + 1 to b, in order.
InOrder(s, a, b) ==
    /\ a <= b
    /\ \A i \in DOMAIN s : s[i].t = "game" => a < s[i].n /\ s[i].n <= b
    /\ \A i, j \in DOMAIN s :
          s[i].t = "game" /\ s[j].t = "game" /\ i < j => s[i].n < s[j].n
    /\ \A k \in (a + 1) .. b : \E i \in DOMAIN s : s[i].t = "game" /\ s[i].n = k

\* None of the messages s is of the type t.
Without(s, t) == \A i \in DOMAIN s : s[i].t # t

LEMMA TailFacts ==
    ASSUME NEW S, NEW s \in Seq(S), s # << >>
    PROVE  /\ Tail(s) \in Seq(S)
           /\ Head(s) = s[1]
           /\ Len(s) \in Nat \ {0}
           /\ DOMAIN s = 1 .. Len(s)
           /\ DOMAIN Tail(s) = 1 .. (Len(s) - 1)
           /\ \A i \in 1 .. (Len(s) - 1) : Tail(s)[i] = s[i + 1]
           /\ \A i \in DOMAIN s : s[i] \in S
<1>1. /\ Tail(s) \in Seq(S)
      /\ Len(Tail(s)) = Len(s) - 1
      /\ \A i \in 1 .. Len(Tail(s)) : Tail(s)[i] = s[i + 1]
      /\ Head(s) = s[1]
      /\ Len(s) \in Nat /\ Len(s) > 0 /\ DOMAIN s = 1 .. Len(s)
  BY HeadTailProperties, LenProperties, EmptySeq
<1>2. DOMAIN Tail(s) = 1 .. Len(Tail(s))
  BY <1>1, LenProperties
<1>3. \A i \in 1 .. Len(s) : s[i] \in S
  BY ElementOfSeq
<1>. QED  BY <1>1, <1>2, <1>3

LEMMA ConcatFacts ==
    ASSUME NEW S, NEW s \in Seq(S), NEW t \in Seq(S)
    PROVE  /\ s \o t \in Seq(S)
           /\ Len(s) \in Nat /\ DOMAIN s = 1 .. Len(s)
           /\ Len(t) \in Nat /\ DOMAIN t = 1 .. Len(t)
           /\ Len(s \o t) = Len(s) + Len(t)
           /\ DOMAIN (s \o t) = 1 .. (Len(s) + Len(t))
           /\ \A i \in 1 .. Len(s) : (s \o t)[i] = s[i]
           /\ \A i \in 1 .. Len(t) : (s \o t)[Len(s) + i] = t[i]
           /\ \A i \in (Len(s) + 1) .. (Len(s) + Len(t)) :
                 (s \o t)[i] = t[i - Len(s)]
<1>1. /\ s \o t \in Seq(S)
      /\ Len(s \o t) = Len(s) + Len(t)
      /\ \A i \in 1 .. Len(s) + Len(t) :
            (s \o t)[i] = IF i <= Len(s) THEN s[i] ELSE t[i - Len(s)]
  BY ConcatProperties
<1>2. /\ Len(s) \in Nat /\ DOMAIN s = 1 .. Len(s)
      /\ Len(t) \in Nat /\ DOMAIN t = 1 .. Len(t)
  BY LenProperties
<1>3. DOMAIN (s \o t) = 1 .. (Len(s) + Len(t))
  BY <1>1, LenProperties
<1>4. \A i \in 1 .. Len(s) : (s \o t)[i] = s[i]
  BY <1>1, <1>2
<1>5. \A i \in 1 .. Len(t) : (s \o t)[Len(s) + i] = t[i]
  <2>. TAKE i \in 1 .. Len(t)
  <2>1. /\ Len(s) + i \in 1 .. Len(s) + Len(t)
        /\ ~(Len(s) + i <= Len(s))
        /\ Len(s) + i - Len(s) = i
    BY <1>2
  <2>. QED  BY <1>1, <2>1
<1>6. \A i \in (Len(s) + 1) .. (Len(s) + Len(t)) : (s \o t)[i] = t[i - Len(s)]
  BY <1>1, <1>2
<1>. QED  BY <1>1, <1>2, <1>3, <1>4, <1>5, <1>6

\* Two stretches of the stream, one after the other.
LEMMA InOrderConcat ==
    ASSUME NEW s \in Seq(Message), NEW t \in Seq(Message),
           NEW a \in Nat, NEW b \in Nat, NEW c \in Nat,
           InOrder(s, a, b), InOrder(t, b, c)
    PROVE  InOrder(s \o t, a, c)
<1>. DEFINE st == s \o t
<1>1. /\ st \in Seq(Message)
      /\ Len(s) \in Nat /\ DOMAIN s = 1 .. Len(s)
      /\ Len(t) \in Nat /\ DOMAIN t = 1 .. Len(t)
      /\ DOMAIN st = 1 .. (Len(s) + Len(t))
      /\ \A i \in 1 .. Len(s) : st[i] = s[i]
      /\ \A i \in 1 .. Len(t) : st[Len(s) + i] = t[i]
      /\ \A i \in (Len(s) + 1) .. (Len(s) + Len(t)) : st[i] = t[i - Len(s)]
  BY ConcatFacts
<1>2. /\ \A i \in DOMAIN s : s[i].n \in Nat
      /\ \A i \in DOMAIN t : t[i].n \in Nat
  <2>1. /\ \A i \in 1 .. Len(s) : s[i] \in Message
        /\ \A i \in 1 .. Len(t) : t[i] \in Message
    BY ElementOfSeq
  <2>. QED  BY <1>1, <2>1 DEF Message
<1>. HIDE DEF st
<1>3. a <= c
  BY DEF InOrder
<1>4. \A i \in DOMAIN st :
         \/ i \in DOMAIN s /\ st[i] = s[i]
         \/ i - Len(s) \in DOMAIN t /\ st[i] = t[i - Len(s)] /\ i > Len(s)
  <2>. TAKE i \in DOMAIN st
  <2>1. CASE i <= Len(s)
    BY <1>1, <2>1
  <2>2. CASE i > Len(s)
    BY <1>1, <2>2
  <2>. QED  BY <1>1, <2>1, <2>2
<1>5. /\ a <= b /\ b <= c
      /\ \A i \in DOMAIN s : s[i].t = "game" => a < s[i].n /\ s[i].n <= b
      /\ \A i \in DOMAIN t : t[i].t = "game" => b < t[i].n /\ t[i].n <= c
      /\ \A i, j \in DOMAIN s :
            s[i].t = "game" /\ s[j].t = "game" /\ i < j => s[i].n < s[j].n
      /\ \A i, j \in DOMAIN t :
            t[i].t = "game" /\ t[j].t = "game" /\ i < j => t[i].n < t[j].n
      /\ \A k \in (a + 1) .. b :
            \E i \in DOMAIN s : s[i].t = "game" /\ s[i].n = k
      /\ \A k \in (b + 1) .. c :
            \E i \in DOMAIN t : t[i].t = "game" /\ t[i].n = k
  BY Zenon DEF InOrder
<1>6. \A i \in DOMAIN st : st[i].t = "game" => a < st[i].n /\ st[i].n <= c
  <2>. SUFFICES ASSUME NEW i \in DOMAIN st, st[i].t = "game"
                PROVE  a < st[i].n /\ st[i].n <= c
    OBVIOUS
  <2>1. CASE i \in DOMAIN s /\ st[i] = s[i]
    BY <2>1, <1>2, <1>5
  <2>2. CASE i - Len(s) \in DOMAIN t /\ st[i] = t[i - Len(s)]
    BY <2>2, <1>2, <1>5
  <2>. QED  BY <1>4, <2>1, <2>2
<1>7. \A i, j \in DOMAIN st :
         st[i].t = "game" /\ st[j].t = "game" /\ i < j => st[i].n < st[j].n
  <2>. SUFFICES ASSUME NEW i \in DOMAIN st, NEW j \in DOMAIN st,
                       st[i].t = "game", st[j].t = "game", i < j
                PROVE  st[i].n < st[j].n
    OBVIOUS
  <2>1. CASE j \in DOMAIN s /\ st[j] = s[j]
    <3>1. i \in DOMAIN s /\ st[i] = s[i]
      BY <2>1, <1>1
    <3>. QED  BY <2>1, <3>1, <1>5
  <2>2. CASE j - Len(s) \in DOMAIN t /\ st[j] = t[j - Len(s)]
    <3>1. CASE i \in DOMAIN s /\ st[i] = s[i]
      BY <2>2, <3>1, <1>2, <1>5
    <3>2. CASE i - Len(s) \in DOMAIN t /\ st[i] = t[i - Len(s)]
      <4>1. i - Len(s) < j - Len(s)
        BY <1>1
      <4>. QED  BY <2>2, <3>2, <4>1, <1>5
    <3>. QED  BY <1>4, <3>1, <3>2
  <2>. QED  BY <1>4, <2>1, <2>2
<1>8. \A k \in (a + 1) .. c : \E i \in DOMAIN st : st[i].t = "game" /\ st[i].n = k
  <2>. TAKE k \in (a + 1) .. c
  <2>1. CASE k <= b
    <3>1. PICK i \in DOMAIN s : s[i].t = "game" /\ s[i].n = k
      BY <2>1, <1>5
    <3>2. i \in DOMAIN st /\ st[i] = s[i]
      BY <3>1, <1>1
    <3>. QED  BY <3>1, <3>2
  <2>2. CASE k > b
    <3>1. PICK i \in DOMAIN t : t[i].t = "game" /\ t[i].n = k
      BY <2>2, <1>5
    <3>2. Len(s) + i \in DOMAIN st /\ st[Len(s) + i] = t[i]
      BY <3>1, <1>1
    <3>. QED  BY <3>1, <3>2
  <2>. QED  BY <2>1, <2>2
<1>9. InOrder(st, a, c)
  BY <1>3, <1>6, <1>7, <1>8, Zenon DEF InOrder
<1>. QED  BY <1>9 DEF st

\* Messages that are no game packets are no part of the stream.
LEMMA InOrderControl ==
    ASSUME NEW s, Without(s, "game"), NEW a \in Nat
    PROVE  InOrder(s, a, a)
<1>1. (a + 1) .. a = {}
  OBVIOUS
<1>. QED  BY <1>1 DEF InOrder, Without

LEMMA WithoutSingletons ==
    /\ \A t : Without(<< >>, t)
    /\ Without(<<InitMsg>>, "game") /\ Without(<<InitMsg>>, "reconnect")
    /\ \A n : /\ Without(<<Ack(n)>>, "game")
              /\ Without(<<Ack(n)>>, "reconnect")
              /\ Without(<<Reconnect(n)>>, "game")
BY DEF Without, InitMsg, Ack, Reconnect

LEMMA WithoutGames ==
    ASSUME NEW s \in Seq(Nat)
    PROVE  Without(AsGames(s), "reconnect")
BY DEF AsGames, Game, Without

\* A sequence of consecutive numbers, as game packets.
LEMMA InOrderGames ==
    ASSUME NEW s \in Seq(Nat), NEW a \in Nat,
           \A i \in DOMAIN s : s[i] = a + i
    PROVE  InOrder(AsGames(s), a, a + Len(s))
<1>1. Len(s) \in Nat /\ DOMAIN s = 1 .. Len(s)
  BY LenProperties
<1>. DEFINE g == AsGames(s)
<1>2. /\ DOMAIN g = 1 .. Len(s)
      /\ \A i \in 1 .. Len(s) : g[i].t = "game" /\ g[i].n = a + i
  BY <1>1 DEF AsGames, Game
<1>. HIDE DEF g
<1>3. \A k \in (a + 1) .. (a + Len(s)) :
         \E i \in DOMAIN g : g[i].t = "game" /\ g[i].n = k
  <2>. TAKE k \in (a + 1) .. (a + Len(s))
  <2>1. k - a \in DOMAIN g /\ g[k - a].t = "game" /\ g[k - a].n = k
    BY <1>1, <1>2
  <2>. QED  BY <2>1
<1>4. \A i, j \in DOMAIN g :
         g[i].t = "game" /\ g[j].t = "game" /\ i < j => g[i].n < g[j].n
  BY <1>1, <1>2
<1>5. \A i \in DOMAIN g : g[i].t = "game" => a < g[i].n /\ g[i].n <= a + Len(s)
  BY <1>1, <1>2
<1>6. a <= a + Len(s)
  BY <1>1
<1>7. InOrder(g, a, a + Len(s))
  BY <1>3, <1>4, <1>5, <1>6, Zenon DEF InOrder
<1>. QED  BY <1>7 DEF g

LEMMA InOrderPackets ==
    ASSUME NEW a \in Nat, NEW b \in Nat, a <= b
    PROVE  InOrder(AsGames(Packets(a, b)), a, b)
<1>. DEFINE s == Packets(a, b)
<1>1. s \in Seq(Nat) /\ Len(s) = b - a /\ \A i \in 1 .. (b - a) : s[i] = a + i
  BY PacketsType
<1>. HIDE DEF s
<1>2. DOMAIN s = 1 .. (b - a)
  BY <1>1, LenProperties
<1>3. a + Len(s) = b
  BY <1>1
<1>4. InOrder(AsGames(s), a, a + Len(s))
  BY <1>1, <1>2, InOrderGames
<1>. QED  BY <1>3, <1>4 DEF s

\* Reading the next message of a stream: a game packet is the next one.
LEMMA InOrderTail ==
    ASSUME NEW s \in Seq(Message), s # << >>, NEW a \in Nat, NEW b \in Nat,
           InOrder(s, a, b)
    PROVE  /\ Head(s).t = "game" => /\ Head(s).n = a + 1
                                    /\ a + 1 <= b
                                    /\ InOrder(Tail(s), a + 1, b)
           /\ Head(s).t # "game" => InOrder(Tail(s), a, b)
<1>. DEFINE r == Tail(s)
<1>1. /\ Head(s) = s[1]
      /\ Len(s) \in Nat \ {0}
      /\ DOMAIN s = 1 .. Len(s)
      /\ DOMAIN r = 1 .. (Len(s) - 1)
      /\ \A i \in 1 .. (Len(s) - 1) : r[i] = s[i + 1]
      /\ \A i \in DOMAIN s : s[i] \in Message
  BY TailFacts
<1>2. \A i \in DOMAIN s : s[i].n \in Nat
  BY <1>1 DEF Message
<1>. HIDE DEF r
<1>3. /\ a <= b
      /\ \A i \in DOMAIN s : s[i].t = "game" => a < s[i].n /\ s[i].n <= b
      /\ \A i, j \in DOMAIN s :
            s[i].t = "game" /\ s[j].t = "game" /\ i < j => s[i].n < s[j].n
      /\ \A k \in (a + 1) .. b :
            \E i \in DOMAIN s : s[i].t = "game" /\ s[i].n = k
  BY Zenon DEF InOrder
<1>4. 1 \in DOMAIN s /\ \A i \in DOMAIN r : i + 1 \in DOMAIN s /\ r[i] = s[i + 1]
  BY <1>1
<1>5. \A i \in DOMAIN s : i # 1 => i - 1 \in DOMAIN r /\ r[i - 1] = s[i]
  <2>. SUFFICES ASSUME NEW i \in DOMAIN s, i # 1
                PROVE  i - 1 \in DOMAIN r /\ r[i - 1] = s[i]
    OBVIOUS
  <2>1. i - 1 \in 1 .. (Len(s) - 1) /\ (i - 1) + 1 = i
    BY <1>1
  <2>. QED  BY <1>1, <2>1
<1>6. \A i, j \in DOMAIN r :
         r[i].t = "game" /\ r[j].t = "game" /\ i < j => r[i].n < r[j].n
  <2>. SUFFICES ASSUME NEW i \in DOMAIN r, NEW j \in DOMAIN r,
                       r[i].t = "game", r[j].t = "game", i < j
                PROVE  r[i].n < r[j].n
    OBVIOUS
  <2>1. i + 1 < j + 1
    BY <1>1
  <2>. QED  BY <1>3, <1>4, <2>1
<1>7. CASE s[1].t = "game"
  <2>1. a < s[1].n /\ s[1].n <= b /\ s[1].n \in Nat
    BY <1>2, <1>3, <1>4, <1>7
  <2>2. PICK i \in DOMAIN s : s[i].t = "game" /\ s[i].n = a + 1
    <3>1. a + 1 \in (a + 1) .. b
      BY <2>1
    <3>. QED  BY <3>1, <1>3
  <2>3. i = 1
    <3>1. SUFFICES ASSUME i # 1 PROVE FALSE
      OBVIOUS
    <3>2. 1 < i
      BY <1>1, <3>1
    <3>3. s[1].n < s[i].n
      BY <1>3, <1>4, <1>7, <2>2, <3>2
    <3>. QED  BY <2>1, <2>2, <3>3
  <2>4. \A j \in DOMAIN r : r[j].t = "game" => a + 1 < r[j].n /\ r[j].n <= b
    <3>. SUFFICES ASSUME NEW j \in DOMAIN r, r[j].t = "game"
                  PROVE  a + 1 < r[j].n /\ r[j].n <= b
      OBVIOUS
    <3>1. 1 < j + 1 /\ j + 1 \in DOMAIN s /\ r[j] = s[j + 1]
      BY <1>1, <1>4
    <3>2. s[1].n < s[j + 1].n
      BY <1>3, <1>4, <1>7, <3>1
    <3>. QED  BY <1>3, <2>2, <2>3, <3>1, <3>2
  <2>5. \A k \in (a + 1 + 1) .. b : \E j \in DOMAIN r : r[j].t = "game" /\ r[j].n = k
    <3>. TAKE k \in (a + 1 + 1) .. b
    <3>1. k \in (a + 1) .. b /\ k # a + 1
      OBVIOUS
    <3>2. PICK j \in DOMAIN s : s[j].t = "game" /\ s[j].n = k
      BY <1>3, <3>1
    <3>3. j # 1
      BY <2>2, <2>3, <3>1, <3>2
    <3>. QED  BY <1>5, <3>2, <3>3
  <2>6. a + 1 <= b
    BY <2>1
  <2>7. InOrder(r, a + 1, b)
    BY <1>6, <2>4, <2>5, <2>6, Zenon DEF InOrder
  <2>. QED  BY <1>1, <1>7, <2>2, <2>3, <2>6, <2>7 DEF r
<1>8. CASE s[1].t # "game"
  <2>1. \A j \in DOMAIN r : r[j].t = "game" => a < r[j].n /\ r[j].n <= b
    BY <1>3, <1>4
  <2>2. \A k \in (a + 1) .. b : \E j \in DOMAIN r : r[j].t = "game" /\ r[j].n = k
    <3>. TAKE k \in (a + 1) .. b
    <3>1. PICK j \in DOMAIN s : s[j].t = "game" /\ s[j].n = k
      BY <1>3
    <3>2. j # 1
      BY <1>8, <3>1
    <3>. QED  BY <1>5, <3>1, <3>2
  <2>3. InOrder(r, a, b)
    BY <1>3, <1>6, <2>1, <2>2, Zenon DEF InOrder
  <2>. QED  BY <1>1, <1>8, <2>3 DEF r
<1>. QED  BY <1>7, <1>8

\* Nothing but the end of the stream is empty.
LEMMA InOrderEmpty ==
    ASSUME NEW a \in Nat, NEW b \in Nat, InOrder(<< >>, a, b)
    PROVE  a = b
<1>1. DOMAIN << >> = {}
  OBVIOUS
<1>2. a <= b /\ \A k \in (a + 1) .. b : FALSE
  BY <1>1 DEF InOrder
<1>3. SUFFICES ASSUME a < b PROVE FALSE
  BY <1>2
<1>4. a + 1 \in (a + 1) .. b
  BY <1>3
<1>. QED  BY <1>2, <1>4

-----------------------------------------------------------------------------
(* The invariant of the two streams.  It follows a connection through its   *)
(* life (unused, listening, posted, the player's own), and says which part  *)
(* of each stream is in flight on the connection that carries it.           *)

\* The packet count in a request over the client's connection is still what
\* the client has received, and nothing has been written to it yet.
Current(c, last) ==
    c = cConn => last = Len(delivered) /\ down[c] = << >> /\ cWaiting

\* Connections are used in order, and the player's is not listened to.
ConnectionsInUse ==
    /\ 1 <= socket /\ socket <= cConn
    /\ socket \notin listening
    /\ \A c \in Conns : c > cConn => up[c] = << >> /\ down[c] = << >>

\* A listening connection holds a request and nothing else.
ListenersWait ==
    \A c \in listening :
        /\ 1 < c /\ c <= cConn
        /\ \E n \in Nat : up[c] = <<Reconnect(n)>> /\ Current(c, n)

\* The request at place i of m_PendingReconnects is the client's own.
Own(i) == pending[i].key = "own"

\* A posted connection is neither the player's nor listened to, and silent.
Posted(request) ==
    /\ 1 < request.conn /\ request.conn <= cConn
    /\ request.conn \notin listening
    /\ request.conn # socket
    /\ up[request.conn] = << >>
    /\ Current(request.conn, request.last)

RequestsWait ==
    /\ \A i \in DOMAIN pending : Own(i) => Posted(pending[i])
    /\ \A i, j \in DOMAIN pending :
          Own(i) /\ Own(j) /\ i # j => pending[i].conn # pending[j].conn

\* The bot writes to the connection the client reads, and it arrives.
Carries == socket = cConn /\ socketUp /\ linkUp[cConn]

\* The client's connection carries the packets a + 1 .. b, which begin after
\* those it has, or after some of those that were never buffered.
Holds(a, b) ==
    /\ InOrder(down[cConn], a, b)
    /\ Len(delivered) <= a /\ b <= totalSent
    /\ Carries => b = totalSent
    /\ a = Len(delivered) \/ (EagerClient /\ Len(delivered) < unbuffered)

Downstream ==
    /\ ReliableOnceLoaded
    /\ NoPacketLost => \E a, b \in Nat : Holds(a, b)

\* A client that waits for a buffered packet loses none.
PatientClient ==
    ~EagerClient =>
        /\ NoPacketLost
        /\ cConn > 1 => gproxy /\ gameLoaded /\ Len(delivered) > unbuffered

\* What the client learns of the packets the bot has received is true, and
\* the answer to its request is current when it reads it.
Answered ==
    /\ Honest(down[cConn], totalReceived)
    /\ cUnqueued <= totalReceived
    /\ \A i \in DOMAIN down[cConn] :
          down[cConn][i].t = "reconnect" =>
              /\ i = 1 /\ cWaiting
              /\ socket = cConn => down[cConn][i].n = totalReceived
    /\ socket = cConn /\ cWaiting => up[cConn] = << >>

\* The client writes to the connection the bot reads, and it arrives.
Listens == socket = cConn /\ ~cWaiting /\ linkUp[cConn]

Upstream ==
    /\ Len(processed) = totalReceived
    /\ ProcessedOnceInOrder
    /\ \E b \in Nat : /\ InOrder(up[socket], totalReceived, b)
                      /\ b <= cSent
                      /\ Listens => b = cSent

StreamInv ==
    /\ ConnectionsInUse
    /\ ListenersWait
    /\ RequestsWait
    /\ Downstream
    /\ PatientClient
    /\ Answered
    /\ Upstream

LEMMA StreamNumbers ==
    ASSUME TypeOK
    PROVE  /\ Conns \subseteq Nat
           /\ socket \in Conns /\ cConn \in Conns
           /\ socket \in Nat /\ cConn \in Nat
           /\ listening \subseteq Conns
           /\ totalSent \in Nat /\ totalReceived \in Nat
           /\ Len(delivered) \in Nat /\ DOMAIN delivered = 1 .. Len(delivered)
           /\ unbuffered \in Nat /\ cSent \in Nat /\ cUnqueued \in Nat
           /\ \A c \in Conns : up[c] \in Seq(Message) /\ down[c] \in Seq(Message)
           /\ up \in [Conns -> Seq(Message)] /\ down \in [Conns -> Seq(Message)]
           /\ pending \in Seq(Request)
           /\ Len(pending) \in Nat /\ DOMAIN pending = 1 .. Len(pending)
           /\ \A i \in DOMAIN pending :
                 /\ pending[i] \in Request
                 /\ pending[i].conn \in Conns /\ pending[i].last \in Nat
<1>1. Conns \subseteq Nat
  BY BoundsAssumption DEF Conns
<1>2. /\ Len(delivered) \in Nat /\ DOMAIN delivered = 1 .. Len(delivered)
      /\ Len(pending) \in Nat /\ DOMAIN pending = 1 .. Len(pending)
  BY LenProperties DEF TypeOK
<1>3. \A i \in DOMAIN pending : pending[i] \in Request
  BY <1>2, ElementOfSeq DEF TypeOK
<1>4. \A i \in DOMAIN pending :
         pending[i].conn \in Conns /\ pending[i].last \in Nat
  BY <1>3 DEF Request
<1>. QED  BY <1>1, <1>2, <1>3, <1>4 DEF TypeOK

-----------------------------------------------------------------------------
(* What a step does to the connections.                                     *)

Connections == ConnectionsInUse /\ ListenersWait /\ RequestsWait

\* Steps that touch the channels of the player's connection only.
LEMMA ConnectionsSocket ==
    ASSUME TypeOK, Connections,
           UNCHANGED <<socket, cConn, listening, pending, delivered, cWaiting>>,
           \A c \in Conns : c # socket => up'[c] = up[c] /\ down'[c] = down[c]
    PROVE  Connections'
<1>1. \A c \in Conns : c > cConn => c # socket
  BY StreamNumbers DEF Connections, ConnectionsInUse
<1>2. ConnectionsInUse'
  BY <1>1 DEF Connections, ConnectionsInUse
<1>3. \A c \in listening : c \in Conns /\ c # socket
  BY StreamNumbers DEF Connections, ConnectionsInUse
<1>4. ListenersWait'
  BY <1>3 DEF Connections, ListenersWait, Current
<1>5. \A i \in DOMAIN pending :
         Own(i) => pending[i].conn \in Conns /\ pending[i].conn # socket
  BY StreamNumbers DEF Connections, RequestsWait, Posted
<1>6. \A i \in DOMAIN pending : Own(i) => Posted(pending[i])'
  BY <1>5 DEF Connections, RequestsWait, Posted, Current
<1>7. RequestsWait'
  BY <1>6 DEF Connections, RequestsWait, Own
<1>. QED  BY <1>2, <1>4, <1>7 DEF Connections

\* A client whose connection has answered is neither listened to nor posted.
LEMMA ClientIsServed ==
    ASSUME TypeOK, Connections, ~cWaiting \/ down[cConn] # << >>
    PROVE  /\ cConn \notin listening
           /\ \A i \in DOMAIN pending : Own(i) => pending[i].conn # cConn
BY DEF Connections, ListenersWait, RequestsWait, Posted, Current

\* Steps of such a client touch the channels of its connection only.
LEMMA ConnectionsClient ==
    ASSUME TypeOK, Connections, ~cWaiting \/ down[cConn] # << >>,
           UNCHANGED <<socket, cConn, listening, pending>>,
           \A c \in Conns : c # cConn => up'[c] = up[c] /\ down'[c] = down[c]
    PROVE  Connections'
<1>1. /\ cConn \notin listening
      /\ \A i \in DOMAIN pending : Own(i) => pending[i].conn # cConn
  BY ClientIsServed
<1>2. ConnectionsInUse'
  BY StreamNumbers DEF Connections, ConnectionsInUse
<1>3. \A c \in listening : c \in Conns /\ c # cConn
  BY <1>1, StreamNumbers
<1>4. ListenersWait'
  BY <1>3 DEF Connections, ListenersWait, Current
<1>5. \A i \in DOMAIN pending :
         Own(i) => pending[i].conn \in Conns /\ pending[i].conn # cConn
  BY <1>1, StreamNumbers
<1>6. \A i \in DOMAIN pending : Own(i) => Posted(pending[i])'
  BY <1>5 DEF Connections, RequestsWait, Posted, Current
<1>7. RequestsWait'
  BY <1>6 DEF Connections, RequestsWait, Own
<1>. QED  BY <1>2, <1>4, <1>7 DEF Connections

\* The sequence r is s without its k-th element, in some order.
Lacks(r, s, k) ==
    \E place \in [DOMAIN r -> DOMAIN s] :
        /\ \A i \in DOMAIN r : r[i] = s[place[i]] /\ place[i] # k
        /\ \A i, j \in DOMAIN r : i # j => place[i] # place[j]

\* A request that is taken out of m_PendingReconnects.
LEMMA ConnectionsFewer ==
    ASSUME TypeOK, Connections,
           UNCHANGED <<socket, cConn, listening, up, down, delivered, cWaiting>>,
           NEW k, Lacks(pending', pending, k)
    PROVE  Connections'
<1>1. ConnectionsInUse' /\ ListenersWait'
  BY DEF Connections, ConnectionsInUse, ListenersWait, Current
<1>2. PICK place \in [DOMAIN pending' -> DOMAIN pending] :
              /\ \A i \in DOMAIN pending' : pending'[i] = pending[place[i]]
              /\ \A i, j \in DOMAIN pending' : i # j => place[i] # place[j]
  BY DEF Lacks
<1>3. \A i \in DOMAIN pending' :
         /\ place[i] \in DOMAIN pending /\ pending'[i] = pending[place[i]]
         /\ pending'[i].key = "own" => Own(place[i])
  BY <1>2 DEF Own
<1>4. \A i \in DOMAIN pending' : Own(i)' => Posted(pending[place[i]])
  BY <1>3 DEF Connections, RequestsWait, Own
<1>5. \A i \in DOMAIN pending' : Own(i)' => Posted(pending[i])'
  BY <1>3, <1>4 DEF Posted, Current
<1>6. \A i, j \in DOMAIN pending' :
         Own(i)' /\ Own(j)' /\ i # j => pending'[i].conn # pending'[j].conn
  BY <1>2, <1>3 DEF Connections, RequestsWait, Own
<1>7. RequestsWait'
  BY <1>5, <1>6 DEF RequestsWait
<1>. QED  BY <1>1, <1>7 DEF Connections

LEMMA RemoveFacts ==
    ASSUME NEW S, NEW s \in Seq(S), NEW k \in DOMAIN s
    PROVE  Lacks(SubSeq(s, 1, k - 1) \o SubSeq(s, k + 1, Len(s)), s, k)
<1>. DEFINE front == SubSeq(s, 1, k - 1)
            back  == SubSeq(s, k + 1, Len(s))
            r     == front \o back
            place == [i \in DOMAIN r |-> IF i < k THEN i ELSE i + 1]
<1>1. /\ Len(s) \in Nat /\ DOMAIN s = 1 .. Len(s) /\ k \in 1 .. Len(s)
      /\ \A j \in 1 .. Len(s) : s[j] \in S
  BY LenProperties, ElementOfSeq
<1>2. /\ front \in Seq(S)
      /\ Len(front) = k - 1
      /\ \A i \in 1 .. k - 1 : front[i] = s[i]
  <2>1. /\ front \in Seq(S)
        /\ Len(front) = IF 1 <= k - 1 THEN k - 1 - 1 + 1 ELSE 0
        /\ \A i \in 1 .. k - 1 - 1 + 1 : front[i] = s[1 + i - 1]
    BY <1>1, SubSeqProperties
  <2>. QED  BY <2>1, <1>1
<1>3. /\ back \in Seq(S)
      /\ Len(back) = Len(s) - k
      /\ \A i \in 1 .. Len(s) - k : back[i] = s[k + i]
  <2>1. /\ back \in Seq(S)
        /\ Len(back) = IF k + 1 <= Len(s) THEN Len(s) - (k + 1) + 1 ELSE 0
        /\ \A i \in 1 .. Len(s) - (k + 1) + 1 : back[i] = s[k + 1 + i - 1]
    BY <1>1, SubSeqProperties
  <2>. QED  BY <2>1, <1>1
<1>. HIDE DEF front, back
<1>4. /\ DOMAIN r = 1 .. (k - 1 + (Len(s) - k))
      /\ \A i \in 1 .. k - 1 : r[i] = front[i]
      /\ \A i \in (k - 1 + 1) .. (k - 1 + (Len(s) - k)) : r[i] = back[i - (k - 1)]
  <2>0. front \in Seq(S) /\ back \in Seq(S)
    BY <1>2, <1>3
  <2>1. /\ DOMAIN (front \o back) = 1 .. (Len(front) + Len(back))
        /\ \A i \in 1 .. Len(front) : (front \o back)[i] = front[i]
        /\ \A i \in (Len(front) + 1) .. (Len(front) + Len(back)) :
              (front \o back)[i] = back[i - Len(front)]
    BY <2>0, ConcatFacts, SMTT(30)
  <2>. QED  BY <2>1, <1>2, <1>3
<1>. HIDE DEF r
<1>5. DOMAIN r = 1 .. (Len(s) - 1)
  BY <1>1, <1>4
<1>6. place \in [DOMAIN r -> DOMAIN s]
  BY <1>1, <1>5
<1>7. \A i \in DOMAIN r : r[i] = s[place[i]] /\ place[i] # k
  <2>. TAKE i \in DOMAIN r
  <2>1. CASE i < k
    BY <2>1, <1>1, <1>2, <1>4, <1>5
  <2>2. CASE ~(i < k)
    <3>1. i - (k - 1) \in 1 .. Len(s) - k /\ k + (i - (k - 1)) = i + 1
      BY <2>2, <1>1, <1>5
    <3>2. r[i] = back[i - (k - 1)]
      <4>1. i \in (k - 1 + 1) .. (k - 1 + (Len(s) - k))
        BY <2>2, <1>1, <1>5
      <4>. QED  BY <4>1, <1>4
    <3>3. r[i] = s[i + 1]
      BY <3>1, <3>2, <1>3
    <3>. QED  BY <2>2, <3>3, <1>1, <1>5
  <2>. QED  BY <2>1, <2>2
<1>8. \A i, j \in DOMAIN r : i # j => place[i] # place[j]
  BY <1>1, <1>5
<1>9. Lacks(r, s, k)
  BY <1>6, <1>7, <1>8 DEF Lacks
<1>. QED  BY <1>9 DEF r, front, back

LEMMA TailLacksHead ==
    ASSUME NEW S, NEW s \in Seq(S), s # << >>
    PROVE  Lacks(Tail(s), s, 1)
<1>. DEFINE place == [i \in DOMAIN Tail(s) |-> i + 1]
<1>1. /\ Len(s) \in Nat /\ DOMAIN s = 1 .. Len(s)
      /\ DOMAIN Tail(s) = 1 .. (Len(s) - 1)
      /\ \A i \in 1 .. (Len(s) - 1) : Tail(s)[i] = s[i + 1]
  BY TailFacts
<1>2. place \in [DOMAIN Tail(s) -> DOMAIN s]
  BY <1>1
<1>3. \A i \in DOMAIN Tail(s) : Tail(s)[i] = s[place[i]] /\ place[i] # 1
  BY <1>1
<1>4. \A i, j \in DOMAIN Tail(s) : i # j => place[i] # place[j]
  BY <1>1
<1>. QED  BY <1>2, <1>3, <1>4 DEF Lacks

\* A connection that is given up while it is listened to.
LEMMA ConnectionsDropListening ==
    ASSUME TypeOK, Connections, NEW c \in Conns, DropListening(c)
    PROVE  Connections'
<1>1. /\ c \in listening /\ c # socket
      /\ listening' = listening \ {c}
      /\ up' = [up EXCEPT ![c] = << >>]
      /\ UNCHANGED <<socket, cConn, pending, down, delivered, cWaiting>>
  BY DEF DropListening, gameVars, clientVars, Connections, ConnectionsInUse
<1>2. /\ \A d \in Conns : d # c => up'[d] = up[d]
      /\ up'[c] = << >>
  BY <1>1, StreamNumbers
<1>3. ConnectionsInUse'
  BY <1>1, <1>2 DEF Connections, ConnectionsInUse
<1>4. ListenersWait'
  BY <1>1, <1>2, StreamNumbers DEF Connections, ListenersWait, Current
<1>5. \A i \in DOMAIN pending : Own(i) => Posted(pending[i])'
  BY <1>1, <1>2, StreamNumbers DEF Connections, RequestsWait, Posted, Current
<1>6. RequestsWait'
  BY <1>1, <1>5 DEF Connections, RequestsWait, Own
<1>. QED  BY <1>3, <1>4, <1>6 DEF Connections

\* A request that is read from a connection and posted.
LEMMA ConnectionsPost ==
    ASSUME TypeOK, Connections, NEW c \in Conns, PostReconnect(c)
    PROVE  Connections'
<1>. DEFINE request == [conn |-> c, key |-> "own", last |-> Head(up[c]).n]
<1>1. /\ c \in listening /\ c # socket
      /\ listening' = listening \ {c}
      /\ up' = [up EXCEPT ![c] = Tail(@)]
      /\ pending' = Append(pending, request)
      /\ UNCHANGED <<socket, cConn, down, delivered, cWaiting>>
  BY DEF PostReconnect, gameVars, clientVars, Connections, ConnectionsInUse
<1>2. PICK n \in Nat : up[c] = <<Reconnect(n)>> /\ Current(c, n)
  BY <1>1 DEF Connections, ListenersWait
<1>3. Head(up[c]).n = n /\ Tail(up[c]) = << >>
  BY <1>2 DEF Reconnect
<1>4. /\ \A d \in Conns : d # c => up'[d] = up[d]
      /\ up'[c] = << >>
  BY <1>1, <1>3, StreamNumbers
<1>5. request.conn = c /\ request.last = n /\ request.key = "own"
  BY <1>3
<1>6. request \in Request
  BY <1>5, <1>3 DEF Request
<1>. HIDE DEF request
<1>7. /\ DOMAIN pending' = 1 .. Len(pending) + 1
      /\ \A i \in DOMAIN pending : pending'[i] = pending[i]
      /\ pending'[Len(pending) + 1] = request
  <2>1. /\ Append(pending, request) \in Seq(Request)
        /\ Len(Append(pending, request)) = Len(pending) + 1
        /\ \A i \in 1 .. Len(pending) : Append(pending, request)[i] = pending[i]
        /\ Append(pending, request)[Len(pending) + 1] = request
    BY <1>6, StreamNumbers, AppendProperties
  <2>. QED  BY <1>1, <2>1, LenProperties, StreamNumbers
<1>8. ConnectionsInUse'
  BY <1>1, <1>4 DEF Connections, ConnectionsInUse
<1>9. ListenersWait'
  BY <1>1, <1>4, StreamNumbers DEF Connections, ListenersWait, Current
<1>10. \A i \in DOMAIN pending' :
          i \in DOMAIN pending \/ i = Len(pending) + 1
  BY <1>7, StreamNumbers
<1>11. \A i \in DOMAIN pending : Own(i) => pending[i].conn # c
  BY <1>1 DEF Connections, RequestsWait, Posted
<1>12. \A i \in DOMAIN pending : Own(i) => Posted(pending[i])'
  BY <1>1, <1>4, <1>7, <1>11, StreamNumbers
  DEF Connections, RequestsWait, Posted, Current
<1>13. \A i \in DOMAIN pending' : i = Len(pending) + 1 => Posted(pending[i])'
  <2>1. 1 < c /\ c <= cConn
    BY <1>1 DEF Connections, ListenersWait
  <2>2. Current(c, n)'
    BY <1>1, <1>2 DEF Current
  <2>. QED  BY <1>1, <1>4, <1>5, <1>7, <2>1, <2>2 DEF Posted
<1>14. \A i \in DOMAIN pending' : Own(i)' => Posted(pending[i])'
  BY <1>7, <1>10, <1>12, <1>13 DEF Own
<1>15. \A i, j \in DOMAIN pending' :
          Own(i)' /\ Own(j)' /\ i # j => pending'[i].conn # pending'[j].conn
  BY <1>5, <1>7, <1>10, <1>11 DEF Connections, RequestsWait, Own
<1>. QED  BY <1>8, <1>9, <1>14, <1>15 DEF Connections, RequestsWait

\* The client opens its next connection.
LEMMA ConnectionsReconnect ==
    ASSUME TypeOK, Connections, ClientReconnect
    PROVE  Connections'
<1>1. /\ cConn' = cConn + 1 /\ cConn + 1 \in Conns
      /\ cWaiting' = TRUE
      /\ listening' = listening \cup {cConn + 1}
      /\ up' = [up EXCEPT ![cConn + 1] = <<Reconnect(Len(delivered))>>]
      /\ down' = [down EXCEPT ![cConn] = << >>]
      /\ UNCHANGED <<socket, pending, delivered>>
  <2>1. cConn + 1 \in Conns
    BY BoundsAssumption DEF ClientReconnect, TypeOK, Conns
  <2>. QED  BY <2>1 DEF ClientReconnect, gameVars
<1>2. /\ \A c \in Conns : c # cConn + 1 => up'[c] = up[c]
      /\ \A c \in Conns : c # cConn => down'[c] = down[c]
      /\ up'[cConn + 1] = <<Reconnect(Len(delivered))>>
      /\ down'[cConn + 1] = << >>
  <2>1. down[cConn + 1] = << >> /\ cConn + 1 # cConn
    BY <1>1, StreamNumbers DEF Connections, ConnectionsInUse
  <2>. QED  BY <1>1, <2>1, StreamNumbers
<1>3. ConnectionsInUse'
  <2>1. /\ 1 <= socket /\ socket <= cConn + 1
        /\ socket # cConn + 1 /\ socket \notin listening
    BY StreamNumbers DEF Connections, ConnectionsInUse
  <2>2. \A c \in Conns : c > cConn + 1 =>
              c # cConn + 1 /\ c # cConn /\ up[c] = << >> /\ down[c] = << >>
    BY StreamNumbers DEF Connections, ConnectionsInUse
  <2>. QED  BY <1>1, <1>2, <2>1, <2>2 DEF ConnectionsInUse
<1>4. \A c \in listening : c \in Conns /\ 1 < c /\ c <= cConn
  BY StreamNumbers DEF Connections, ListenersWait
<1>5. \A c \in listening : \E n \in Nat : up'[c] = <<Reconnect(n)>> /\ Current(c, n)'
  <2>. TAKE c \in listening
  <2>1. PICK n \in Nat : up[c] = <<Reconnect(n)>>
    BY DEF Connections, ListenersWait
  <2>2. c # cConn + 1
    BY <1>4, StreamNumbers
  <2>. QED  BY <1>1, <1>2, <1>4, <2>1, <2>2 DEF Current
<1>6. ListenersWait'
  <2>2. 1 < cConn + 1 /\ cConn + 1 <= cConn + 1 /\ Len(delivered) \in Nat
    BY StreamNumbers DEF Connections, ConnectionsInUse
  <2>3. \A c \in listening : c <= cConn + 1
    BY <1>4, StreamNumbers
  <2>4. \A c \in listening \cup {cConn + 1} :
           /\ 1 < c /\ c <= cConn + 1
           /\ \E n \in Nat : up'[c] = <<Reconnect(n)>> /\ Current(c, n)'
    <3>. TAKE c \in listening \cup {cConn + 1}
    <3>1. CASE c \in listening
      BY <3>1, <1>4, <1>5, <2>3
    <3>2. CASE c = cConn + 1
      <4>1. PICK n \in Nat : n = Len(delivered)
        BY <2>2
      <4>2. up'[c] = <<Reconnect(n)>> /\ Current(c, n)'
        BY <3>2, <4>1, <1>1, <1>2 DEF Current
      <4>. QED  BY <3>2, <2>2, <4>2
    <3>. QED  BY <3>1, <3>2
  <2>. QED  BY <1>1, <2>4 DEF ListenersWait
<1>7. \A i \in DOMAIN pending : Own(i) => Posted(pending[i])'
  <2>. SUFFICES ASSUME NEW i \in DOMAIN pending, Own(i)
                PROVE  Posted(pending[i])'
    OBVIOUS
  <2>1. /\ 1 < pending[i].conn /\ pending[i].conn <= cConn
        /\ pending[i].conn \notin listening
        /\ pending[i].conn # socket
        /\ up[pending[i].conn] = << >>
        /\ pending[i].conn \in Conns
    BY StreamNumbers DEF Connections, RequestsWait, Posted
  <2>2. pending[i].conn # cConn + 1 /\ pending[i].conn <= cConn + 1
    <3>1. pending[i].conn \in Nat /\ cConn \in Nat
      BY <2>1, StreamNumbers
    <3>. QED  BY <2>1, <3>1
  <2>. QED  BY <1>1, <1>2, <2>1, <2>2 DEF Posted, Current
<1>8. RequestsWait'
  BY <1>1, <1>7 DEF Connections, RequestsWait, Own
<1>. QED  BY <1>3, <1>6, <1>8 DEF Connections

\* The player is given the connection of a posted request.
LEMMA ConnectionsHandle ==
    ASSUME TypeOK, Connections, NEW i \in DOMAIN pending, HandleReconnect(i)
    PROVE  Connections'
<1>. DEFINE c == pending[i].conn
<1>1. /\ Own(i)
      /\ socket' = c
      /\ up' = [up EXCEPT ![socket] = << >>]
      /\ \A d \in Conns : d # c => down'[d] = down[d]
      /\ pending' = SubSeq(pending, 1, i - 1)
                    \o SubSeq(pending, i + 1, Len(pending))
      /\ UNCHANGED <<cConn, listening, delivered, cWaiting>>
  <2>. DEFINE kept == Append(Unqueue(pending[i].last), totalSent + 1)
  <2>1. down' = [down EXCEPT ![c] =
                    @ \o <<Reconnect(totalReceived)>> \o AsGames(kept)]
    BY DEF HandleReconnect
  <2>. HIDE DEF kept
  <2>2. \A d \in Conns : d # c => down'[d] = down[d]
    BY <2>1, StreamNumbers
  <2>. QED  BY <2>2 DEF HandleReconnect, IsForUs, Own, clientVars
<1>2. c \in Conns /\ c \in Nat /\ Posted(pending[i])
  BY <1>1, StreamNumbers DEF Connections, RequestsWait
<1>3. /\ \A d \in Conns : d # socket => up'[d] = up[d]
      /\ up'[socket] = << >>
  BY <1>1, StreamNumbers
<1>4. ConnectionsInUse'
  <2>1. \A d \in Conns : d > cConn => d # c /\ d # socket
    <3>1. Conns \subseteq Nat /\ cConn \in Nat /\ socket \in Nat
      BY StreamNumbers
    <3>2. socket <= cConn /\ c <= cConn /\ c \in Nat
      BY <1>2 DEF Posted, Connections, ConnectionsInUse
    <3>. HIDE DEF c
    <3>. QED  BY <3>1, <3>2
  <2>2. 1 <= c /\ c <= cConn /\ c \notin listening
    BY <1>2 DEF Posted
  <2>. QED  BY <1>1, <1>3, <2>1, <2>2 DEF Connections, ConnectionsInUse
<1>5. \A d \in listening : d \in Conns /\ d # c /\ d # socket
  BY <1>2, StreamNumbers DEF Connections, ConnectionsInUse, Posted
<1>6. ListenersWait'
  BY <1>1, <1>3, <1>5 DEF Connections, ListenersWait, Current
<1>7. PICK place \in [DOMAIN pending' -> DOMAIN pending] :
         /\ \A j \in DOMAIN pending' :
               pending'[j] = pending[place[j]] /\ place[j] # i
         /\ \A j, k \in DOMAIN pending' : j # k => place[j] # place[k]
  <2>1. pending \in Seq(Request)
    BY StreamNumbers
  <2>2. Lacks(pending', pending, i)
    BY <1>1, <2>1, RemoveFacts
  <2>. QED  BY <2>2 DEF Lacks
<1>8. \A j \in DOMAIN pending' :
         Own(j)' => /\ place[j] \in DOMAIN pending /\ Own(place[j])
                    /\ pending'[j] = pending[place[j]]
                    /\ pending'[j].conn # c /\ pending'[j].conn \in Conns
                    /\ Posted(pending'[j])
  <2>. SUFFICES ASSUME NEW j \in DOMAIN pending', Own(j)'
                PROVE  /\ place[j] \in DOMAIN pending /\ Own(place[j])
                       /\ pending'[j] = pending[place[j]]
                       /\ pending'[j].conn # c /\ pending'[j].conn \in Conns
                       /\ Posted(pending'[j])
    OBVIOUS
  <2>1. place[j] \in DOMAIN pending /\ pending'[j] = pending[place[j]]
        /\ place[j] # i /\ Own(place[j])
    BY <1>7 DEF Own
  <2>2. pending[place[j]].conn # c
    BY <1>1, <2>1 DEF Connections, RequestsWait
  <2>3. Posted(pending[place[j]]) /\ pending[place[j]].conn \in Conns
    BY <2>1, StreamNumbers DEF Connections, RequestsWait
  <2>. QED  BY <2>1, <2>2, <2>3
<1>9. \A j \in DOMAIN pending' : Own(j)' => Posted(pending[j])'
  BY <1>1, <1>3, <1>8 DEF Posted, Current
<1>10. \A j, k \in DOMAIN pending' :
          Own(j)' /\ Own(k)' /\ j # k => pending'[j].conn # pending'[k].conn
  BY <1>7, <1>8 DEF Connections, RequestsWait
<1>. QED  BY <1>4, <1>6, <1>9, <1>10 DEF Connections, RequestsWait

\* A request of somebody else is posted: the client's are as they were.
LEMMA ConnectionsStranger ==
    ASSUME TypeOK, Connections, NEW last \in Strangers, StrangerReconnects(last)
    PROVE  Connections'
<1>. DEFINE request == [conn |-> Stranger, key |-> "other", last |-> last]
<1>1. /\ pending' = Append(pending, request)
      /\ UNCHANGED <<socket, cConn, listening, up, down, delivered, cWaiting>>
  BY DEF StrangerReconnects, gameVars, netVars, clientVars
<1>2. request.key # "own"
  OBVIOUS
<1>. HIDE DEF request
<1>3. /\ Len(pending) \in Nat /\ DOMAIN pending = 1 .. Len(pending)
      /\ DOMAIN pending' = 1 .. (Len(pending) + 1)
      /\ \A i \in DOMAIN pending : pending'[i] = pending[i]
      /\ pending'[Len(pending) + 1] = request
  BY <1>1, StreamNumbers
<1>4. \A i \in DOMAIN pending' :
         Own(i)' => i \in DOMAIN pending /\ Own(i) /\ pending'[i] = pending[i]
  BY <1>2, <1>3 DEF Own
<1>5. ConnectionsInUse' /\ ListenersWait'
  BY <1>1 DEF Connections, ConnectionsInUse, ListenersWait, Current
<1>6. \A i \in DOMAIN pending' : Own(i)' => Posted(pending[i])'
  BY <1>1, <1>4 DEF Connections, RequestsWait, Posted, Current
<1>7. \A i, j \in DOMAIN pending' :
         Own(i)' /\ Own(j)' /\ i # j => pending'[i].conn # pending'[j].conn
  BY <1>4 DEF Connections, RequestsWait
<1>. QED  BY <1>5, <1>6, <1>7 DEF Connections, RequestsWait

-----------------------------------------------------------------------------
(* What a step does to the packets on their way to the client.              *)

\* Nothing is delivered: what was lost is still lost.
LEMMA ReliableFrame ==
    ASSUME TypeOK, ReliableOnceLoaded, UNCHANGED delivered,
           unbuffered' \in Nat, unbuffered <= unbuffered'
    PROVE  ReliableOnceLoaded' /\ (NoPacketLost' <=> NoPacketLost)
<1>1. NoPacketLost' <=> NoPacketLost
  BY DEF NoPacketLost
<1>2. EarlyPacketsIntact' => EarlyPacketsIntact
  BY StreamNumbers DEF EarlyPacketsIntact
<1>. QED  BY <1>1, <1>2 DEF ReliableOnceLoaded

LEMMA DownstreamFrame ==
    ASSUME TypeOK, Downstream,
           UNCHANGED <<delivered, totalSent, unbuffered, cConn>>,
           down'[cConn] = down[cConn], Carries' => Carries
    PROVE  Downstream'
<1>1. ReliableOnceLoaded' /\ (NoPacketLost' <=> NoPacketLost)
  BY DEF Downstream, ReliableOnceLoaded, NoPacketLost, EarlyPacketsIntact
<1>2. \A a, b \in Nat : Holds(a, b) => Holds(a, b)'
  BY DEF Holds
<1>. QED  BY <1>1, <1>2 DEF Downstream

\* Messages are written that carry on the stream, from totalSent on.
LEMMA DownstreamWrite ==
    ASSUME TypeOK, Downstream, UNCHANGED <<delivered, cConn>>,
           unbuffered' \in Nat, unbuffered <= unbuffered',
           totalSent' \in Nat, totalSent <= totalSent',
           Carries' => Carries,
           NEW messages \in Seq(Message),
           InOrder(messages, totalSent, totalSent'),
           down' = Written(messages)
    PROVE  Downstream'
<1>1. ReliableOnceLoaded' /\ (NoPacketLost' <=> NoPacketLost)
  BY ReliableFrame DEF Downstream
<1>0. /\ totalSent \in Nat /\ unbuffered \in Nat /\ Len(delivered) \in Nat
      /\ down[cConn] \in Seq(Message)
  BY StreamNumbers
<1>2. ASSUME NEW a \in Nat, NEW b \in Nat, Holds(a, b)
      PROVE  \E c \in Nat : Holds(a, c)'
  <2>1. /\ InOrder(down[cConn], a, b)
        /\ Len(delivered) <= a /\ b <= totalSent
        /\ Carries => b = totalSent
        /\ a = Len(delivered) \/ (EagerClient /\ Len(delivered) < unbuffered)
    BY <1>2 DEF Holds
  <2>2. a = Len(delivered) \/ (EagerClient /\ Len(delivered) < unbuffered')
    BY <1>0, <2>1
  <2>3. CASE Carries
    <3>1. down'[cConn] = down[cConn] \o messages
      BY <2>3, StreamNumbers DEF Carries, Written
    <3>2. PICK c \in Nat : c = totalSent'
      OBVIOUS
    <3>3. InOrder(down'[cConn], a, c)
      BY <1>0, <2>1, <2>3, <3>1, <3>2, InOrderConcat
    <3>4. Holds(a, c)'
      BY <2>1, <2>2, <3>2, <3>3 DEF Holds
    <3>. QED  BY <3>4
  <2>4. CASE ~Carries
    <3>1. down'[cConn] = down[cConn]
      BY <2>4, StreamNumbers DEF Carries, Written
    <3>2. b <= totalSent'
      BY <1>0, <2>1
    <3>3. Holds(a, b)'
      BY <2>1, <2>2, <2>4, <3>1, <3>2 DEF Holds
    <3>. QED  BY <3>3
  <2>. QED  BY <2>3, <2>4
<1>. QED  BY <1>1, <1>2 DEF Downstream

\* CGamePlayer::Send.
LEMMA DownstreamSend ==
    ASSUME TypeOK, Downstream, NEW k \in Nat, SendPackets(k),
           UNCHANGED <<delivered, cConn>>, Carries' => Carries
    PROVE  Downstream'
<1>. DEFINE new == Packets(totalSent, totalSent + k)
<1>1. totalSent \in Nat /\ unbuffered \in Nat
  BY StreamNumbers
<1>2. totalSent' = totalSent + k /\ down' = Written(AsGames(new))
  BY DEF SendPackets
<1>3. totalSent' \in Nat /\ totalSent <= totalSent'
  BY <1>1, <1>2
<1>4. unbuffered' \in Nat /\ unbuffered <= unbuffered'
  <2>1. unbuffered' = unbuffered \/ unbuffered' = unbuffered + k
    BY DEF SendPackets
  <2>. QED  BY <1>1, <2>1
<1>5. new = Packets(totalSent, totalSent')
  BY <1>2
<1>. HIDE DEF new
<1>6. AsGames(new) \in Seq(Message) /\ InOrder(AsGames(new), totalSent, totalSent')
  BY <1>1, <1>3, <1>5, InOrderPackets, PacketsSeq, AsGamesType
<1>. QED  BY <1>2, <1>3, <1>4, <1>6, DownstreamWrite

\* GPS_INIT and GPS_ACK are no part of the stream.
LEMMA DownstreamControl ==
    ASSUME TypeOK, Downstream, NEW messages \in Seq(Message),
           Without(messages, "game"), down' = Written(messages),
           UNCHANGED <<delivered, totalSent, unbuffered, cConn, socket, socketUp,
                       linkUp>>
    PROVE  Downstream'
<1>1. totalSent \in Nat /\ unbuffered \in Nat
  BY StreamNumbers
<1>2. InOrder(messages, totalSent, totalSent)
  BY <1>1, InOrderControl
<1>3. Carries' => Carries
  BY DEF Carries
<1>4. unbuffered <= unbuffered' /\ totalSent <= totalSent'
  BY <1>1
<1>. QED  BY <1>1, <1>2, <1>3, <1>4, DownstreamWrite

\* The client reads: the next packet it has is the next of the stream, or the
\* stream had lost one that was never buffered.
LEMMA DownstreamReceive ==
    ASSUME TypeOK, TypeOK', Downstream, ClientReceive
    PROVE  /\ Downstream'
           /\ NoPacketLost /\ ~EagerClient => NoPacketLost'
           /\ \/ delivered' = delivered
              \/ NoPacketLost => \/ ~NoPacketLost' /\ EagerClient
                                 \/ /\ delivered' = Append(delivered, Len(delivered) + 1)
                                    /\ Len(delivered) < totalSent
<1>. DEFINE m == Head(down[cConn])
<1>1. /\ down[cConn] # << >> /\ down[cConn] \in Seq(Message)
      /\ down'[cConn] = Tail(down[cConn])
      /\ delivered' = IF m.t = "game" THEN Append(delivered, m.n) ELSE delivered
      /\ UNCHANGED <<totalSent, unbuffered, cConn, socket, socketUp, linkUp>>
  BY StreamNumbers DEF ClientReceive, gameVars, histVars
<1>2. Carries' <=> Carries
  BY <1>1 DEF Carries
<1>3. CASE m.t # "game"
  <2>1. delivered' = delivered
    BY <1>1, <1>3
  <2>2. ReliableOnceLoaded' /\ (NoPacketLost' <=> NoPacketLost)
    BY <1>1, <2>1 DEF Downstream, ReliableOnceLoaded, NoPacketLost,
                      EarlyPacketsIntact
  <2>3. ASSUME NEW a \in Nat, NEW b \in Nat, Holds(a, b)
        PROVE  Holds(a, b)'
    <3>1. InOrder(down'[cConn], a, b)
      BY <1>1, <1>3, <2>3, InOrderTail DEF Holds
    <3>. QED  BY <1>1, <1>2, <2>1, <2>3, <3>1 DEF Holds
  <2>. QED  BY <2>1, <2>2, <2>3 DEF Downstream
<1>4. CASE m.t = "game"
  <2>. DEFINE n == Len(delivered)
  <2>1. /\ m.n \in Nat /\ n \in Nat /\ unbuffered \in Nat /\ totalSent \in Nat
        /\ DOMAIN delivered = 1 .. n
        /\ delivered' = Append(delivered, m.n)
    BY <1>1, <1>4, StreamNumbers, HeadTailType
  <2>2. /\ Len(delivered') = n + 1 /\ DOMAIN delivered' = 1 .. (n + 1)
        /\ \A k \in 1 .. n : delivered'[k] = delivered[k]
        /\ delivered'[n + 1] = m.n
    BY <2>1, AppendProperties, LenProperties DEF TypeOK
  <2>. HIDE DEF n, m
  <2>3. CASE ~NoPacketLost
    <3>1. ~NoPacketLost'
      BY <2>1, <2>2, <2>3 DEF NoPacketLost
    <3>2. ~EarlyPacketsIntact
      BY <2>3 DEF Downstream, ReliableOnceLoaded
    <3>3. ~EarlyPacketsIntact'
      BY <1>1, <2>1, <2>2, <3>2 DEF EarlyPacketsIntact
    <3>. QED  BY <2>3, <3>1, <3>3 DEF Downstream, ReliableOnceLoaded
  <2>4. CASE NoPacketLost
    <3>1. PICK a \in Nat, b \in Nat : Holds(a, b)
      BY <2>4 DEF Downstream
    <3>2. /\ InOrder(down[cConn], a, b)
          /\ n <= a /\ b <= totalSent
          /\ Carries => b = totalSent
          /\ a = n \/ (EagerClient /\ n < unbuffered)
      BY <3>1 DEF Holds, n
    <3>3. /\ m.n = a + 1 /\ a + 1 <= b
          /\ InOrder(down'[cConn], a + 1, b)
      BY <1>1, <1>4, <3>2, InOrderTail DEF m
    <3>4. CASE a = n
      <4>1. NoPacketLost'
        BY <2>1, <2>2, <2>4, <3>3, <3>4 DEF NoPacketLost
      <4>2. Holds(a + 1, b)'
        BY <1>1, <1>2, <2>2, <3>2, <3>3, <3>4 DEF Holds
      <4>3. Downstream'
        BY <4>1, <4>2 DEF Downstream, ReliableOnceLoaded
      <4>4. delivered' = Append(delivered, n + 1) /\ n < totalSent
        BY <2>1, <3>2, <3>3, <3>4
      <4>. QED  BY <4>1, <4>3, <4>4 DEF n
    <3>5. CASE a # n
      <4>1. EagerClient /\ n + 1 <= unbuffered /\ m.n # n + 1
        BY <2>1, <3>2, <3>3, <3>5
      <4>2. n + 1 \in DOMAIN delivered'
        BY <2>1, <2>2
      <4>3. ~EarlyPacketsIntact' /\ ~NoPacketLost'
        BY <1>1, <2>2, <4>1, <4>2 DEF EarlyPacketsIntact, NoPacketLost
      <4>. QED  BY <4>1, <4>3 DEF Downstream, ReliableOnceLoaded
    <3>. QED  BY <3>4, <3>5
  <2>. QED  BY <2>3, <2>4
<1>. QED  BY <1>3, <1>4

\* A new connection is empty, and not the player's yet.
LEMMA DownstreamReconnect ==
    ASSUME TypeOK, Connections, Downstream, ClientReconnect
    PROVE  Downstream'
<1>1. /\ cConn' = cConn + 1 /\ cConn + 1 \in Conns
      /\ down' = [down EXCEPT ![cConn] = << >>]
      /\ UNCHANGED <<socket, totalSent, unbuffered, delivered>>
  <2>1. cConn + 1 \in Conns
    BY BoundsAssumption DEF ClientReconnect, TypeOK, Conns
  <2>. QED  BY <2>1 DEF ClientReconnect, gameVars, histVars
<1>2. down'[cConn'] = << >>
  BY <1>1, StreamNumbers DEF Connections, ConnectionsInUse
<1>3. ~Carries'
  BY <1>1, StreamNumbers DEF Carries, Connections, ConnectionsInUse
<1>4. ReliableOnceLoaded' /\ (NoPacketLost' <=> NoPacketLost)
  BY <1>1, StreamNumbers, ReliableFrame DEF Downstream
<1>5. ASSUME NEW a \in Nat, NEW b \in Nat, Holds(a, b)
      PROVE  \E n \in Nat : Holds(n, n)'
  <2>1. PICK n \in Nat : n = Len(delivered)
    BY StreamNumbers
  <2>2. Len(delivered) <= totalSent
    <3>1. Len(delivered) <= a /\ a <= b /\ b <= totalSent
      BY <1>5 DEF Holds, InOrder
    <3>. QED  BY <3>1, StreamNumbers
  <2>3. InOrder(<< >>, n, n)
    BY WithoutSingletons, InOrderControl
  <2>4. Holds(n, n)'
    BY <1>1, <1>2, <1>3, <2>1, <2>2, <2>3 DEF Holds
  <2>. QED  BY <2>4
<1>. QED  BY <1>4, <1>5 DEF Downstream

\* An acknowledgement leaves exactly what follows it, if it is in the buffer.
LEMMA UnqueueExact ==
    ASSUME TypeOK, BufferFacts, NEW last \in Nat
    PROVE  /\ last <= Unqueued => Unqueue(last) = buffer
           /\ last >= Unqueued /\ last <= totalSent
                => totalSent - Len(Unqueue(last)) = last
<1>1. /\ Len(buffer) \in Nat /\ DOMAIN buffer = 1 .. Len(buffer)
      /\ Unqueued \in Nat /\ Unqueued = totalSent - Len(buffer)
      /\ totalSent \in Nat
  BY BufferNumbers DEF BufferFacts, TypeOK
<1>2. last <= Unqueued => ~(last > Unqueued)
  BY <1>1
<1>3. last <= Unqueued => Unqueue(last) = buffer
  BY <1>2, Zenon DEF Unqueue
<1>4. ASSUME last > Unqueued, last <= totalSent
      PROVE  totalSent - Len(Unqueue(last)) = last
  <2>. DEFINE many == last - Unqueued
              rest == SubSeq(buffer, many + 1, Len(buffer))
  <2>1. many \in Nat /\ many <= Len(buffer)
    BY <1>1, <1>4
  <2>2. Unqueue(last) = rest
    <3>1. ~(last - Unqueued > Len(buffer))
      BY <1>1, <2>1
    <3>. QED  BY <1>4, <3>1, Zenon DEF Unqueue
  <2>. HIDE DEF many, rest
  <2>3. Len(rest) = Len(buffer) - many
    <3>1. /\ many + 1 \in Int /\ Len(buffer) \in Int
          /\ \A i \in many + 1 .. Len(buffer) : buffer[i] \in Nat
      BY <1>1, <2>1, ElementOfSeq DEF TypeOK
    <3>2. /\ rest \in Seq(Nat)
          /\ Len(rest) = IF many + 1 <= Len(buffer)
                         THEN Len(buffer) - (many + 1) + 1 ELSE 0
      BY <3>1, SubSeqProperties DEF rest
    <3>3. Len(rest) \in Nat
      BY <3>2, LenProperties
    <3>4. Len(buffer) \in Nat
      BY <1>1
    <3>5. Len(rest) = IF many + 1 <= Len(buffer)
                      THEN Len(buffer) - (many + 1) + 1 ELSE 0
      BY <3>2
    <3>. QED  BY <3>3, <3>4, <3>5, <2>1
  <2>. QED  BY <1>1, <2>1, <2>2, <2>3 DEF many
<1>5. ASSUME last = Unqueued
      PROVE  totalSent - Len(Unqueue(last)) = last
  BY <1>1, <1>3, <1>5
<1>. QED  BY <1>1, <1>3, <1>4, <1>5

\* EventGProxyReconnect: what follows the packets the client has is sent once
\* more, or the bot never had some of it.
LEMMA DownstreamHandle ==
    ASSUME TypeOK, BufferFacts, Connections, Downstream, PatientClient,
           NEW i \in DOMAIN pending, HandleReconnect(i)
    PROVE  Downstream'
<1>. DEFINE c    == pending[i].conn
            last == pending[i].last
            rest == Unqueue(last)
            kept == Append(rest, totalSent + 1)
            from == totalSent - Len(rest)
            n    == Len(delivered)
<1>1. /\ down' = [down EXCEPT ![c] = @ \o <<Reconnect(totalReceived)>>
                                       \o AsGames(kept)]
      /\ totalSent' = totalSent + 1
      /\ socket' = c
      /\ UNCHANGED <<cConn, delivered, unbuffered>>
      /\ Own(i)
  BY DEF HandleReconnect, IsForUs, Own, clientVars, histVars
<1>2. /\ c \in Conns /\ last \in Nat /\ Posted(pending[i])
      /\ totalSent \in Nat /\ totalReceived \in Nat /\ n \in Nat
      /\ unbuffered \in Nat /\ cConn \in Nat
  BY <1>1, StreamNumbers DEF Connections, RequestsWait
<1>3. ReliableOnceLoaded' /\ (NoPacketLost' <=> NoPacketLost)
  BY <1>1, <1>2, ReliableFrame DEF Downstream
<1>4. CASE c # cConn
  <2>1. down'[cConn'] = down[cConn] /\ ~Carries'
    BY <1>1, <1>4, StreamNumbers DEF Carries
  <2>2. ASSUME NEW a \in Nat, NEW b \in Nat, Holds(a, b)
        PROVE  Holds(a, b)'
    <3>1. b <= totalSent + 1
      BY <1>2, <2>2 DEF Holds
    <3>. QED  BY <1>1, <2>1, <2>2, <3>1 DEF Holds
  <2>. QED  BY <1>3, <2>2 DEF Downstream
<1>5. CASE c = cConn
  <2>1. last = n /\ down[c] = << >> /\ cConn > 1
    BY <1>2, <1>5 DEF Posted, Current
  <2>2. /\ Len(buffer) \in Nat /\ Unqueued \in Nat
        /\ Unqueued = totalSent - Len(buffer)
        /\ rest \in Seq(Nat)
        /\ Len(rest) <= Len(buffer)
        /\ \A j \in DOMAIN rest : rest[j] = from + j
    <3>1. /\ Len(buffer) \in Nat /\ Unqueued \in Nat
          /\ Unqueued = totalSent - Len(buffer)
      BY BufferNumbers DEF BufferFacts
    <3>2. buffer \in Seq(Nat) /\ \A j \in DOMAIN buffer : buffer[j] = Unqueued + j
      BY DEF BufferFacts, BufferIsTheTail, TypeOK
    <3>. QED  BY <1>2, <3>1, <3>2, UnqueueProperties
  <2>. HIDE DEF rest
  <2>3. Len(rest) \in Nat /\ DOMAIN rest = 1 .. Len(rest) /\ from \in Nat
    BY <1>2, <2>2, LenProperties
  <2>4. /\ kept \in Seq(Nat)
        /\ Len(kept) = Len(rest) + 1
        /\ DOMAIN kept = 1 .. (Len(rest) + 1)
        /\ \A j \in 1 .. Len(rest) : kept[j] = rest[j]
        /\ kept[Len(rest) + 1] = totalSent + 1
    BY <1>2, <2>2, AppendProperties, LenProperties
  <2>. HIDE DEF kept
  <2>5. InOrder(AsGames(kept), from, totalSent + 1)
    <3>1. \A j \in DOMAIN kept : kept[j] = from + j
      <4>. TAKE j \in DOMAIN kept
      <4>1. CASE j \in 1 .. Len(rest)
        BY <4>1, <2>2, <2>3, <2>4
      <4>2. CASE j = Len(rest) + 1
        BY <4>2, <1>2, <2>3, <2>4
      <4>. QED  BY <4>1, <4>2, <2>3, <2>4
    <3>2. from + Len(kept) = totalSent + 1
      BY <1>2, <2>3, <2>4
    <3>3. InOrder(AsGames(kept), from, from + Len(kept))
      BY <2>3, <2>4, <3>1, InOrderGames
    <3>. QED  BY <3>2, <3>3
  <2>6. InOrder(down'[cConn], from, totalSent + 1)
    <3>. DEFINE answer == <<Reconnect(totalReceived)>>
    <3>1. answer \in Seq(Message) /\ AsGames(kept) \in Seq(Message)
      BY <1>2, <2>4, MessageTypes, AsGamesType
    <3>2. InOrder(answer, from, from)
      BY <2>3, WithoutSingletons, InOrderControl
    <3>3. down'[cConn] = answer \o AsGames(kept)
      <4>1. down'[cConn] = << >> \o answer \o AsGames(kept)
        BY <1>1, <1>2, <1>5, <2>1, StreamNumbers
      <4>2. << >> \o answer = answer
        BY <3>1, ConcatEmptySeq
      <4>. QED  BY <4>1, <4>2
    <3>. HIDE DEF answer
    <3>4. totalSent + 1 \in Nat
      BY <1>2
    <3>. QED  BY <2>3, <2>5, <3>1, <3>2, <3>3, <3>4, InOrderConcat
  <2>7. ASSUME NoPacketLost
        PROVE  n <= from /\ (from = n \/ (EagerClient /\ n < unbuffered))
    <3>1. PICK a \in Nat, b \in Nat : Holds(a, b)
      BY <2>7 DEF Downstream
    <3>2. n <= totalSent
      BY <1>2, <3>1 DEF Holds, InOrder
    <3>3. CASE Unqueued <= n
      <4>1. from = n
        BY <1>2, <2>1, <2>2, <3>2, <3>3, UnqueueExact DEF rest
      <4>. QED  BY <1>2, <4>1
    <3>4. CASE n < Unqueued
      <4>1. rest = buffer
        BY <1>2, <2>1, <2>2, <3>4, UnqueueExact DEF rest
      <4>2. from = Unqueued
        BY <2>2, <4>1
      <4>3. n < unbuffered
        BY <1>2, <2>2, <3>4 DEF BufferFacts, NothingDiscardedEarly, Max2
      <4>4. EagerClient
        BY <1>2, <2>1, <4>3 DEF PatientClient
      <4>. QED  BY <1>2, <2>2, <3>4, <4>2, <4>3, <4>4
    <3>. QED  BY <1>2, <2>2, <3>3, <3>4
  <2>8. NoPacketLost => \E a, b \in Nat : Holds(a, b)'
    <3>. SUFFICES ASSUME NoPacketLost
                  PROVE  \E a, b \in Nat : Holds(a, b)'
      OBVIOUS
    <3>1. PICK a \in Nat : a = from
      BY <2>3
    <3>2. PICK b \in Nat : b = totalSent + 1
      BY <1>2
    <3>3. InOrder(down'[cConn], a, b) /\ n <= a
          /\ (a = n \/ (EagerClient /\ n < unbuffered))
      BY <2>6, <2>7, <3>1, <3>2
    <3>4. b <= totalSent' /\ b = totalSent'
      BY <1>1, <3>2
    <3>. HIDE DEF from
    <3>5. Holds(a, b)'
      BY <1>1, <3>3, <3>4 DEF Holds
    <3>. QED  BY <3>5
  <2>. QED  BY <1>3, <2>8 DEF Downstream
<1>. QED  BY <1>4, <1>5

-----------------------------------------------------------------------------
(* What a step does to what the client knows of the packets it has sent.    *)

LEMMA AnsweredFrame ==
    ASSUME Answered,
           UNCHANGED <<totalReceived, cUnqueued, cWaiting, socket, cConn>>,
           down'[cConn] = down[cConn],
           socket = cConn /\ cWaiting => up'[cConn] = up[cConn]
    PROVE  Answered'
BY DEF Answered

\* Messages are written that answer no request.
LEMMA AnsweredWrite ==
    ASSUME TypeOK, Answered,
           UNCHANGED <<totalReceived, cUnqueued, cWaiting, socket, cConn>>,
           NEW messages \in Seq(Message), down' = Written(messages),
           Honest(messages, totalReceived), Without(messages, "reconnect"),
           socket = cConn /\ cWaiting => up'[cConn] = up[cConn]
    PROVE  Answered'
<1>1. CASE down'[cConn] = down[cConn]
  BY <1>1, AnsweredFrame
<1>2. CASE down'[cConn] # down[cConn]
  <2>1. down'[cConn] = down[cConn] \o messages
    BY <1>2, StreamNumbers DEF Written
  <2>2. down[cConn] \in Seq(Message) /\ totalReceived \in Nat
    BY StreamNumbers
  <2>3. Honest(down'[cConn], totalReceived)
    BY <2>1, <2>2, HonestConcat DEF Answered
  <2>4. \A i \in DOMAIN down'[cConn] :
           down'[cConn][i].t = "reconnect" =>
              i \in DOMAIN down[cConn] /\ down'[cConn][i] = down[cConn][i]
    <3>. DEFINE s == down[cConn]
    <3>1. s \in Seq(Message)
      BY <2>2
    <3>. HIDE DEF s
    <3>2. /\ Len(s) \in Nat /\ DOMAIN s = 1 .. Len(s)
          /\ Len(messages) \in Nat /\ DOMAIN messages = 1 .. Len(messages)
          /\ DOMAIN (s \o messages) = 1 .. (Len(s) + Len(messages))
          /\ \A i \in 1 .. Len(s) : (s \o messages)[i] = s[i]
          /\ \A i \in (Len(s) + 1) .. (Len(s) + Len(messages)) :
                (s \o messages)[i] = messages[i - Len(s)]
      BY <3>1, ConcatFacts
    <3>3. \A i \in DOMAIN (s \o messages) :
             (s \o messages)[i].t = "reconnect" =>
                i \in DOMAIN s /\ (s \o messages)[i] = s[i]
      <4>. SUFFICES ASSUME NEW i \in DOMAIN (s \o messages),
                           (s \o messages)[i].t = "reconnect"
                    PROVE  i \in DOMAIN s /\ (s \o messages)[i] = s[i]
        OBVIOUS
      <4>1. CASE i <= Len(s)
        BY <4>1, <3>2
      <4>2. CASE ~(i <= Len(s))
        <5>1. /\ i \in (Len(s) + 1) .. (Len(s) + Len(messages))
              /\ i - Len(s) \in DOMAIN messages
          BY <4>2, <3>2
        <5>2. (s \o messages)[i] = messages[i - Len(s)]
          BY <5>1, <3>2
        <5>. QED  BY <5>1, <5>2 DEF Without
      <4>. QED  BY <4>1, <4>2
    <3>. QED  BY <2>1, <3>3 DEF s
  <2>. QED  BY <2>3, <2>4 DEF Answered
<1>. QED  BY <1>1, <1>2

\* One more packet of the client is counted: no answer is under way.
LEMMA AnsweredCount ==
    ASSUME TypeOK, Answered, BotReceiveGame
    PROVE  Answered'
<1>1. /\ totalReceived' = totalReceived + 1
      /\ up[socket] # << >>
      /\ up' = [up EXCEPT ![socket] = Tail(@)]
      /\ UNCHANGED <<cUnqueued, cWaiting, socket, cConn, down>>
  BY DEF BotReceiveGame, clientVars
<1>2. /\ totalReceived \in Nat /\ totalReceived + 1 \in Nat
      /\ totalReceived <= totalReceived + 1 /\ cUnqueued \in Nat
      /\ down[cConn] \in Seq(Message)
  BY StreamNumbers
<1>3. Honest(down[cConn], totalReceived + 1)
  BY <1>2, HonestMonotone DEF Answered
<1>4. cUnqueued <= totalReceived + 1
  BY <1>2 DEF Answered
<1>5. ~(socket = cConn /\ cWaiting)
  BY <1>1 DEF Answered
<1>. QED  BY <1>1, <1>3, <1>4, <1>5 DEF Answered

\* The new connection is empty.
LEMMA AnsweredReconnect ==
    ASSUME TypeOK, Connections, Answered, ClientReconnect
    PROVE  Answered'
<1>1. /\ cConn' = cConn + 1 /\ cConn + 1 \in Conns
      /\ down' = [down EXCEPT ![cConn] = << >>]
      /\ UNCHANGED <<socket, totalReceived, cUnqueued>>
  <2>1. cConn + 1 \in Conns
    BY BoundsAssumption DEF ClientReconnect, TypeOK, Conns
  <2>. QED  BY <2>1 DEF ClientReconnect, gameVars
<1>2. down'[cConn'] = << >> /\ socket # cConn + 1
  BY <1>1, StreamNumbers DEF Connections, ConnectionsInUse
<1>3. Honest(<< >>, totalReceived)
  BY StreamNumbers, HonestSingletons
<1>4. DOMAIN << >> = {}
  OBVIOUS
<1>. QED  BY <1>1, <1>2, <1>3, <1>4 DEF Answered

\* EventGProxyReconnect answers with the number of packets extracted.
LEMMA AnsweredHandle ==
    ASSUME TypeOK, BufferFacts, Connections, Answered,
           NEW i \in DOMAIN pending, HandleReconnect(i)
    PROVE  Answered'
<1>. DEFINE c      == pending[i].conn
            kept   == Append(Unqueue(pending[i].last), totalSent + 1)
            answer == <<Reconnect(totalReceived)>>
<1>1. /\ down' = [down EXCEPT ![c] = @ \o answer \o AsGames(kept)]
      /\ up' = [up EXCEPT ![socket] = << >>]
      /\ socket' = c
      /\ UNCHANGED <<cConn, totalReceived, cUnqueued, cWaiting>>
      /\ Own(i)
  BY DEF HandleReconnect, IsForUs, Own, clientVars
<1>2. c \in Conns /\ pending[i].last \in Nat /\ Posted(pending[i])
  BY <1>1, StreamNumbers DEF Connections, RequestsWait
<1>3. kept \in Seq(Nat)
  <2>1. totalSent \in Nat /\ buffer \in Seq(Nat) /\ Unqueued \in Nat
        /\ \A j \in DOMAIN buffer : buffer[j] = Unqueued + j
    BY BufferNumbers DEF BufferFacts, BufferIsTheTail, TypeOK
  <2>2. \A last \in Nat : Unqueue(last) \in Seq(Nat)
    BY <2>1, UnqueueProperties
  <2>3. pending[i].last \in Nat
    BY <1>2
  <2>4. Unqueue(pending[i].last) \in Seq(Nat)
    BY <2>2, <2>3
  <2>5. totalSent + 1 \in Nat
    BY <2>1
  <2>. QED  BY <2>4, <2>5, AppendProperties
<1>. HIDE DEF kept
<1>4. CASE c # cConn
  <2>1. down'[cConn] = down[cConn]
    BY <1>1, <1>4, StreamNumbers
  <2>. QED  BY <1>1, <1>4, <2>1 DEF Answered
<1>5. CASE c = cConn
  <2>1. /\ answer \in Seq(Message) /\ AsGames(kept) \in Seq(Message)
        /\ totalReceived \in Nat
    BY <1>3, MessageTypes, AsGamesType, StreamNumbers
  <2>2. down[c] = << >> /\ cWaiting /\ up[c] = << >> /\ c # socket
    BY <1>2, <1>5 DEF Posted, Current
  <2>3. down'[cConn] = answer \o AsGames(kept)
    <3>1. down'[cConn] = << >> \o answer \o AsGames(kept)
      BY <1>1, <1>2, <1>5, <2>2, StreamNumbers
    <3>2. << >> \o answer = answer
      BY <2>1, ConcatEmptySeq
    <3>. QED  BY <3>1, <3>2
  <2>4. Honest(answer, totalReceived) /\ Honest(AsGames(kept), totalReceived)
    BY <1>3, <2>1, HonestSingletons, HonestGames
  <2>5. Honest(down'[cConn], totalReceived)
    BY <2>1, <2>3, <2>4, HonestConcat
  <2>6. \A j \in DOMAIN down'[cConn] :
           down'[cConn][j].t = "reconnect" =>
              j = 1 /\ down'[cConn][j].n = totalReceived
    <3>. DEFINE games == AsGames(kept)
    <3>1. Without(games, "reconnect")
      BY <1>3, WithoutGames
    <3>2. /\ Len(answer) = 1 /\ answer[1].n = totalReceived
      BY DEF Reconnect
    <3>. HIDE DEF answer, games
    <3>3. /\ Len(games) \in Nat /\ DOMAIN games = 1 .. Len(games)
          /\ DOMAIN (answer \o games) = 1 .. (1 + Len(games))
          /\ \A j \in 1 .. 1 : (answer \o games)[j] = answer[j]
          /\ \A j \in 2 .. (1 + Len(games)) : (answer \o games)[j] = games[j - 1]
      <4>1. answer \in Seq(Message) /\ games \in Seq(Message)
        BY <2>1 DEF games
      <4>2. /\ Len(games) \in Nat /\ DOMAIN games = 1 .. Len(games)
            /\ DOMAIN (answer \o games) = 1 .. (Len(answer) + Len(games))
            /\ \A j \in 1 .. Len(answer) : (answer \o games)[j] = answer[j]
            /\ \A j \in (Len(answer) + 1) .. (Len(answer) + Len(games)) :
                  (answer \o games)[j] = games[j - Len(answer)]
        BY <4>1, ConcatFacts
      <4>. QED  BY <3>2, <4>2
    <3>4. \A j \in DOMAIN (answer \o games) :
             (answer \o games)[j].t = "reconnect" =>
                j = 1 /\ (answer \o games)[j].n = totalReceived
      <4>. SUFFICES ASSUME NEW j \in DOMAIN (answer \o games),
                           (answer \o games)[j].t = "reconnect"
                    PROVE  j = 1 /\ (answer \o games)[j].n = totalReceived
        OBVIOUS
      <4>1. CASE j = 1
        BY <4>1, <3>2, <3>3
      <4>2. CASE j # 1
        <5>1. j - 1 \in DOMAIN games /\ (answer \o games)[j] = games[j - 1]
          BY <4>2, <3>3
        <5>. QED  BY <5>1, <3>1 DEF Without
      <4>. QED  BY <4>1, <4>2
    <3>. QED  BY <2>3, <3>4 DEF games
  <2>7. up'[cConn] = << >>
    BY <1>1, <1>5, <2>2, StreamNumbers
  <2>. QED  BY <1>1, <2>2, <2>5, <2>6, <2>7 DEF Answered
<1>. QED  BY <1>4, <1>5

\* The client reads: an answer is the first message it gets.
LEMMA AnsweredReceive ==
    ASSUME TypeOK, Answered, ClientReceive
    PROVE  /\ Answered'
           /\ cUnqueued' \in Nat /\ cUnqueued' <= totalReceived
           /\ Head(down[cConn]).t = "reconnect" /\ socket = cConn
                 => cUnqueued' = totalReceived /\ up[cConn] = << >>
<1>. DEFINE s == down[cConn]
            m == Head(down[cConn])
<1>1. /\ s # << >> /\ s \in Seq(Message)
      /\ down'[cConn] = Tail(s)
      /\ cWaiting' = (cWaiting /\ m.t # "reconnect")
      /\ cUnqueued' = IF m.t \in {"ack", "reconnect"} THEN Max2(cUnqueued, m.n)
                                                      ELSE cUnqueued
      /\ m.t # "reconnect" => up' = up
      /\ UNCHANGED <<totalReceived, socket, cConn>>
      /\ m.n \in Nat /\ cUnqueued \in Nat /\ totalReceived \in Nat
  BY StreamNumbers, HeadTailType DEF ClientReceive, gameVars
<1>2. /\ Honest(Tail(s), totalReceived)
      /\ m.t \in {"ack", "reconnect"} => m.n <= totalReceived
  BY <1>1, HonestTail DEF Answered
<1>3. /\ m = s[1] /\ Len(s) \in Nat \ {0} /\ DOMAIN s = 1 .. Len(s)
      /\ DOMAIN Tail(s) = 1 .. (Len(s) - 1)
      /\ \A i \in 1 .. (Len(s) - 1) : Tail(s)[i] = s[i + 1]
  BY <1>1, TailFacts
<1>4. \A i \in DOMAIN s : s[i].t = "reconnect" =>
         /\ i = 1 /\ cWaiting
         /\ socket = cConn => s[i].n = totalReceived
  BY DEF Answered
<1>5. 1 \in DOMAIN s
  BY <1>3
<1>. HIDE DEF s, m
<1>6. cUnqueued' \in Nat /\ cUnqueued' <= totalReceived
  BY <1>1, <1>2 DEF Max2, Answered
<1>7. Without(Tail(s), "reconnect")
  <2>. SUFFICES ASSUME NEW i \in DOMAIN Tail(s), Tail(s)[i].t = "reconnect"
                PROVE  FALSE
    BY DEF Without
  <2>1. i + 1 \in DOMAIN s /\ Tail(s)[i] = s[i + 1] /\ i + 1 # 1
    BY <1>3
  <2>. QED  BY <1>4, <2>1
<1>8. m.t = "reconnect" /\ socket = cConn
         => cUnqueued' = totalReceived /\ up[cConn] = << >>
  <2>. SUFFICES ASSUME m.t = "reconnect", socket = cConn
                PROVE  cUnqueued' = totalReceived /\ up[cConn] = << >>
    OBVIOUS
  <2>1. m.n = totalReceived /\ cWaiting
    BY <1>3, <1>4, <1>5
  <2>2. cUnqueued' = totalReceived
    BY <1>1, <2>1 DEF Max2, Answered
  <2>. QED  BY <2>1, <2>2 DEF Answered
<1>9. Answered'
  <2>1. socket' = cConn' /\ cWaiting' => up'[cConn'] = << >>
    BY <1>1 DEF Answered
  <2>2. Honest(down'[cConn'], totalReceived') /\ cUnqueued' <= totalReceived'
    BY <1>1, <1>2, <1>6
  <2>3. \A i \in DOMAIN down'[cConn'] : down'[cConn'][i].t # "reconnect"
    BY <1>1, <1>7 DEF Without
  <2>. QED  BY <2>1, <2>2, <2>3 DEF Answered
<1>. QED  BY <1>6, <1>8, <1>9 DEF m

-----------------------------------------------------------------------------
(* What a step does to the packets on their way to the bot.                 *)

\* The stretch of the client's stream that the bot's connection carries.
Carried(b) ==
    /\ InOrder(up[socket], totalReceived, b)
    /\ b <= cSent
    /\ Listens => b = cSent

LEMMA UpstreamFrame ==
    ASSUME Upstream, UNCHANGED <<totalReceived, processed, socket, cSent>>,
           up'[socket] = up[socket], Listens' => Listens
    PROVE  Upstream'
BY DEF Upstream, ProcessedOnceInOrder

\* What the bot's connection carries is replaced.
LEMMA UpstreamCarried ==
    ASSUME Upstream, UNCHANGED <<totalReceived, processed>>,
           NEW b \in Nat, Carried(b)'
    PROVE  Upstream'
BY DEF Upstream, ProcessedOnceInOrder, Carried

\* A message is read that is no packet of the game.
LEMMA UpstreamControl ==
    ASSUME TypeOK, Upstream, up[socket] # << >>,
           Head(up[socket]).t # "game",
           up' = [up EXCEPT ![socket] = Tail(@)],
           UNCHANGED <<totalReceived, processed, socket, cSent, cConn, cWaiting,
                       linkUp>>
    PROVE  Upstream'
<1>1. PICK b \in Nat : Carried(b)
  BY DEF Upstream, Carried
<1>2. up'[socket] = Tail(up[socket])
  BY StreamNumbers
<1>3. InOrder(up'[socket], totalReceived, b)
  BY <1>1, <1>2, StreamNumbers, InOrderTail DEF Carried
<1>4. Listens' <=> Listens
  BY DEF Listens
<1>5. Carried(b)'
  BY <1>1, <1>3, <1>4 DEF Carried
<1>. QED  BY <1>5, UpstreamCarried

\* The next packet of the client is the one the bot has not processed yet.
LEMMA UpstreamCount ==
    ASSUME TypeOK, Upstream, BotReceiveGame
    PROVE  Upstream'
<1>. DEFINE n == Head(up[socket]).n
<1>1. /\ up[socket] # << >> /\ Head(up[socket]).t = "game"
      /\ totalReceived' = totalReceived + 1
      /\ processed' = Append(processed, n)
      /\ up' = [up EXCEPT ![socket] = Tail(@)]
      /\ UNCHANGED <<socket, cSent, cConn, cWaiting, linkUp>>
  BY DEF BotReceiveGame, clientVars
<1>2. PICK b \in Nat : Carried(b)
  BY DEF Upstream, Carried
<1>3. up'[socket] = Tail(up[socket])
  BY <1>1, StreamNumbers
<1>4. n = totalReceived + 1 /\ InOrder(up'[socket], totalReceived + 1, b)
  BY <1>1, <1>2, <1>3, StreamNumbers, InOrderTail DEF Carried
<1>5. Listens' <=> Listens
  BY <1>1 DEF Listens
<1>6. Carried(b)'
  BY <1>1, <1>2, <1>4, <1>5 DEF Carried
<1>7. totalReceived \in Nat /\ totalReceived + 1 \in Nat /\ processed \in Seq(Nat)
  BY StreamNumbers DEF TypeOK
<1>. HIDE DEF n
<1>8. /\ Len(processed) = totalReceived
      /\ \A k \in 1 .. totalReceived : processed[k] = k
  BY LenProperties, <1>7 DEF Upstream, ProcessedOnceInOrder
<1>9. /\ Len(processed') = totalReceived + 1
      /\ DOMAIN processed' = 1 .. (totalReceived + 1)
      /\ \A k \in 1 .. totalReceived : processed'[k] = processed[k]
      /\ processed'[totalReceived + 1] = totalReceived + 1
  BY <1>1, <1>4, <1>7, <1>8, AppendProperties, LenProperties
<1>10. ProcessedOnceInOrder'
  BY <1>7, <1>8, <1>9 DEF ProcessedOnceInOrder
<1>. QED  BY <1>1, <1>6, <1>9, <1>10 DEF Upstream, Carried

\* The player is dropped: its connection carries nothing more.
LEMMA UpstreamDrop ==
    ASSUME TypeOK, Upstream, DropPlayer
    PROVE  Upstream'
<1>1. /\ up' = [up EXCEPT ![socket] = << >>]
      /\ linkUp' = [linkUp EXCEPT ![socket] = FALSE]
      /\ UNCHANGED <<totalReceived, processed, socket, cSent, cConn>>
  BY DEF DropPlayer, clientVars, histVars
<1>2. up'[socket'] = << >> /\ ~Listens'
  BY <1>1, StreamNumbers DEF Listens, TypeOK
<1>3. PICK n \in Nat : n = totalReceived
  BY StreamNumbers
<1>4. InOrder(<< >>, n, n)
  BY WithoutSingletons, InOrderControl
<1>5. n <= cSent
  <2>1. PICK b \in Nat : Carried(b)
    BY DEF Upstream, Carried
  <2>2. totalReceived <= b /\ b <= cSent
    BY <2>1 DEF Carried, InOrder
  <2>. QED  BY <1>3, <2>2, StreamNumbers
<1>6. Carried(n)'
  BY <1>1, <1>2, <1>3, <1>4, <1>5 DEF Carried
<1>. QED  BY <1>1, <1>6, UpstreamCarried

\* The player is given a connection on which the client waits for an answer.
LEMMA UpstreamHandle ==
    ASSUME TypeOK, Connections, Upstream,
           NEW i \in DOMAIN pending, HandleReconnect(i)
    PROVE  Upstream'
<1>. DEFINE c == pending[i].conn
<1>1. /\ up' = [up EXCEPT ![socket] = << >>]
      /\ socket' = c
      /\ UNCHANGED <<totalReceived, processed, cSent, cConn, cWaiting>>
      /\ Own(i)
  BY DEF HandleReconnect, IsForUs, Own, clientVars, histVars
<1>2. c \in Conns /\ Posted(pending[i])
  BY <1>1, StreamNumbers DEF Connections, RequestsWait
<1>3. up'[socket'] = << >>
  BY <1>1, <1>2, StreamNumbers DEF Posted
<1>4. ~Listens'
  BY <1>1, <1>2 DEF Listens, Posted, Current
<1>5. PICK n \in Nat : n = totalReceived
  BY StreamNumbers
<1>6. InOrder(<< >>, n, n)
  BY WithoutSingletons, InOrderControl
<1>7. n <= cSent
  <2>1. PICK b \in Nat : Carried(b)
    BY DEF Upstream, Carried
  <2>2. totalReceived <= b /\ b <= cSent
    BY <2>1 DEF Carried, InOrder
  <2>. QED  BY <1>5, <2>2, StreamNumbers
<1>8. Carried(n)'
  BY <1>1, <1>3, <1>4, <1>5, <1>6, <1>7 DEF Carried
<1>. QED  BY <1>1, <1>8, UpstreamCarried

\* Warcraft III sends a packet: it is written, or kept for the reconnection.
LEMMA UpstreamSend ==
    ASSUME TypeOK, Upstream, ClientSend
    PROVE  Upstream'
<1>1. /\ cSent' = cSent + 1
      /\ up' = IF cWaiting \/ ~linkUp[cConn] THEN up
               ELSE [up EXCEPT ![cConn] = Append(@, Game(cSent + 1))]
      /\ UNCHANGED <<totalReceived, processed, socket, cConn, cWaiting, linkUp>>
  BY DEF ClientSend, gameVars, histVars
<1>2. PICK b \in Nat : Carried(b)
  BY DEF Upstream, Carried
<1>3. /\ cSent \in Nat /\ totalReceived \in Nat /\ cSent + 1 \in Nat
      /\ up[socket] \in Seq(Message) /\ socket \in Conns
  BY StreamNumbers
<1>4. Listens' <=> Listens
  BY <1>1 DEF Listens
<1>5. CASE Listens
  <2>. DEFINE last == <<Game(cSent + 1)>>
  <2>1. last \in Seq(Message)
    BY <1>3, MessageTypes
  <2>2. up'[socket] = up[socket] \o last
    <3>1. up'[socket] = Append(up[socket], Game(cSent + 1))
      BY <1>1, <1>3, <1>5, StreamNumbers DEF Listens
    <3>2. Game(cSent + 1) \in Message
      BY <1>3, MessageTypes
    <3>. QED  BY <1>3, <3>1, <3>2, AppendIsConcat
  <2>3. InOrder(last, cSent, cSent + 1)
    BY <1>3 DEF InOrder, Game
  <2>. HIDE DEF last
  <2>4. InOrder(up[socket], totalReceived, cSent)
    BY <1>2, <1>5 DEF Carried
  <2>5. InOrder(up'[socket], totalReceived, cSent + 1)
    BY <1>3, <2>1, <2>2, <2>3, <2>4, InOrderConcat
  <2>6. PICK n \in Nat : n = cSent + 1
    BY <1>3
  <2>7. Carried(n)'
    BY <1>1, <1>3, <2>5, <2>6 DEF Carried
  <2>. QED  BY <1>1, <2>7, UpstreamCarried
<1>6. CASE ~Listens
  <2>1. up'[socket] = up[socket]
    BY <1>1, <1>3, <1>6, StreamNumbers DEF Listens
  <2>2. b <= cSent + 1
    BY <1>2, <1>3 DEF Carried
  <2>3. Carried(b)'
    BY <1>1, <1>2, <1>4, <1>6, <2>1, <2>2 DEF Carried
  <2>. QED  BY <1>1, <2>3, UpstreamCarried
<1>. QED  BY <1>5, <1>6

\* GPS_ACK is no part of the stream.
LEMMA UpstreamAck ==
    ASSUME TypeOK, Upstream, ClientAck
    PROVE  Upstream'
<1>. DEFINE ack == <<Ack(Len(delivered))>>
<1>1. /\ up' = [up EXCEPT ![cConn] = Append(@, Ack(Len(delivered)))]
      /\ UNCHANGED <<totalReceived, processed, socket, cSent, cConn, cWaiting,
                     linkUp>>
  BY DEF ClientAck, gameVars, clientVars, histVars
<1>2. Listens' <=> Listens
  BY <1>1 DEF Listens
<1>3. CASE socket # cConn
  <2>1. up'[socket] = up[socket]
    BY <1>1, <1>3, StreamNumbers
  <2>. QED  BY <1>1, <1>2, <2>1, UpstreamFrame
<1>4. CASE socket = cConn
  <2>1. Ack(Len(delivered)) \in Message /\ ack \in Seq(Message)
    BY StreamNumbers, MessageTypes
  <2>2. up'[socket] = up[socket] \o ack
    <3>1. up'[socket] = Append(up[socket], Ack(Len(delivered)))
      BY <1>1, <1>4, StreamNumbers
    <3>. QED  BY <2>1, <3>1, StreamNumbers, AppendIsConcat
  <2>3. PICK b \in Nat : Carried(b)
    BY DEF Upstream, Carried
  <2>4. InOrder(ack, b, b)
    BY WithoutSingletons, InOrderControl
  <2>. HIDE DEF ack
  <2>5. InOrder(up'[socket], totalReceived, b)
    BY <2>1, <2>2, <2>3, <2>4, StreamNumbers, InOrderConcat DEF Carried
  <2>6. Carried(b)'
    BY <1>1, <1>2, <2>3, <2>5 DEF Carried
  <2>. QED  BY <1>1, <2>6, UpstreamCarried
<1>. QED  BY <1>3, <1>4

\* The client learns what the bot has and sends the rest.
LEMMA UpstreamReceive ==
    ASSUME TypeOK, Answered, Upstream, ClientReceive
    PROVE  Upstream'
<1>. DEFINE m      == Head(down[cConn])
            resent == Packets(cUnqueued', cSent)
<1>1. /\ cWaiting' = (cWaiting /\ m.t # "reconnect")
      /\ up' = IF m.t = "reconnect"
               THEN [up EXCEPT ![cConn] = @ \o AsGames(resent)] ELSE up
      /\ UNCHANGED <<totalReceived, processed, socket, cSent, cConn, linkUp>>
  BY DEF ClientReceive, gameVars, histVars
<1>2. /\ cUnqueued' \in Nat
      /\ m.t = "reconnect" /\ socket = cConn
            => cUnqueued' = totalReceived /\ up[cConn] = << >>
  BY AnsweredReceive
<1>3. CASE m.t = "reconnect" /\ socket = cConn
  <2>1. PICK b \in Nat : Carried(b)
    BY DEF Upstream, Carried
  <2>2. totalReceived <= cSent /\ totalReceived \in Nat /\ cSent \in Nat
    <3>1. totalReceived <= b /\ b <= cSent
      BY <2>1 DEF Carried, InOrder
    <3>. QED  BY <3>1, StreamNumbers
  <2>3. InOrder(AsGames(resent), totalReceived, cSent)
    BY <1>2, <1>3, <2>2, InOrderPackets
  <2>4. AsGames(resent) \in Seq(Message)
    BY <1>2, <2>2, PacketsSeq, AsGamesType
  <2>. HIDE DEF resent
  <2>5. up'[cConn] = AsGames(resent)
    <3>1. up'[cConn] = << >> \o AsGames(resent)
      BY <1>1, <1>2, <1>3, StreamNumbers
    <3>. QED  BY <2>4, <3>1, ConcatEmptySeq
  <2>6. PICK n \in Nat : n = cSent
    BY <2>2
  <2>7. InOrder(up'[socket], totalReceived, n) /\ n <= cSent
    BY <1>3, <2>2, <2>3, <2>5, <2>6
  <2>8. UNCHANGED <<totalReceived, socket, cSent>>
    BY <1>1
  <2>9. Carried(n)'
    BY <2>6, <2>7, <2>8 DEF Carried
  <2>. QED  BY <1>1, <2>9, UpstreamCarried
<1>4. CASE ~(m.t = "reconnect" /\ socket = cConn)
  <2>1. up'[socket] = up[socket]
    BY <1>1, <1>4, StreamNumbers
  <2>2. Listens' => Listens
    BY <1>1, <1>4 DEF Listens
  <2>. QED  BY <1>1, <2>1, <2>2, UpstreamFrame
<1>. QED  BY <1>3, <1>4

-----------------------------------------------------------------------------
(* The patient client.                                                      *)

LEMMA PatientFrame ==
    ASSUME PatientClient, UNCHANGED <<delivered, unbuffered, cConn>>,
           gproxy => gproxy', gameLoaded => gameLoaded'
    PROVE  PatientClient'
BY DEF PatientClient, NoPacketLost

LEMMA PatientSend ==
    ASSUME PatientClient, NEW k \in Nat, SendPackets(k),
           UNCHANGED <<delivered, cConn, gproxy, gameLoaded>>
    PROVE  PatientClient'
<1>1. gproxy /\ gameLoaded => unbuffered' = unbuffered
  BY DEF SendPackets
<1>. QED  BY <1>1 DEF PatientClient, NoPacketLost

\* It has a buffered packet when it reconnects: nothing after that escapes
\* m_GProxyBuffer.
LEMMA PatientReconnect ==
    ASSUME TypeOK, BufferFacts, Downstream, PatientClient, ClientReconnect
    PROVE  PatientClient'
<1>. SUFFICES ASSUME ~EagerClient
              PROVE  /\ NoPacketLost
                     /\ gproxy /\ gameLoaded /\ Len(delivered) > unbuffered
  BY DEF PatientClient, NoPacketLost, ClientReconnect, gameVars, histVars
<1>1. NoPacketLost /\ Len(delivered) > unbuffered
  BY DEF PatientClient, ClientReconnect
<1>2. Len(delivered) <= totalSent
  <2>1. PICK a \in Nat, b \in Nat : Holds(a, b)
    BY <1>1 DEF Downstream
  <2>2. Len(delivered) <= a /\ a <= b /\ b <= totalSent
    BY <2>1 DEF Holds, InOrder
  <2>. QED  BY <2>2, StreamNumbers
<1>3. unbuffered # totalSent
  BY <1>1, <1>2, StreamNumbers
<1>. QED  BY <1>1, <1>3 DEF BufferFacts, Buffering

LEMMA PatientReceive ==
    ASSUME TypeOK, TypeOK', Downstream, PatientClient, ClientReceive
    PROVE  PatientClient'
<1>1. NoPacketLost /\ ~EagerClient => NoPacketLost'
  BY DownstreamReceive
<1>2. /\ UNCHANGED <<unbuffered, cConn, gproxy, gameLoaded>>
      /\ delivered' = delivered
         \/ delivered' = Append(delivered, Head(down[cConn]).n)
  BY DEF ClientReceive, gameVars, histVars
<1>3. Head(down[cConn]).n \in Nat
  BY StreamNumbers, HeadTailType DEF ClientReceive
<1>4. Len(delivered') >= Len(delivered) /\ Len(delivered') \in Nat
  <2>1. /\ Len(Append(delivered, Head(down[cConn]).n)) = Len(delivered) + 1
        /\ Len(delivered) \in Nat
    BY <1>3, AppendProperties, LenProperties DEF TypeOK
  <2>. QED  BY <1>2, <2>1
<1>5. Len(delivered) > unbuffered => Len(delivered') > unbuffered
  BY <1>4, StreamNumbers
<1>. QED  BY <1>1, <1>2, <1>5 DEF PatientClient

\* A write touches the player's connection only.
LEMMA WrittenElsewhere ==
    ASSUME TypeOK, NEW messages
    PROVE  \A c \in Conns : c # socket => Written(messages)[c] = down[c]
BY DEF Written, TypeOK

\* What CGamePlayer::Send writes answers no request.
LEMMA SendWrites ==
    ASSUME TypeOK, NEW k \in Nat, SendPackets(k)
    PROVE  \E messages \in Seq(Message) :
              /\ down' = Written(messages)
              /\ Honest(messages, totalReceived)
              /\ Without(messages, "reconnect")
<1>. DEFINE new == Packets(totalSent, totalSent + k)
<1>1. totalSent \in Nat /\ totalSent + k \in Nat /\ totalReceived \in Nat
  BY StreamNumbers
<1>2. down' = Written(AsGames(new))
  BY DEF SendPackets
<1>3. new \in Seq(Nat)
  BY <1>1, PacketsSeq
<1>. HIDE DEF new
<1>4. /\ AsGames(new) \in Seq(Message)
      /\ Honest(AsGames(new), totalReceived)
      /\ Without(AsGames(new), "reconnect")
  BY <1>1, <1>3, AsGamesType, HonestGames, WithoutGames
<1>. QED  BY <1>2, <1>4

-----------------------------------------------------------------------------
(* The invariant of the two streams is inductive: one step per action.      *)

LEMMA StreamInvInit == Init => StreamInv
<1>. SUFFICES ASSUME Init PROVE StreamInv
  OBVIOUS
<1>1. /\ TypeOK
      /\ cConn = 1 /\ socket = 1 /\ ~cWaiting
      /\ delivered = << >> /\ totalSent = 0 /\ totalReceived = 1
      /\ cSent = 1 /\ cUnqueued = 0 /\ processed = <<1>>
      /\ listening = {} /\ pending = << >>
      /\ 1 \in Conns
  BY InitType, BoundsAssumption DEF Init, Conns
<1>2. /\ down[1] = << >> /\ up[1] = <<InitMsg>>
      /\ \A c \in Conns : c # 1 => up[c] = << >> /\ down[c] = << >>
  BY <1>1 DEF Init
<1>3. Len(delivered) = 0 /\ DOMAIN delivered = {} /\ DOMAIN pending = {}
  BY <1>1
<1>4. ConnectionsInUse
  BY <1>1, <1>2, StreamNumbers DEF ConnectionsInUse
<1>5. ListenersWait /\ RequestsWait
  BY <1>1, <1>3 DEF ListenersWait, RequestsWait
<1>6. NoPacketLost
  BY <1>3 DEF NoPacketLost
<1>7. Holds(0, 0)
  <2>1. InOrder(<< >>, 0, 0)
    BY WithoutSingletons, InOrderControl
  <2>. QED  BY <1>1, <1>2, <1>3, <2>1 DEF Holds
<1>8. Downstream
  BY <1>6, <1>7 DEF Downstream, ReliableOnceLoaded
<1>9. PatientClient
  BY <1>1, <1>6 DEF PatientClient
<1>10. Answered
  <2>1. Honest(<< >>, 1) /\ DOMAIN << >> = {}
    BY HonestSingletons
  <2>. QED  BY <1>1, <1>2, <2>1 DEF Answered
<1>11. Upstream
  <2>1. InOrder(<<InitMsg>>, 1, 1)
    BY WithoutSingletons, InOrderControl
  <2>2. Carried(1)
    BY <1>1, <1>2, <2>1 DEF Carried
  <2>3. Len(processed) = 1 /\ \A k \in DOMAIN processed : processed[k] = k
    BY <1>1
  <2>. QED  BY <1>1, <2>2, <2>3 DEF Upstream, ProcessedOnceInOrder, Carried
<1>. QED  BY <1>4, <1>5, <1>8, <1>9, <1>10, <1>11 DEF StreamInv

LEMMA StreamInvNext == IInv /\ StreamInv /\ [Next]_vars => StreamInv'
<1>. SUFFICES ASSUME IInv, StreamInv, [Next]_vars
              PROVE  /\ Connections' /\ Downstream' /\ PatientClient'
                     /\ Answered' /\ Upstream'
  BY DEF StreamInv, Connections
<1>0. /\ TypeOK /\ TypeOK' /\ BufferFacts
      /\ Connections /\ Downstream /\ PatientClient /\ Answered /\ Upstream
      /\ totalReceived \in Nat
  BY IInvNext DEF IInv, BufferFacts, StreamInv, Connections, TypeOK
<1>1. CASE GameLoad
  <2>1. /\ UNCHANGED <<totalSent, totalReceived, socket, socketUp, mainVars,
                       netVars, clientVars, histVars, gproxy>>
        /\ gameLoaded' = TRUE
    BY <1>1 DEF GameLoad
  <2>2. Connections'
    BY <1>0, <2>1, ConnectionsSocket DEF mainVars, netVars, clientVars
  <2>3. Downstream'
    BY <1>0, <2>1, DownstreamFrame DEF netVars, clientVars, histVars, Carries
  <2>4. PatientClient'
    BY <1>0, <2>1, PatientFrame DEF clientVars, histVars
  <2>5. Answered'
    BY <1>0, <2>1, AnsweredFrame DEF netVars, clientVars
  <2>6. Upstream'
    BY <1>0, <2>1, UpstreamFrame DEF netVars, clientVars, histVars, Listens
  <2>. QED  BY <2>2, <2>3, <2>4, <2>5, <2>6
<1>2. CASE BotSend
  <2>1. /\ SendPackets(1)
        /\ UNCHANGED <<gameLoaded, gproxy, totalReceived, socket, socketUp,
                       mainVars, linkUp, up, clientVars, processed>>
    BY <1>2 DEF BotSend
  <2>2. PICK messages \in Seq(Message) :
           /\ down' = Written(messages)
           /\ Honest(messages, totalReceived)
           /\ Without(messages, "reconnect")
    BY <1>0, <2>1, SendWrites
  <2>3. \A c \in Conns : c # socket => down'[c] = down[c]
    BY <1>0, <2>2, WrittenElsewhere
  <2>4. Connections'
    BY <1>0, <2>1, <2>3, ConnectionsSocket DEF mainVars, clientVars
  <2>5. Downstream'
    BY <1>0, <2>1, DownstreamSend DEF clientVars, Carries
  <2>6. PatientClient'
    BY <1>0, <2>1, PatientSend DEF clientVars
  <2>7. Answered'
    BY <1>0, <2>1, <2>2, AnsweredWrite DEF clientVars
  <2>8. Upstream'
    BY <1>0, <2>1, UpstreamFrame DEF clientVars, Listens
  <2>. QED  BY <2>4, <2>5, <2>6, <2>7, <2>8
<1>3. CASE BotReceiveGame
  <2>1. /\ up' = [up EXCEPT ![socket] = Tail(@)]
        /\ UNCHANGED <<gameLoaded, gproxy, totalSent, socket, socketUp, mainVars,
                       linkUp, down, clientVars, unbuffered>>
    BY <1>3 DEF BotReceiveGame
  <2>2. Connections'
    BY <1>0, <2>1, StreamNumbers, ConnectionsSocket DEF mainVars, clientVars
  <2>3. Downstream'
    BY <1>0, <2>1, DownstreamFrame DEF clientVars, Carries
  <2>4. PatientClient'
    BY <1>0, <2>1, PatientFrame DEF clientVars
  <2>5. Answered'
    BY <1>0, <1>3, AnsweredCount
  <2>6. Upstream'
    BY <1>0, <1>3, UpstreamCount
  <2>. QED  BY <2>2, <2>3, <2>4, <2>5, <2>6
<1>4. CASE BotReceiveInit
  <2>1. /\ up[socket] # << >> /\ Head(up[socket]).t # "game"
        /\ gproxy' = TRUE
        /\ up' = [up EXCEPT ![socket] = Tail(@)]
        /\ down' = Written(<<InitMsg>>)
        /\ UNCHANGED <<gameLoaded, totalSent, totalReceived, socket, socketUp,
                       mainVars, linkUp, clientVars, histVars>>
    BY <1>4 DEF BotReceiveInit
  <2>2. /\ <<InitMsg>> \in Seq(Message)
        /\ Honest(<<InitMsg>>, totalReceived)
        /\ Without(<<InitMsg>>, "game") /\ Without(<<InitMsg>>, "reconnect")
    BY <1>0, MessageTypes, HonestSingletons, WithoutSingletons
  <2>3. /\ \A c \in Conns : c # socket => down'[c] = down[c]
        /\ \A c \in Conns : c # socket => up'[c] = up[c]
    BY <1>0, <2>1, StreamNumbers, WrittenElsewhere
  <2>4. Connections'
    BY <1>0, <2>1, <2>3, ConnectionsSocket DEF mainVars, clientVars
  <2>5. Downstream'
    BY <1>0, <2>1, <2>2, DownstreamControl DEF clientVars, histVars
  <2>6. PatientClient'
    BY <1>0, <2>1, PatientFrame DEF clientVars, histVars
  <2>7. socket = cConn /\ cWaiting => up'[cConn] = up[cConn]
    BY <1>0, <2>1 DEF Answered
  <2>8. Answered'
    BY <1>0, <2>1, <2>2, <2>7, AnsweredWrite DEF clientVars
  <2>9. Upstream'
    BY <1>0, <2>1, UpstreamControl DEF clientVars, histVars
  <2>. QED  BY <2>4, <2>5, <2>6, <2>8, <2>9
<1>5. CASE BotReceiveAck
  <2>1. /\ up[socket] # << >> /\ Head(up[socket]).t # "game"
        /\ up' = [up EXCEPT ![socket] = Tail(@)]
        /\ UNCHANGED <<gameLoaded, gproxy, totalSent, totalReceived, socket,
                       socketUp, mainVars, linkUp, down, clientVars, histVars>>
    BY <1>5 DEF BotReceiveAck
  <2>2. Connections'
    BY <1>0, <2>1, StreamNumbers, ConnectionsSocket DEF mainVars, clientVars
  <2>3. Downstream'
    BY <1>0, <2>1, DownstreamFrame DEF clientVars, histVars, Carries
  <2>4. PatientClient'
    BY <1>0, <2>1, PatientFrame DEF clientVars, histVars
  <2>5. socket = cConn /\ cWaiting => up'[cConn] = up[cConn]
    BY <1>0, <2>1 DEF Answered
  <2>6. Answered'
    BY <1>0, <2>1, <2>5, AnsweredFrame DEF clientVars
  <2>7. Upstream'
    BY <1>0, <2>1, UpstreamControl DEF clientVars, histVars
  <2>. QED  BY <2>2, <2>3, <2>4, <2>6, <2>7
<1>6. CASE BotAck
  <2>. DEFINE ack == <<Ack(totalReceived)>>
  <2>1. /\ down' = Written(ack)
        /\ UNCHANGED <<gameVars, mainVars, linkUp, up, clientVars, histVars>>
    BY <1>6 DEF BotAck
  <2>2. /\ ack \in Seq(Message)
        /\ Honest(ack, totalReceived)
        /\ Without(ack, "game") /\ Without(ack, "reconnect")
    <3>1. ack \in Seq(Message)
      BY <1>0, MessageTypes
    <3>2. Honest(ack, totalReceived)
      <4>1. totalReceived <= totalReceived
        BY <1>0
      <4>. QED  BY <1>0, <4>1, HonestSingletons
    <3>3. Without(ack, "game") /\ Without(ack, "reconnect")
      BY WithoutSingletons
    <3>. QED  BY <3>1, <3>2, <3>3
  <2>. HIDE DEF ack
  <2>3. \A c \in Conns : c # socket => down'[c] = down[c]
    BY <1>0, <2>1, WrittenElsewhere
  <2>4. Connections'
    BY <1>0, <2>1, <2>3, ConnectionsSocket DEF gameVars, mainVars, clientVars
  <2>5. Downstream'
    BY <1>0, <2>1, <2>2, DownstreamControl DEF gameVars, clientVars, histVars
  <2>6. PatientClient'
    BY <1>0, <2>1, PatientFrame DEF gameVars, clientVars, histVars
  <2>7. Answered'
    BY <1>0, <2>1, <2>2, AnsweredWrite DEF gameVars, clientVars
  <2>8. Upstream'
    BY <1>0, <2>1, UpstreamFrame DEF gameVars, clientVars, histVars, Listens
  <2>. QED  BY <2>4, <2>5, <2>6, <2>7, <2>8
<1>7. CASE BotNoticesLoss
  <2>1. /\ ~linkUp[socket]
        /\ UNCHANGED <<gameLoaded, gproxy, totalReceived, socket, mainVars,
                       linkUp, up, clientVars, processed>>
    BY <1>7 DEF BotNoticesLoss
  <2>2. ~Carries' /\ ~Listens'
    BY <2>1 DEF Carries, Listens, clientVars
  <2>3. Upstream'
    BY <1>0, <2>1, <2>2, UpstreamFrame DEF clientVars
  <2>4. CASE gproxy /\ gameLoaded
    <3>1. PICK chats \in 0 .. 2 : SendPackets(chats)
      BY <1>7, <2>4 DEF BotNoticesLoss
    <3>2. chats \in Nat
      OBVIOUS
    <3>3. PICK messages \in Seq(Message) :
             /\ down' = Written(messages)
             /\ Honest(messages, totalReceived)
             /\ Without(messages, "reconnect")
      BY <1>0, <3>1, <3>2, SendWrites
    <3>4. \A c \in Conns : c # socket => down'[c] = down[c]
      BY <1>0, <3>3, WrittenElsewhere
    <3>5. Connections'
      BY <1>0, <2>1, <3>4, ConnectionsSocket DEF mainVars, clientVars
    <3>6. Downstream'
      BY <1>0, <2>1, <2>2, <3>1, <3>2, DownstreamSend DEF clientVars
    <3>7. PatientClient'
      BY <1>0, <2>1, <3>1, <3>2, PatientSend DEF clientVars
    <3>8. Answered'
      BY <1>0, <2>1, <3>3, AnsweredWrite DEF clientVars
    <3>. QED  BY <2>3, <3>5, <3>6, <3>7, <3>8
  <2>5. CASE ~(gproxy /\ gameLoaded)
    <3>1. UNCHANGED <<totalSent, buffer, unbuffered, down, socketUp>>
      BY <1>7, <2>5 DEF BotNoticesLoss
    <3>2. Connections'
      BY <1>0, <2>1, <3>1, ConnectionsSocket DEF mainVars, clientVars
    <3>3. Downstream'
      BY <1>0, <2>1, <2>2, <3>1, DownstreamFrame DEF clientVars
    <3>4. PatientClient'
      BY <1>0, <2>1, <3>1, PatientFrame DEF clientVars
    <3>5. Answered'
      BY <1>0, <2>1, <3>1, AnsweredFrame DEF clientVars
    <3>. QED  BY <2>3, <3>2, <3>3, <3>4, <3>5
  <2>. QED  BY <2>4, <2>5
<1>8. CASE DropPlayer
  <2>1. /\ up' = [up EXCEPT ![socket] = << >>]
        /\ linkUp' = [linkUp EXCEPT ![socket] = FALSE]
        /\ UNCHANGED <<gameLoaded, gproxy, totalSent, totalReceived, socket,
                       socketUp, mainVars, down, clientVars, histVars>>
    BY <1>8 DEF DropPlayer
  <2>2. Connections'
    BY <1>0, <2>1, StreamNumbers, ConnectionsSocket DEF mainVars, clientVars
  <2>3. Carries' => Carries
    BY <1>0, <2>1 DEF Carries, clientVars, TypeOK
  <2>4. Downstream'
    BY <1>0, <2>1, <2>3, DownstreamFrame DEF clientVars, histVars
  <2>5. PatientClient'
    BY <1>0, <2>1, PatientFrame DEF clientVars, histVars
  <2>6. socket = cConn /\ cWaiting => up'[cConn] = up[cConn]
    BY <1>0, <2>1, StreamNumbers DEF Answered
  <2>7. Answered'
    BY <1>0, <2>1, <2>6, AnsweredFrame DEF clientVars
  <2>8. Upstream'
    BY <1>0, <1>8, UpstreamDrop
  <2>. QED  BY <2>2, <2>4, <2>5, <2>7, <2>8
<1>9. ASSUME NEW i \in DOMAIN pending, HandleReconnect(i)
      PROVE  /\ Connections' /\ Downstream' /\ PatientClient'
             /\ Answered' /\ Upstream'
  <2>1. Connections'
    BY <1>0, <1>9, ConnectionsHandle
  <2>2. Downstream'
    BY <1>0, <1>9, DownstreamHandle
  <2>3. PatientClient'
    BY <1>0, <1>9, PatientFrame
    DEF HandleReconnect, IsForUs, clientVars, histVars
  <2>4. Answered'
    BY <1>0, <1>9, AnsweredHandle
  <2>5. Upstream'
    BY <1>0, <1>9, UpstreamHandle
  <2>. QED  BY <2>1, <2>2, <2>3, <2>4, <2>5
<1>10. ASSUME NEW c \in Conns, PostReconnect(c)
       PROVE  /\ Connections' /\ Downstream' /\ PatientClient'
              /\ Answered' /\ Upstream'
  <2>1. /\ c \in listening
        /\ up' = [up EXCEPT ![c] = Tail(@)]
        /\ UNCHANGED <<gameVars, linkUp, down, clientVars, histVars>>
    BY <1>10 DEF PostReconnect
  <2>2. up'[socket] = up[socket]
    BY <1>0, <2>1, StreamNumbers DEF Connections, ConnectionsInUse
  <2>3. Connections'
    BY <1>0, <1>10, ConnectionsPost
  <2>4. Downstream'
    BY <1>0, <2>1, DownstreamFrame DEF gameVars, clientVars, histVars, Carries
  <2>5. PatientClient'
    BY <1>0, <2>1, PatientFrame DEF gameVars, clientVars, histVars
  <2>6. Answered'
    BY <1>0, <2>1, <2>2, AnsweredFrame DEF gameVars, clientVars
  <2>7. Upstream'
    BY <1>0, <2>1, <2>2, UpstreamFrame
    DEF gameVars, clientVars, histVars, Listens
  <2>. QED  BY <2>3, <2>4, <2>5, <2>6, <2>7
<1>11. ASSUME NEW c \in Conns, DropListening(c)
       PROVE  /\ Connections' /\ Downstream' /\ PatientClient'
              /\ Answered' /\ Upstream'
  <2>1. /\ c \in listening
        /\ up' = [up EXCEPT ![c] = << >>]
        /\ linkUp' = [linkUp EXCEPT ![c] = FALSE]
        /\ UNCHANGED <<gameVars, pending, down, clientVars, histVars>>
    BY <1>11 DEF DropListening
  <2>2. up'[socket] = up[socket]
    BY <1>0, <2>1, StreamNumbers DEF Connections, ConnectionsInUse
  <2>3. (Carries' => Carries) /\ (Listens' => Listens)
    BY <1>0, <2>1 DEF gameVars, clientVars, Carries, Listens, TypeOK
  <2>4. Connections'
    BY <1>0, <1>11, ConnectionsDropListening
  <2>5. Downstream'
    BY <1>0, <2>1, <2>3, DownstreamFrame DEF gameVars, clientVars, histVars
  <2>6. PatientClient'
    BY <1>0, <2>1, PatientFrame DEF gameVars, clientVars, histVars
  <2>7. Answered'
    BY <1>0, <2>1, <2>2, AnsweredFrame DEF gameVars, clientVars
  <2>8. Upstream'
    BY <1>0, <2>1, <2>2, <2>3, UpstreamFrame DEF gameVars, clientVars, histVars
  <2>. QED  BY <2>4, <2>5, <2>6, <2>7, <2>8
<1>12. CASE ExpireReconnect
  <2>1. /\ pending # << >> /\ pending' = Tail(pending)
        /\ linkUp' = [linkUp EXCEPT ![Head(pending).conn] = FALSE]
        /\ UNCHANGED <<gameVars, listening, down, up, clientVars, histVars>>
    BY <1>12 DEF ExpireReconnect
  <2>2. Lacks(pending', pending, 1)
    BY <1>0, <2>1, StreamNumbers, TailLacksHead
  <2>3. (Carries' => Carries) /\ (Listens' => Listens)
    BY <1>0, <2>1 DEF gameVars, clientVars, Carries, Listens, TypeOK
  <2>4. Connections'
    BY <1>0, <2>1, <2>2, ConnectionsFewer DEF gameVars, clientVars
  <2>5. Downstream'
    BY <1>0, <2>1, <2>3, DownstreamFrame DEF gameVars, clientVars, histVars
  <2>6. PatientClient'
    BY <1>0, <2>1, PatientFrame DEF gameVars, clientVars, histVars
  <2>7. Answered'
    BY <1>0, <2>1, AnsweredFrame DEF gameVars, clientVars
  <2>8. Upstream'
    BY <1>0, <2>1, <2>3, UpstreamFrame DEF gameVars, clientVars, histVars
  <2>. QED  BY <2>4, <2>5, <2>6, <2>7, <2>8
<1>13. ASSUME NEW last \in Strangers, StrangerReconnects(last)
       PROVE  /\ Connections' /\ Downstream' /\ PatientClient'
              /\ Answered' /\ Upstream'
  <2>1. UNCHANGED <<gameVars, listening, netVars, clientVars, processed,
                    unbuffered>>
    BY <1>13 DEF StrangerReconnects
  <2>2. Connections'
    BY <1>0, <1>13, ConnectionsStranger
  <2>3. Downstream'
    BY <1>0, <2>1, DownstreamFrame DEF gameVars, netVars, clientVars, Carries
  <2>4. PatientClient'
    BY <1>0, <2>1, PatientFrame DEF gameVars, clientVars
  <2>5. Answered'
    BY <1>0, <2>1, AnsweredFrame DEF gameVars, netVars, clientVars
  <2>6. Upstream'
    BY <1>0, <2>1, UpstreamFrame DEF gameVars, netVars, clientVars, Listens
  <2>. QED  BY <2>2, <2>3, <2>4, <2>5, <2>6
<1>14. ASSUME NEW i \in DOMAIN pending, OtherGameHandles(i)
       PROVE  /\ Connections' /\ Downstream' /\ PatientClient'
              /\ Answered' /\ Upstream'
  <2>1. /\ pending' = SubSeq(pending, 1, i - 1)
                      \o SubSeq(pending, i + 1, Len(pending))
        /\ UNCHANGED <<gameVars, listening, netVars, clientVars, histVars>>
    BY <1>14 DEF OtherGameHandles
  <2>2. Lacks(pending', pending, i)
    BY <1>0, <2>1, StreamNumbers, RemoveFacts
  <2>3. Connections'
    BY <1>0, <2>1, <2>2, ConnectionsFewer DEF gameVars, netVars, clientVars
  <2>4. Downstream'
    BY <1>0, <2>1, DownstreamFrame
    DEF gameVars, netVars, clientVars, histVars, Carries
  <2>5. PatientClient'
    BY <1>0, <2>1, PatientFrame DEF gameVars, clientVars, histVars
  <2>6. Answered'
    BY <1>0, <2>1, AnsweredFrame DEF gameVars, netVars, clientVars
  <2>7. Upstream'
    BY <1>0, <2>1, UpstreamFrame
    DEF gameVars, netVars, clientVars, histVars, Listens
  <2>. QED  BY <2>3, <2>4, <2>5, <2>6, <2>7
<1>15. CASE LinkBreaks
  <2>1. /\ linkUp' = [linkUp EXCEPT ![cConn] = FALSE]
        /\ UNCHANGED <<gameVars, mainVars, down, up, clientVars, histVars>>
    BY <1>15 DEF LinkBreaks
  <2>2. ~Carries' /\ ~Listens'
    BY <1>0, <2>1 DEF gameVars, clientVars, Carries, Listens, TypeOK
  <2>3. Connections'
    BY <1>0, <2>1, ConnectionsSocket DEF gameVars, mainVars, clientVars
  <2>4. Downstream'
    BY <1>0, <2>1, <2>2, DownstreamFrame DEF gameVars, clientVars, histVars
  <2>5. PatientClient'
    BY <1>0, <2>1, PatientFrame DEF gameVars, clientVars, histVars
  <2>6. Answered'
    BY <1>0, <2>1, AnsweredFrame DEF gameVars, clientVars
  <2>7. Upstream'
    BY <1>0, <2>1, <2>2, UpstreamFrame DEF gameVars, clientVars, histVars
  <2>. QED  BY <2>3, <2>4, <2>5, <2>6, <2>7
<1>16. CASE ClientReceive
  <2>1. Connections'
    <3>1. /\ down[cConn] # << >>
          /\ down' = [down EXCEPT ![cConn] = Tail(@)]
          /\ up' = up \/ \E s : up' = [up EXCEPT ![cConn] = s]
          /\ UNCHANGED <<socket, cConn, listening, pending>>
      BY <1>16 DEF ClientReceive, gameVars, mainVars
    <3>2. \A c \in Conns : c # cConn => up'[c] = up[c] /\ down'[c] = down[c]
      BY <1>0, <3>1, StreamNumbers
    <3>. QED  BY <1>0, <3>1, <3>2, ConnectionsClient
  <2>2. Downstream'
    BY <1>0, <1>16, DownstreamReceive
  <2>3. PatientClient'
    BY <1>0, <1>16, PatientReceive
  <2>4. Answered'
    BY <1>0, <1>16, AnsweredReceive
  <2>5. Upstream'
    BY <1>0, <1>16, UpstreamReceive
  <2>. QED  BY <2>1, <2>2, <2>3, <2>4, <2>5
<1>17. CASE ClientSend
  <2>1. /\ up' = IF cWaiting \/ ~linkUp[cConn] THEN up
                 ELSE [up EXCEPT ![cConn] = Append(@, Game(cSent + 1))]
        /\ UNCHANGED <<gameVars, mainVars, linkUp, down, cConn, cWaiting,
                       cReliable, cUnqueued, delivered, histVars>>
    BY <1>17 DEF ClientSend
  <2>2. Connections'
    <3>1. CASE cWaiting
      BY <1>0, <2>1, <3>1, ConnectionsSocket DEF gameVars, mainVars
    <3>2. CASE ~cWaiting
      <4>1. \A c \in Conns : c # cConn => up'[c] = up[c]
        BY <2>1, StreamNumbers
      <4>. QED  BY <1>0, <2>1, <3>2, <4>1, ConnectionsClient
                DEF gameVars, mainVars
    <3>. QED  BY <3>1, <3>2
  <2>3. Downstream'
    BY <1>0, <2>1, DownstreamFrame DEF gameVars, histVars, Carries
  <2>4. PatientClient'
    BY <1>0, <2>1, PatientFrame DEF gameVars, histVars
  <2>5. Answered'
    BY <1>0, <2>1, AnsweredFrame DEF gameVars
  <2>6. Upstream'
    BY <1>0, <1>17, UpstreamSend
  <2>. QED  BY <2>2, <2>3, <2>4, <2>5, <2>6
<1>18. CASE ClientAck
  <2>1. /\ ~cWaiting
        /\ up' = [up EXCEPT ![cConn] = Append(@, Ack(Len(delivered)))]
        /\ UNCHANGED <<gameVars, mainVars, linkUp, down, clientVars, histVars>>
    BY <1>18 DEF ClientAck
  <2>2. \A c \in Conns : c # cConn => up'[c] = up[c]
    BY <1>0, <2>1, StreamNumbers
  <2>3. Connections'
    BY <1>0, <2>1, <2>2, ConnectionsClient DEF gameVars, mainVars, clientVars
  <2>4. Downstream'
    BY <1>0, <2>1, DownstreamFrame DEF gameVars, clientVars, histVars, Carries
  <2>5. PatientClient'
    BY <1>0, <2>1, PatientFrame DEF gameVars, clientVars, histVars
  <2>6. Answered'
    BY <1>0, <2>1, AnsweredFrame DEF gameVars, clientVars
  <2>7. Upstream'
    BY <1>0, <1>18, UpstreamAck
  <2>. QED  BY <2>3, <2>4, <2>5, <2>6, <2>7
<1>19. CASE ClientReconnect
  <2>1. Connections'
    BY <1>0, <1>19, ConnectionsReconnect
  <2>2. Downstream'
    BY <1>0, <1>19, DownstreamReconnect
  <2>3. PatientClient'
    BY <1>0, <1>19, PatientReconnect
  <2>4. Answered'
    BY <1>0, <1>19, AnsweredReconnect
  <2>5. Upstream'
    <3>1. /\ cWaiting' = TRUE
          /\ up' = [up EXCEPT ![cConn + 1] = <<Reconnect(Len(delivered))>>]
          /\ UNCHANGED <<totalReceived, processed, socket, cSent>>
      BY <1>19 DEF ClientReconnect, gameVars, histVars
    <3>2. socket # cConn + 1 /\ socket \in Conns
      BY <1>0, StreamNumbers DEF Connections, ConnectionsInUse
    <3>3. up'[socket] = up[socket] /\ ~Listens'
      BY <1>0, <3>1, <3>2, StreamNumbers DEF Listens
    <3>. QED  BY <1>0, <3>1, <3>3, UpstreamFrame
  <2>. QED  BY <2>1, <2>2, <2>3, <2>4, <2>5
<1>20. CASE UNCHANGED vars
  <2>1. UNCHANGED <<gameVars, mainVars, netVars, clientVars, histVars>>
    BY <1>20 DEF vars
  <2>2. Connections'
    BY <1>0, <2>1, ConnectionsSocket DEF gameVars, mainVars, netVars, clientVars
  <2>3. Downstream'
    BY <1>0, <2>1, DownstreamFrame
    DEF gameVars, netVars, clientVars, histVars, Carries
  <2>4. PatientClient'
    BY <1>0, <2>1, PatientFrame DEF gameVars, clientVars, histVars
  <2>5. Answered'
    BY <1>0, <2>1, AnsweredFrame DEF gameVars, netVars, clientVars
  <2>6. Upstream'
    BY <1>0, <2>1, UpstreamFrame
    DEF gameVars, netVars, clientVars, histVars, Listens
  <2>. QED  BY <2>2, <2>3, <2>4, <2>5, <2>6
<1>. QED
  BY <1>1, <1>2, <1>3, <1>4, <1>5, <1>6, <1>7, <1>8, <1>9, <1>10, <1>11, <1>12,
     <1>13, <1>14, <1>15, <1>16, <1>17, <1>18, <1>19, <1>20
  DEF Next

-----------------------------------------------------------------------------
(* The theorems.                                                            *)

THEOREM Invariance == Spec => []IInv
<1>1. Init => IInv
  BY IInvInit
<1>2. IInv /\ [Next]_vars => IInv'
  BY IInvNext
<1>. QED  BY <1>1, <1>2, PTL DEF Spec

\* The counters, channels, requests and buffers keep their types in every
\* run, whatever the number of connections, packets and foreign requests.
THEOREM TypeCorrect == Spec => []TypeOK
<1>1. IInv => TypeOK
  BY DEF IInv
<1>. QED  BY <1>1, Invariance, PTL

\* The arithmetic of the GPS_ACK handler and of EventGProxyReconnect is right:
\* m_GProxyBuffer always is the unbroken end of the stream of packets.
THEOREM BufferIsAlwaysTheTail == Spec => []BufferIsTheTail
<1>1. IInv => BufferIsTheTail
  BY DEF IInv
<1>. QED  BY <1>1, Invariance, PTL

\* Nothing the client may still need is ever dropped from m_GProxyBuffer.
THEOREM NothingIsDiscardedEarly == Spec => []NothingDiscardedEarly
<1>1. IInv => NothingDiscardedEarly
  BY DEF IInv
<1>. QED  BY <1>1, Invariance, PTL

\* What arrives is the stream: acknowledgements, answers that come late over
\* old connections, requests of other players and packets lost in flight in
\* both directions never make the client miss a buffered packet, nor the bot
\* process one twice (CGamePlayer::Send, EventGProxyReconnect).
THEOREM StreamsAreAlwaysReliable == Spec => []StreamsAreReliable
<1>1. IInv /\ StreamInv => StreamsAreReliable
  BY DEF StreamInv, Downstream, Upstream, StreamsAreReliable
<1>2. Init => StreamInv
  BY StreamInvInit
<1>3. IInv /\ StreamInv /\ [Next]_vars => StreamInv'
  BY StreamInvNext
<1>. QED  BY <1>1, <1>2, <1>3, Invariance, PTL DEF Spec

-----------------------------------------------------------------------------
(* The refinement of ReliableStream.                                        *)

LEMMA StreamStep ==
    ASSUME EagerClient = FALSE, IInv, StreamInv, [Next]_vars
    PROVE  [Stream!Next]_(Stream!vars)
<1>. USE DEF Stream!vars
<1>0. /\ TypeOK /\ TypeOK' /\ Downstream /\ PatientClient
      /\ totalSent \in Nat
  BY IInvNext DEF IInv, StreamInv, TypeOK
<1>1. CASE BotSend
  <2>1. totalSent' = totalSent + 1 /\ UNCHANGED delivered
    BY <1>1 DEF BotSend, SendPackets, clientVars
  <2>2. Stream!Send
    BY <2>1 DEF Stream!Send
  <2>. QED  BY <2>2 DEF Stream!Next
<1>2. CASE BotNoticesLoss
  <2>1. CASE gproxy /\ gameLoaded
    <3>1. PICK chats \in 0 .. 2 : SendPackets(chats)
      BY <1>2, <2>1 DEF BotNoticesLoss
    <3>2. totalSent' = totalSent + chats /\ UNCHANGED delivered
      BY <1>2, <3>1 DEF BotNoticesLoss, SendPackets, clientVars
    <3>3. CASE chats = 0
      BY <1>0, <3>2, <3>3
    <3>4. CASE chats \in 1 .. 2
      <4>1. Stream!Send
        BY <3>2, <3>4 DEF Stream!Send
      <4>. QED  BY <4>1 DEF Stream!Next
    <3>. QED  BY <3>3, <3>4
  <2>2. CASE ~(gproxy /\ gameLoaded)
    BY <1>2, <2>2 DEF BotNoticesLoss, clientVars
  <2>. QED  BY <2>1, <2>2
<1>3. ASSUME NEW i \in DOMAIN pending, HandleReconnect(i)
      PROVE  [Stream!Next]_(Stream!vars)
  <2>1. totalSent' = totalSent + 1 /\ UNCHANGED delivered
    BY <1>3 DEF HandleReconnect, clientVars
  <2>2. Stream!Send
    BY <2>1 DEF Stream!Send
  <2>. QED  BY <2>2 DEF Stream!Next
<1>4. CASE ClientReceive
  <2>1. UNCHANGED totalSent
    BY <1>4 DEF ClientReceive, gameVars
  <2>2. \/ delivered' = delivered
        \/ /\ delivered' = Append(delivered, Len(delivered) + 1)
           /\ Len(delivered) < totalSent
    BY <1>0, <1>4, DownstreamReceive DEF PatientClient
  <2>3. Stream!Deliver \/ UNCHANGED <<totalSent, delivered>>
    BY <2>1, <2>2 DEF Stream!Deliver
  <2>. QED  BY <2>3 DEF Stream!Next
<1>5. CASE UNCHANGED <<totalSent, delivered>>
  BY <1>5
<1>6. CASE \/ GameLoad \/ BotReceiveGame \/ BotReceiveInit \/ BotReceiveAck
           \/ BotAck \/ DropPlayer \/ ExpireReconnect \/ LinkBreaks
           \/ ClientSend \/ ClientAck \/ ClientReconnect
  <2>1. UNCHANGED <<totalSent, delivered>>
    BY <1>6 DEF GameLoad, BotReceiveGame, BotReceiveInit, BotReceiveAck, BotAck,
       DropPlayer, ExpireReconnect, LinkBreaks, ClientSend, ClientAck,
       ClientReconnect, gameVars, clientVars
  <2>. QED  BY <2>1
<1>7. CASE \/ \E c \in Conns : PostReconnect(c) \/ DropListening(c)
           \/ \E last \in Strangers : StrangerReconnects(last)
           \/ \E i \in DOMAIN pending : OtherGameHandles(i)
  <2>1. UNCHANGED <<totalSent, delivered>>
    BY <1>7 DEF PostReconnect, DropListening, StrangerReconnects,
       OtherGameHandles, gameVars, clientVars
  <2>. QED  BY <2>1
<1>8. CASE UNCHANGED vars
  BY <1>8 DEF vars, gameVars, clientVars
<1>. QED
  BY <1>1, <1>2, <1>3, <1>4, <1>6, <1>7, <1>8 DEF Next

\* To a client that waits for a packet of the loaded game before it reconnects,
\* the bot is one connection that never breaks: GProxy implements
\* ReliableStream, whatever becomes of the TCP connections underneath.
THEOREM ImplementsReliableStream ==
    ASSUME EagerClient = FALSE
    PROVE  Spec => ImplementsStream
<1>1. Init => Stream!Init
  BY DEF Init, Stream!Init
<1>2. IInv /\ StreamInv /\ [Next]_vars => [Stream!Next]_(Stream!vars)
  BY StreamStep
<1>3. Init => StreamInv
  BY StreamInvInit
<1>4. IInv /\ StreamInv /\ [Next]_vars => StreamInv'
  BY StreamInvNext
<1>. QED
  BY <1>1, <1>2, <1>3, <1>4, Invariance, PTL
  DEF Spec, ImplementsStream, Stream!Spec
=============================================================================
