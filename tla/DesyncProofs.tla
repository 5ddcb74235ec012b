---------------------------- MODULE DesyncProofs ----------------------------
(***************************************************************************)
(* What holds of the search for desyncs for every number of players and    *)
(* worlds and every distance between the fastest and the slowest: answers  *)
(* are compared with answers to the same update, and the vote is fair.     *)
(***************************************************************************)
EXTENDS Desync, SequenceTheorems, FiniteSetTheorems, TLAPS

-----------------------------------------------------------------------------
(* The inductive invariant: the players that stay have had the same number  *)
(* of answers taken.                                                        *)

IInv == TypeOK /\ SameUpdateIsCompared

\* The players ids have had the same number of answers taken.
InStep(count, q, ids) == \A j, k \in ids : count[j] - Len(q[j]) = count[k] - Len(q[k])

\* A set of natural numbers that has a member has a smallest one, which Min is.
LEMMA MinIsSmallest ==
    ASSUME NEW S \in SUBSET Nat, S # {}
    PROVE  Min(S) \in S /\ \A k \in S : Min(S) <= k
<1>. DEFINE less == {ss \in Nat \X Nat : ss[1] < ss[2]}
<1>1. IsWellFoundedOn(less, Nat)
  BY NatLessThanWellFounded DEF OpToRel
<1>2. PICK x \in S : \A y \in S : ~ (<<y, x>> \in less)
  <2>. HIDE DEF less
  <2>. QED  BY <1>1, WFMin
<1>3. ASSUME NEW y \in S PROVE x <= y
  <2>1. x \in Nat /\ y \in Nat /\ ~ (y < x)
    BY <1>2
  <2>. QED  BY <2>1
<1>. QED  BY <1>3 DEF Min

\* What FromSlowest makes of counts that are within MaxAhead.
LEMMA CountsFromSlowest ==
    ASSUME NEW count \in [Players -> 0 .. MaxAhead], NEW ids \in SUBSET Players
    PROVE  /\ FromSlowest(count, ids) \in [Players -> 0 .. MaxAhead]
           /\ \A i, j \in ids :
                FromSlowest(count, ids)[i] - FromSlowest(count, ids)[j] = count[i] - count[j]
<1>. DEFINE S == {count[j] : j \in ids}
<1>0. MaxAhead \in Nat
  BY DesyncAssumption
<1>1. CASE ids = {}
  BY <1>0, <1>1 DEF FromSlowest
<1>2. CASE ids # {}
  <2>1. S \in SUBSET Nat /\ S # {}
    BY <1>0, <1>2
  <2>2. Min(S) \in Nat /\ \A i \in ids : Min(S) <= count[i]
    BY <2>1, MinIsSmallest
  <2>3. FromSlowest(count, ids) = [i \in Players |-> IF i \in ids THEN count[i] - Min(S) ELSE 0]
    BY DEF FromSlowest
  <2>. HIDE DEF S
  <2>4. \A i \in ids : count[i] - Min(S) \in 0 .. MaxAhead
    BY <1>0, <2>2
  <2>5. FromSlowest(count, ids) \in [Players -> 0 .. MaxAhead]
    BY <1>0, <2>3, <2>4
  <2>6. ASSUME NEW i \in ids, NEW j \in ids
        PROVE  FromSlowest(count, ids)[i] - FromSlowest(count, ids)[j] = count[i] - count[j]
    <3>1. /\ FromSlowest(count, ids)[i] = count[i] - Min(S)
          /\ FromSlowest(count, ids)[j] = count[j] - Min(S)
          /\ count[i] \in Int /\ count[j] \in Int
      BY <2>3
    <3>. QED  BY <2>2, <3>1
  <2>. QED  BY <2>5, <2>6
<1>. QED  BY <1>1, <1>2

\* Two differences that are the same for two players.
LEMMA Differences ==
    ASSUME NEW a \in Int, NEW b \in Int, NEW c \in Int, NEW d \in Int, NEW x \in Int, NEW y \in Int,
           a - b = c - d, c - x = d - y
    PROVE  a - x = b - y
  OBVIOUS

\* A step that drops players keeps the invariant when the counts and queues it leaves to
\* the others are in step.
LEMMA FlagStep ==
    ASSUME TypeOK, UNCHANGED <<present, world>>,
           NEW ids \in SUBSET present,
           NEW q \in [Players -> Seq(Worlds)], NEW count \in [Players -> 0 .. MaxAhead],
           InStep(count, q, Staying \ ids),
           Flag(ids, q, count)
    PROVE  IInv'
<1>. DEFINE stay == Staying \ ids
<1>1. stay \in SUBSET Players /\ Staying' = stay
  BY DEF TypeOK, Staying, Flag
<1>2. Kept(q, stay) \in [Players -> Seq(Worlds)] /\ \A i \in stay : Kept(q, stay)[i] = q[i]
  <2>1. << >> \in Seq(Worlds)
    OBVIOUS
  <2>. QED  BY <1>1, <2>1 DEF Kept
<1>3. answered' \in [Players -> 0 .. MaxAhead]
  BY <1>1, CountsFromSlowest DEF Flag
<1>4. TypeOK'
  BY <1>1, <1>2, <1>3 DEF TypeOK, Flag
<1>5. ASSUME NEW i \in stay, NEW j \in stay
      PROVE  answered'[i] - Len(m_CheckSums'[i]) = answered'[j] - Len(m_CheckSums'[j])
  <2>1. answered'[i] - answered'[j] = count[i] - count[j]
    BY <1>1, CountsFromSlowest DEF Flag
  <2>2. m_CheckSums'[i] = q[i] /\ m_CheckSums'[j] = q[j]
    BY <1>2 DEF Flag
  <2>3. /\ Len(q[i]) \in Nat /\ Len(q[j]) \in Nat /\ count[i] \in Int /\ count[j] \in Int
        /\ answered'[i] \in Int /\ answered'[j] \in Int
    BY <1>1, <1>3, DesyncAssumption, LenProperties
  <2>4. count[i] - Len(q[i]) = count[j] - Len(q[j])
    BY DEF InStep
  <2>5. answered'[i] - Len(q[i]) = answered'[j] - Len(q[j])
    <3>. DEFINE a == answered'[i]
                b == answered'[j]
                c == count[i]
                d == count[j]
                x == Len(q[i])
                y == Len(q[j])
    <3>1. /\ a - b = c - d /\ c - x = d - y
          /\ a \in Int /\ b \in Int /\ c \in Int /\ d \in Int /\ x \in Int /\ y \in Int
      BY <2>1, <2>3, <2>4
    <3>. HIDE DEF a, b, c, d, x, y
    <3>2. a - x = b - y
      BY <3>1, Differences
    <3>. QED  BY <3>2 DEF a, b, x, y
  <2>. QED  BY <2>2, <2>5
<1>. QED  BY <1>1, <1>4, <1>5 DEF IInv, SameUpdateIsCompared

-----------------------------------------------------------------------------
(* The steps.                                                               *)

LEMMA InitIInv == Init => IInv
<1>. SUFFICES ASSUME Init PROVE IInv
  OBVIOUS
<1>1. << >> \in Seq(Worlds) /\ 1 \in Worlds /\ 0 \in 0 .. MaxAhead
  BY DesyncAssumption DEF Worlds
<1>2. TypeOK
  BY <1>1 DEF Init, TypeOK
<1>. QED  BY <1>2 DEF IInv, SameUpdateIsCompared, Init, Staying

\* The queues when an answer has arrived are still in step with the counts.
LEMMA AnswerInStep ==
    ASSUME IInv, NEW i \in present, answered[i] < MaxAhead
    PROVE  LET q == WithAnswer(i)
               count == [answered EXCEPT ![i] = @ + 1]
           IN /\ q \in [Players -> Seq(Worlds)] /\ count \in [Players -> 0 .. MaxAhead]
              /\ InStep(count, q, Staying)
<1>. DEFINE q == WithAnswer(i)
            count == [answered EXCEPT ![i] = @ + 1]
<1>1. /\ i \in Players /\ Staying \subseteq Players /\ answered \in [Players -> 0 .. MaxAhead]
      /\ m_CheckSums \in [Players -> Seq(Worlds)] /\ world[i] \in Worlds /\ MaxAhead \in Nat
  BY DesyncAssumption DEF IInv, TypeOK, Staying
<1>2. Append(m_CheckSums[i], world[i]) \in Seq(Worlds)
      /\ Len(Append(m_CheckSums[i], world[i])) = Len(m_CheckSums[i]) + 1
  BY <1>1, AppendProperties
<1>3. q \in [Players -> Seq(Worlds)]
  BY <1>1, <1>2 DEF WithAnswer
<1>4. count \in [Players -> 0 .. MaxAhead]
  BY <1>1
<1>5. ASSUME NEW j \in Staying
      PROVE  count[j] - Len(q[j]) = answered[j] - Len(m_CheckSums[j])
  <2>1. Len(m_CheckSums[j]) \in Nat /\ answered[j] \in Int
    BY <1>1, LenProperties
  <2>2. CASE j = i
    <3>1. count[j] = answered[j] + 1 /\ Len(q[j]) = Len(m_CheckSums[j]) + 1
      BY <1>1, <1>2, <2>2 DEF WithAnswer
    <3>. QED  BY <2>1, <3>1
  <2>3. CASE j # i
    BY <1>1, <2>3 DEF WithAnswer
  <2>. QED  BY <2>2, <2>3
<1>6. \A j, k \in Staying : answered[j] - Len(m_CheckSums[j]) = answered[k] - Len(m_CheckSums[k])
  BY DEF IInv, SameUpdateIsCompared
<1>. HIDE DEF q, count
<1>7. InStep(count, q, Staying)
  BY <1>5, <1>6 DEF InStep
<1>. QED  BY <1>3, <1>4, <1>7 DEF q, count

\* Taking one answer from each leaves them in step.
LEMMA PoppedInStep ==
    ASSUME NEW q \in [Players -> Seq(Worlds)], NEW count \in [Players -> 0 .. MaxAhead],
           InStep(count, q, Staying),
           Staying \subseteq Players, Complete(q), NEW drop
    PROVE  /\ Popped(q, drop) \in [Players -> Seq(Worlds)]
           /\ InStep(count, Popped(q, drop), Staying \ drop)
<1>1. \A j \in Staying : /\ Tail(q[j]) \in Seq(Worlds) /\ Len(Tail(q[j])) = Len(q[j]) - 1
                         /\ Len(q[j]) \in Nat /\ count[j] \in Int
  BY HeadTailProperties, LenProperties, DesyncAssumption DEF Complete
<1>2. Popped(q, drop) \in [Players -> Seq(Worlds)]
  BY <1>1 DEF Popped
<1>3. \A j \in Staying \ drop : Len(Popped(q, drop)[j]) = Len(q[j]) - 1
  BY <1>1 DEF Popped
<1>. QED  BY <1>1, <1>2, <1>3 DEF InStep

LEMMA NextIInv == IInv /\ [Next]_vars => IInv'
<1>. SUFFICES ASSUME IInv, [Next]_vars PROVE IInv'
  OBVIOUS
<1>. USE DEF IInv
<1>1. ASSUME NEW i \in Players, Split(i) PROVE IInv'
  <2>1. world' \in [Players -> Worlds]
    BY <1>1 DEF Split, TypeOK
  <2>. QED  BY <1>1, <2>1 DEF Split, TypeOK, SameUpdateIsCompared, Staying
<1>2. ASSUME NEW i \in Players, KeepAlive(i) PROVE IInv'
  <2>. DEFINE q == WithAnswer(i)
              count == [answered EXCEPT ![i] = @ + 1]
              drop == Dropped(q)
              left == IF Compares(q) THEN Popped(q, drop) ELSE q
  <2>1. i \in present /\ answered[i] < MaxAhead /\ Flag(drop, left, count)
        /\ UNCHANGED <<present, world>>
    BY <1>2 DEF KeepAlive
  <2>2. /\ q \in [Players -> Seq(Worlds)] /\ count \in [Players -> 0 .. MaxAhead]
        /\ InStep(count, q, Staying)
    BY <2>1, AnswerInStep
  <2>3. drop \in SUBSET present
    BY DEF Dropped, Desynced, Staying
  <2>. HIDE DEF q, count, drop
  <2>4. /\ left \in [Players -> Seq(Worlds)]
        /\ InStep(count, left, Staying \ drop)
    <3>1. CASE Compares(q)
      <4>1. Staying \subseteq Players
        BY DEF Staying, TypeOK
      <4>2. Complete(q) /\ left = Popped(q, drop)
        BY <3>1 DEF Compares
      <4>3. /\ Popped(q, drop) \in [Players -> Seq(Worlds)]
            /\ InStep(count, Popped(q, drop), Staying \ drop)
        BY <2>2, <4>1, <4>2, PoppedInStep
      <4>. HIDE DEF left
      <4>. QED  BY <4>2, <4>3
    <3>2. CASE ~Compares(q)
      <4>1. left = q
        BY <3>2
      <4>. HIDE DEF left
      <4>. QED  BY <2>2, <4>1 DEF InStep
    <3>. QED  BY <3>1, <3>2
  <2>. HIDE DEF left
  <2>. QED  BY <2>1, <2>2, <2>3, <2>4, FlagStep
<1>3. ASSUME NEW i \in Players, Leave(i) PROVE IInv'
  <2>1. {i} \in SUBSET present /\ Flag({i}, m_CheckSums, answered) /\ UNCHANGED <<present, world>>
    BY <1>3 DEF Leave, Staying
  <2>2. InStep(answered, m_CheckSums, Staying \ {i})
    BY DEF SameUpdateIsCompared, InStep
  <2>. QED  BY <2>1, <2>2, FlagStep DEF TypeOK
<1>4. ASSUME NEW i \in Players, DeletePlayer(i) PROVE IInv'
  <2>1. Staying' = Staying
    BY <1>4 DEF DeletePlayer, Staying
  <2>. QED  BY <1>4, <2>1 DEF DeletePlayer, TypeOK, SameUpdateIsCompared
<1>5. CASE UNCHANGED vars
  BY <1>5 DEF vars, TypeOK, SameUpdateIsCompared, Staying
<1>. QED  BY <1>1, <1>2, <1>3, <1>4, <1>5 DEF Next

-----------------------------------------------------------------------------
(* The vote.                                                                *)

\* The groups are finite, so their sizes are numbers, at most that of the players.
LEMMA BinsAreFinite ==
    ASSUME Staying \subseteq Players, NEW q, NEW w
    PROVE  IsFiniteSet(Bin(q, w)) /\ Cardinality(Bin(q, w)) \in 0 .. NumPlayers
<1>1. IsFiniteSet(Players) /\ Cardinality(Players) = NumPlayers
  <2>1. 1 \in Int /\ NumPlayers \in Int /\ NumPlayers >= 1
    BY DesyncAssumption
  <2>2. /\ IsFiniteSet(1 .. NumPlayers)
        /\ Cardinality(1 .. NumPlayers) = IF 1 > NumPlayers THEN 0 ELSE NumPlayers - 1 + 1
    BY <2>1, FS_Interval
  <2>. QED  BY <2>1, <2>2 DEF Players
<1>2. Bin(q, w) \subseteq Players
  BY DEF Bin
<1>. QED  BY <1>1, <1>2, FS_Subset, FS_CardinalityType

\* What holds of every number from 0 on; stated of a set, as no operator need be given.
LEMMA SetInduction ==
    ASSUME NEW S, 0 \in S, \A n \in Nat : n \in S => n + 1 \in S
    PROVE  Nat \subseteq S
<1>. SUFFICES ASSUME NEW k \in Nat, k \notin S PROVE FALSE
  OBVIOUS
<1>. DEFINE missing == {n \in Nat : n \notin S}
<1>1. missing \in SUBSET Nat /\ missing # {}
  OBVIOUS
<1>. HIDE DEF missing
<1>2. PICK m \in missing : \A n \in missing : m <= n
  BY <1>1, MinIsSmallest
<1>. USE DEF missing
<1>3. m # 0 /\ m - 1 \in Nat /\ (m - 1) + 1 = m
  BY <1>2
<1>4. m - 1 \notin missing
  BY <1>2, <1>3
<1>. QED  BY <1>2, <1>3, <1>4

\* f is what the loop over the bins has found after each of the first n worlds, when it
\* begins at the group of first.
LoopOver(q, first, f, n) ==
  f = [w \in 0..n |-> IF w = 0 THEN [largest |-> first, tied |-> FALSE]
                      ELSE NextBin(q, f[w - 1], w)]

LEMMA LoopExists ==
    ASSUME NEW q, NEW first, NEW n \in Nat
    PROVE  \E f : LoopOver(q, first, f, n)
<1>. DEFINE X == {k \in Nat : \E f : LoopOver(q, first, f, k)}
<1>1. 0 \in X
  <2>. DEFINE f == [w \in 0..0 |-> [largest |-> first, tied |-> FALSE]]
  <2>1. LoopOver(q, first, f, 0)
    BY DEF LoopOver
  <2>. QED  BY <2>1
<1>2. ASSUME NEW k \in Nat, k \in X PROVE k + 1 \in X
  <2>1. PICK g : LoopOver(q, first, g, k)
    BY <1>2
  <2>. DEFINE f == [w \in 0..k + 1 |-> IF w = k + 1 THEN NextBin(q, g[k], k + 1) ELSE g[w]]
  <2>2. \A w \in 0..k : f[w] = g[w]
    OBVIOUS
  <2>3. ASSUME NEW w \in 0..k + 1
        PROVE  f[w] = IF w = 0 THEN [largest |-> first, tied |-> FALSE]
                      ELSE NextBin(q, f[w - 1], w)
    <3>1. CASE w = 0
      BY <2>1, <2>2, <3>1 DEF LoopOver
    <3>2. CASE w \in 1..k
      <4>1. w \in 0..k /\ w - 1 \in 0..k /\ w # 0
        BY <3>2
      <4>2. g[w] = NextBin(q, g[w - 1], w)
        BY <2>1, <4>1 DEF LoopOver
      <4>3. f[w] = g[w] /\ f[w - 1] = g[w - 1]
        BY <2>2, <4>1
      <4>. HIDE DEF f
      <4>. QED  BY <4>1, <4>2, <4>3
    <3>3. CASE w = k + 1
      <4>1. f[w - 1] = g[k] /\ f[w] = NextBin(q, g[k], w) /\ w # 0
        BY <3>3
      <4>. HIDE DEF f
      <4>. QED  BY <4>1
    <3>. QED  BY <3>1, <3>2, <3>3
  <2>4. LoopOver(q, first, f, k + 1)
    <3>1. f = [w \in 0..k + 1 |-> f[w]]
      OBVIOUS
    <3>. HIDE DEF f
    <3>. QED  BY <2>3, <3>1 DEF LoopOver
  <2>. HIDE DEF f
  <2>. QED  BY <2>4
<1>. HIDE DEF X
<1>3. n \in X
  BY <1>1, <1>2, SetInduction
<1>. QED  BY <1>3 DEF X

\* What the loop has found of the first n worlds: a group that has players and is as large
\* as any, and whether another is as large.
Found(q, t, n) ==
  /\ t.largest \in Worlds /\ t.tied \in BOOLEAN
  /\ Cardinality(Bin(q, t.largest)) > 0
  /\ \A v \in 1..n : Cardinality(Bin(q, v)) <= Cardinality(Bin(q, t.largest))
  /\ t.tied <=> \E v \in 1..n : /\ v # t.largest
                                /\ Cardinality(Bin(q, v)) = Cardinality(Bin(q, t.largest))

\* A turn of the loop: a larger group takes the flag back, another of the same size sets it.
LEMMA NextBinFinds ==
    ASSUME Staying \subseteq Players, NEW q, NEW t, NEW n \in Nat, n + 1 \in Worlds, Found(q, t, n)
    PROVE  Found(q, NextBin(q, t, n + 1), n + 1)
<1>. DEFINE size(w) == Cardinality(Bin(q, w))
            w == n + 1
            u == NextBin(q, t, w)
<1>1. \A v : size(v) \in Nat
  BY BinsAreFinite, DesyncAssumption
<1>2. /\ t.largest \in Worlds /\ t.tied \in BOOLEAN /\ size(t.largest) > 0
      /\ \A v \in 1..n : size(v) <= size(t.largest)
      /\ t.tied <=> \E v \in 1..n : v # t.largest /\ size(v) = size(t.largest)
  BY DEF Found
<1>3. /\ u.largest = IF size(w) > size(t.largest) THEN w ELSE t.largest
      /\ u.tied = (size(w) <= size(t.largest) /\ (t.tied \/ (w # t.largest /\ size(w) = size(t.largest))))
  BY DEF NextBin
<1>4. \A v : v \in 1..w <=> v \in 1..n \/ v = w
  OBVIOUS
<1>5. w \in Worlds
  OBVIOUS
<1>. HIDE DEF size, w, u
<1>6. CASE size(w) > size(t.largest)
  <2>1. u.largest = w /\ u.tied = FALSE
    <3>1. ~(size(w) <= size(t.largest))
      BY <1>1, <1>6
    <3>. QED  BY <1>3, <1>6, <3>1, Zenon
  <2>2. \A v \in 1..n : size(v) < size(w)
    BY <1>1, <1>2, <1>6
  <2>3. \A v \in 1..w : size(v) <= size(w) /\ (v # w => size(v) # size(w))
    BY <1>1, <1>4, <2>2
  <2>4. size(w) > 0
    BY <1>1, <1>2, <1>6
  <2>. QED  BY <1>5, <2>1, <2>3, <2>4 DEF Found, size, w, u
<1>7. CASE ~(size(w) > size(t.largest))
  <2>1. /\ u.largest = t.largest
        /\ u.tied = (t.tied \/ (w # t.largest /\ size(w) = size(t.largest)))
    BY <1>1, <1>3, <1>7
  <2>2. \A v \in 1..w : size(v) <= size(t.largest)
    BY <1>1, <1>2, <1>4, <1>7
  <2>3. u.tied <=> \E v \in 1..w : v # t.largest /\ size(v) = size(t.largest)
    BY <1>2, <1>4, <2>1
  <2>4. u.tied \in BOOLEAN
    BY <1>2, <2>1
  <2>. QED  BY <1>2, <2>1, <2>2, <2>3, <2>4 DEF Found, size, w, u
<1>. QED  BY <1>6, <1>7

\* The loop over the bins, with its flag that is set and taken back, finds a largest group
\* and whether it is the only one.
LEMMA TallyFinds ==
    ASSUME Staying \subseteq Players, Staying # {}, NEW q \in [Players -> Seq(Worlds)], Complete(q)
    PROVE  Found(q, Tally(q), NumWorlds)
<1>. DEFINE bins == {Head(q[i]) : i \in Staying}
            first == Min(bins)
            f == CHOOSE g : LoopOver(q, first, g, NumWorlds)
<1>1. NumWorlds \in Nat
  BY DesyncAssumption
<1>2. first \in bins /\ bins \subseteq Worlds
  <2>1. bins \in SUBSET Worlds /\ bins # {}
    BY HeadTailProperties DEF Complete
  <2>. HIDE DEF bins
  <2>2. bins \in SUBSET Nat
    BY <1>1, <2>1 DEF Worlds
  <2>. QED  BY <2>1, <2>2, MinIsSmallest
<1>3. Cardinality(Bin(q, first)) > 0
  <2>1. PICK i \in Staying : Head(q[i]) = first
    BY <1>2
  <2>2. i \in Bin(q, first)
    BY <2>1 DEF Bin
  <2>. HIDE DEF first
  <2>3. Cardinality(Bin(q, first)) # 0 /\ Cardinality(Bin(q, first)) \in Nat
    BY <2>2, BinsAreFinite, FS_EmptySet, DesyncAssumption
  <2>. QED  BY <2>3
<1>. HIDE DEF first
<1>4. LoopOver(q, first, f, NumWorlds)
  BY <1>1, LoopExists
<1>5. Tally(q) = f[NumWorlds]
  BY DEF Tally, LoopOver, first
<1>. HIDE DEF f
<1>. DEFINE X == {k \in Nat : k <= NumWorlds => Found(q, f[k], k)}
<1>6. 0 \in X
  <2>1. f[0] = [largest |-> first, tied |-> FALSE]
    BY <1>1, <1>4 DEF LoopOver
  <2>2. first \in Worlds
    BY <1>2
  <2>3. Found(q, f[0], 0)
    BY <1>3, <2>1, <2>2 DEF Found
  <2>. QED  BY <2>3
<1>7. ASSUME NEW k \in Nat, k \in X PROVE k + 1 \in X
  <2>. SUFFICES ASSUME k + 1 <= NumWorlds PROVE Found(q, f[k + 1], k + 1)
    OBVIOUS
  <2>1. Found(q, f[k], k)
    BY <1>1, <1>7
  <2>2. k + 1 \in 0..NumWorlds /\ k + 1 # 0 /\ (k + 1) - 1 = k /\ k + 1 \in Worlds
    BY <1>1 DEF Worlds
  <2>3. f[k + 1] = NextBin(q, f[k], k + 1)
    BY <1>4, <2>2 DEF LoopOver
  <2>4. Found(q, NextBin(q, f[k], k + 1), k + 1)
    BY <2>1, <2>2, NextBinFinds
  <2>. QED  BY <2>3, <2>4
<1>. HIDE DEF X
<1>8. NumWorlds \in X
  BY <1>1, <1>6, <1>7, SetInduction
<1>. QED  BY <1>1, <1>5, <1>8 DEF X

\* Who is dropped, and who stays.
LEMMA DesyncedIsFair ==
    ASSUME Staying \subseteq Players, Staying # {}, NEW q \in [Players -> Seq(Worlds)], Complete(q)
    PROVE  LET size(j) == Cardinality(Bin(q, Head(q[j])))
               stay == Staying \ Desynced(q)
           IN /\ \A j \in Staying \ stay, k \in stay : size(j) < size(k)
              /\ \A j, k \in stay : Head(q[j]) = Head(q[k])
              /\ stay = {} => \E j, k \in Staying :
                                /\ Head(q[j]) # Head(q[k]) /\ size(j) = size(k)
                                /\ \A l \in Staying : size(l) <= size(j)
<1>. DEFINE size(j) == Cardinality(Bin(q, Head(q[j])))
            stay == Staying \ Desynced(q)
            t == Tally(q)
<1>0. Desynced(q) = IF t.tied THEN present ELSE {i \in Staying : Head(q[i]) # t.largest}
  BY DEF Desynced
<1>. HIDE DEF t
<1>1. /\ t.largest \in Worlds /\ t.tied \in BOOLEAN
      /\ Cardinality(Bin(q, t.largest)) > 0
      /\ \A v \in Worlds : Cardinality(Bin(q, v)) <= Cardinality(Bin(q, t.largest))
      /\ t.tied <=> \E v \in Worlds : /\ v # t.largest
                                      /\ Cardinality(Bin(q, v)) = Cardinality(Bin(q, t.largest))
  BY TallyFinds DEF Found, Worlds, t
<1>2. /\ \A j \in Staying : Head(q[j]) \in Worlds
      /\ \A w : Cardinality(Bin(q, w)) \in Nat
  BY BinsAreFinite, HeadTailProperties, DesyncAssumption DEF Complete
<1>3. ASSUME NEW k \in stay PROVE Head(q[k]) = t.largest /\ ~t.tied
  BY <1>0, <1>1 DEF Staying
<1>4. ASSUME NEW j \in Staying \ stay, NEW k \in stay PROVE size(j) < size(k)
  <2>1. ~t.tied /\ size(k) = Cardinality(Bin(q, t.largest))
    BY <1>3
  <2>2. Head(q[j]) # t.largest /\ Head(q[j]) \in Worlds
    BY <1>0, <1>2, <1>4, <2>1
  <2>3. size(j) <= Cardinality(Bin(q, t.largest)) /\ size(j) # Cardinality(Bin(q, t.largest))
    BY <1>1, <2>1, <2>2
  <2>4. size(j) \in Nat /\ Cardinality(Bin(q, t.largest)) \in Nat
    BY <1>2
  <2>. HIDE DEF size
  <2>. QED  BY <2>1, <2>3, <2>4
<1>5. ASSUME NEW j \in stay, NEW k \in stay PROVE Head(q[j]) = Head(q[k])
  BY <1>3
<1>6. ASSUME stay = {}
      PROVE  \E j, k \in Staying : /\ Head(q[j]) # Head(q[k]) /\ size(j) = size(k)
                                   /\ \A l \in Staying : size(l) <= size(j)
  <2>1. ASSUME NEW w \in Worlds, Cardinality(Bin(q, w)) > 0 PROVE \E j \in Staying : Head(q[j]) = w
    <3>1. Cardinality(Bin(q, w)) # 0
      BY <1>2, <2>1
    <3>2. Bin(q, w) # {}
      BY <3>1, FS_EmptySet
    <3>. QED  BY <3>2 DEF Bin
  <2>2. PICK j \in Staying : Head(q[j]) = t.largest
    BY <1>1, <2>1
  <2>3. t.tied
    BY <1>0, <1>1, <1>6, <2>2
  <2>4. PICK v \in Worlds : v # t.largest /\ Cardinality(Bin(q, v)) = Cardinality(Bin(q, t.largest))
    BY <1>1, <2>3
  <2>5. PICK k \in Staying : Head(q[k]) = v
    BY <1>1, <2>1, <2>4
  <2>6. \A l \in Staying : size(l) <= size(j)
    BY <1>1, <1>2, <2>2
  <2>. QED  BY <2>2, <2>4, <2>5, <2>6
<1>. QED  BY <1>4, <1>5, <1>6

-----------------------------------------------------------------------------

\* Every state of the model has the right types, for any number of players and worlds.
THEOREM TypeCorrect == Spec => []TypeOK
<1>1. IInv => TypeOK
  BY DEF IInv
<1>. QED  BY <1>1, InitIInv, NextIInv, PTL DEF Spec

\* The checksums at the heads of the queues answer the same update, whoever leaves, is
\* dropped or answers late (EventPlayerKeepAlive).
THEOREM AnswersStayInStep == Spec => []SameUpdateIsCompared
<1>1. IInv => SameUpdateIsCompared
  BY DEF IInv
<1>. QED  BY <1>1, InitIInv, NextIInv, PTL DEF Spec

\* A comparison drops only players of smaller groups, leaves only players who agree, and drops
\* everybody only when the largest groups are equal (EventPlayerKeepAlive 2656-2738).
THEOREM VoteIsAlwaysFair == Spec => VoteIsFair
<1>. DEFINE Fair(i) ==
       \E front \in {[j \in Staying |-> Head(WithAnswer(i)[j])]} :
           LET size(j) == Cardinality({k \in Staying : front[k] = front[j]})
               stay    == present \ deleteMe'
           IN /\ \A j \in Staying \ stay, k \in stay : size(j) < size(k)
              /\ \A j, k \in stay : front[j] = front[k]
              /\ stay = {} => \E j, k \in Staying :
                                /\ front[j] # front[k] /\ size(j) = size(k)
                                /\ \A l \in Staying : size(l) <= size(j)
<1>1. ASSUME IInv, NEW i \in Players, KeepAlive(i), Compares(WithAnswer(i)) PROVE Fair(i)
  <2>. DEFINE q == WithAnswer(i)
              front == [j \in Staying |-> Head(q[j])]
              size(j) == Cardinality({k \in Staying : front[k] = front[j]})
              stay == present \ deleteMe'
  <2>1. /\ Staying \subseteq Players /\ Staying # {} /\ Complete(q)
        /\ q \in [Players -> Seq(Worlds)]
    BY <1>1, AnswerInStep DEF KeepAlive, Compares, Staying, IInv, TypeOK
  <2>2. stay = Staying \ Desynced(q)
    BY <1>1 DEF KeepAlive, Flag, Dropped, Staying
  <2>3. \A j \in Staying : {k \in Staying : front[k] = front[j]} = Bin(q, Head(q[j]))
    BY DEF Bin
  <2>4. \A j \in Staying : size(j) = Cardinality(Bin(q, Head(q[j])))
    BY <2>3
  <2>. HIDE DEF q
  <2>5. /\ \A j \in Staying \ stay, k \in stay : size(j) < size(k)
        /\ \A j, k \in stay : front[j] = front[k]
        /\ stay = {} => \E j, k \in Staying :
                          /\ front[j] # front[k] /\ size(j) = size(k)
                          /\ \A l \in Staying : size(l) <= size(j)
    <3>. HIDE DEF size
    <3>. QED  BY <2>1, <2>2, <2>4, DesyncedIsFair
  <2>. QED  BY <2>5 DEF q
<1>. HIDE DEF Fair
<1>2. IInv /\ [Next]_vars =>
        [\A i \in Players : KeepAlive(i) /\ Compares(WithAnswer(i)) => Fair(i)]_vars
  BY <1>1
<1>. QED  BY <1>2, InitIInv, NextIInv, PTL DEF Spec, VoteIsFair, Fair

=============================================================================
