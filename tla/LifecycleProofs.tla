-------------------------- MODULE LifecycleProofs ---------------------------
(***************************************************************************)
(* What holds of the pool of connections, and of the life of the games for  *)
(* every number of games: the pool is sound whatever the jobs do; what the  *)
(* threads do is a behaviour of the pool, a thread runs on a game that      *)
(* exists, and the main thread holds every game once and no more than       *)
(* m_MaxGames.                                                              *)
(***************************************************************************)
EXTENDS Lifecycle, SequenceTheorems, FiniteSetTheorems, TLAPS

-----------------------------------------------------------------------------
(* The pool of connections by itself, for any number of jobs and of idle    *)
(* connections.  Its inductive invariant: a job that has no connection yet  *)
(* can make one because nobody has its.                                     *)

Fresh ==
    \A j \in Jobs : stage[j] \in {"none", "looking"} =>
        /\ conn[j] = NoConn
        /\ \A k \in Jobs : conn[k] # j
        /\ \A i \in DOMAIN idle : idle[i] # j

PoolInv == PoolTypeOK /\ Fresh /\ PoolIsSound

LEMMA InitPool == PoolInit => PoolInv
<1>. SUFFICES ASSUME PoolInit PROVE PoolInv
  OBVIOUS
<1>1. idle \in Seq(Conns \cup {NoConn}) /\ Len(idle) = 1 /\ DOMAIN idle = {1} /\ idle[1] = First
  BY DEF PoolInit, Conns
<1>2. PoolTypeOK
  BY <1>1 DEF PoolInit, PoolTypeOK, Stages, Outcomes
<1>3. Fresh
  BY <1>1, CallablesAssumption DEF PoolInit, Fresh
<1>4. OneUser /\ ClosedIsGone /\ WorksConnected
  BY <1>1 DEF PoolInit, OneUser, ClosedIsGone, ClosedBy, WorksConnected, Live
<1>5. IdleBounded
  BY <1>1, CallablesAssumption DEF IdleBounded
<1>. QED  BY <1>2, <1>3, <1>4, <1>5 DEF PoolInv, PoolIsSound

\* What GetIdleConnection does to the queue.
LEMMA TakenFromIdle ==
    ASSUME PoolTypeOK
    PROVE  /\ FirstIdle \in Conns \cup {NoConn} /\ OtherIdle \in Seq(Conns \cup {NoConn})
           /\ Len(OtherIdle) <= Len(idle)
           /\ FirstIdle # NoConn => 1 \in DOMAIN idle /\ FirstIdle = idle[1]
           /\ \A i \in DOMAIN OtherIdle :
                i \in Nat /\ i + 1 \in DOMAIN idle /\ i + 1 # 1 /\ OtherIdle[i] = idle[i + 1]
<1>1. idle \in Seq(Conns \cup {NoConn}) /\ Len(idle) \in Nat /\ DOMAIN idle = 1 .. Len(idle)
  BY LenProperties DEF PoolTypeOK
<1>2. CASE idle = << >>
  BY <1>2 DEF FirstIdle, OtherIdle
<1>3. CASE idle # << >>
  <2>1. /\ Len(idle) >= 1 /\ Head(idle) = idle[1] /\ Tail(idle) \in Seq(Conns \cup {NoConn})
        /\ Len(Tail(idle)) = Len(idle) - 1 /\ Head(idle) \in Conns \cup {NoConn}
    BY <1>1, <1>3, HeadTailProperties, EmptySeq
  <2>2. DOMAIN Tail(idle) = 1 .. Len(idle) - 1
    BY <2>1, LenProperties
  <2>3. \A i \in 1 .. Len(idle) - 1 : Tail(idle)[i] = idle[i + 1]
    BY <1>1, <1>3, HeadTailProperties
  <2>. QED  BY <1>1, <1>3, <2>1, <2>2, <2>3 DEF FirstIdle, OtherIdle
<1>. QED  BY <1>2, <1>3

\* A job that has no connection is given what GetIdleConnection returns.
LEMMA TakeStep ==
    ASSUME PoolInv, NEW j \in Jobs, stage[j] \in {"none", "looking"},
           NEW s \in {StageWith(FirstIdle), "ready"},
           stage' = [stage EXCEPT ![j] = s], conn' = [conn EXCEPT ![j] = FirstIdle],
           idle' = OtherIdle, UNCHANGED outcome
    PROVE  PoolInv'
<1>. DEFINE c == FirstIdle
<1>1. PoolTypeOK /\ Fresh /\ OneUser /\ ClosedIsGone /\ WorksConnected /\ IdleBounded
  BY DEF PoolInv, PoolIsSound
<1>2. /\ c \in Conns \cup {NoConn} /\ idle' \in Seq(Conns \cup {NoConn}) /\ Len(idle') <= Len(idle)
      /\ c # NoConn => 1 \in DOMAIN idle /\ c = idle[1]
      /\ \A i \in DOMAIN idle' :
           i \in Nat /\ i + 1 \in DOMAIN idle /\ i + 1 # 1 /\ idle'[i] = idle[i + 1]
  BY <1>1, TakenFromIdle
<1>3. /\ s \in {"looking", "working", "ready"}
      /\ s = "looking" => c = NoConn
      /\ s = "working" => c # NoConn
  BY DEF StageWith
<1>. HIDE DEF c
<1>4. /\ stage'[j] = s /\ conn'[j] = c
      /\ \A k \in Jobs : k # j => stage'[k] = stage[k] /\ conn'[k] = conn[k]
  BY <1>1 DEF PoolTypeOK, c
<1>5. PoolTypeOK'
  BY <1>1, <1>2, <1>3 DEF PoolTypeOK, Stages, c
<1>6. Fresh'
  <2>1. ASSUME NEW k \in Jobs, stage'[k] \in {"none", "looking"}
        PROVE  /\ conn'[k] = NoConn /\ \A l \in Jobs : conn'[l] # k
               /\ \A i \in DOMAIN idle' : idle'[i] # k
    <3>1. stage[k] \in {"none", "looking"}
      BY <1>4, <2>1
    <3>2. c # k
      BY <1>1, <1>2, <3>1, CallablesAssumption DEF Fresh
    <3>. QED  BY <1>1, <1>2, <1>3, <1>4, <2>1, <3>1, <3>2 DEF Fresh
  <2>. QED  BY <2>1 DEF Fresh
<1>7. Live' = Live \cup {j}
  BY <1>3, <1>4 DEF Live
<1>8. OneUser'
  <2>1. \A k \in Live, l \in Live \cup {j} : k # l /\ conn'[k] # NoConn => conn'[k] # conn'[l]
    BY <1>1, <1>2, <1>4 DEF OneUser, Live
  <2>2. \A k \in Live' , l \in Live' : k # l /\ conn'[k] # NoConn => conn'[k] # conn'[l]
    BY <1>7, <2>1
  <2>3. \A i, k \in DOMAIN idle' : i # k /\ idle'[i] # NoConn => idle'[i] # idle'[k]
    BY <1>1, <1>2 DEF OneUser
  <2>4. \A k \in Live', i \in DOMAIN idle' : conn'[k] # NoConn => idle'[i] # conn'[k]
    BY <1>1, <1>2, <1>4, <1>7 DEF OneUser, Live
  <2>. QED  BY <2>2, <2>3, <2>4 DEF OneUser
<1>9. ClosedIsGone'
  <2>1. ASSUME NEW k \in Jobs, ClosedBy(k)', conn'[k] # NoConn
        PROVE  /\ \A i \in DOMAIN idle' : idle'[i] # conn'[k]
               /\ \A l \in Live' : conn'[l] # conn'[k]
    <3>1. k # j /\ ClosedBy(k) /\ conn'[k] = conn[k]
      BY <1>3, <1>4, <2>1 DEF ClosedBy
    <3>2. c # conn[k]
      BY <1>1, <1>2, <2>1, <3>1 DEF ClosedIsGone
    <3>. QED  BY <1>1, <1>2, <1>4, <1>7, <2>1, <3>1, <3>2 DEF ClosedIsGone, Live
  <2>. QED  BY <2>1 DEF ClosedIsGone
<1>10. WorksConnected'
  BY <1>1, <1>3, <1>4 DEF WorksConnected
<1>11. IdleBounded'
  <2>1. Len(idle) \in Nat /\ Len(idle') \in Nat
    BY <1>1, <1>2, LenProperties DEF PoolTypeOK
  <2>. QED  BY <1>1, <1>2, <2>1, CallablesAssumption DEF IdleBounded
<1>. QED  BY <1>5, <1>6, <1>8, <1>9, <1>10, <1>11 DEF PoolInv, PoolIsSound

\* A job makes a connection.
LEMMA ConnectStep == ASSUME PoolInv, NEW j \in Jobs, Connect(j) PROVE PoolInv'
<1>. USE DEF Connect
<1>1. PoolTypeOK /\ Fresh /\ OneUser /\ ClosedIsGone /\ WorksConnected /\ IdleBounded
  BY DEF PoolInv, PoolIsSound
<1>2. /\ stage'[j] = "working" /\ conn'[j] = j /\ j # NoConn
      /\ \A k \in Jobs : k # j => stage'[k] = stage[k] /\ conn'[k] = conn[k]
  BY <1>1, CallablesAssumption DEF PoolTypeOK
<1>3. /\ \A k \in Jobs : conn[k] # j
      /\ \A i \in DOMAIN idle : idle[i] # j
  BY <1>1 DEF Fresh
<1>4. PoolTypeOK'
  BY <1>1 DEF PoolTypeOK, Stages, Conns
<1>5. Fresh'
  BY <1>1, <1>2 DEF Fresh
<1>6. Live' = Live /\ j \in Live
  BY <1>2 DEF Live
<1>7. OneUser'
  BY <1>1, <1>2, <1>3, <1>6 DEF OneUser, Live
<1>8. ClosedIsGone'
  BY <1>1, <1>2, <1>3, <1>6 DEF ClosedIsGone, ClosedBy, Live
<1>9. WorksConnected' /\ IdleBounded'
  BY <1>1, <1>2 DEF WorksConnected, IdleBounded
<1>. QED  BY <1>4, <1>5, <1>7, <1>8, <1>9 DEF PoolInv, PoolIsSound

\* A job does its query.
LEMMA WorkStep == ASSUME PoolInv, NEW j \in Jobs, Work(j) PROVE PoolInv'
<1>. USE DEF Work
<1>1. PoolTypeOK /\ Fresh /\ OneUser /\ ClosedIsGone /\ WorksConnected /\ IdleBounded
  BY DEF PoolInv, PoolIsSound
<1>2. /\ stage'[j] = "ready"
      /\ \A k \in Jobs : k # j => stage'[k] = stage[k] /\ outcome'[k] = outcome[k]
  BY <1>1 DEF PoolTypeOK
<1>3. PoolTypeOK'
  BY <1>1 DEF PoolTypeOK, Stages, Outcomes
<1>4. Fresh'
  BY <1>1, <1>2 DEF Fresh
<1>5. Live' = Live
  BY <1>2 DEF Live
<1>6. OneUser' /\ ClosedIsGone'
  BY <1>1, <1>2, <1>5 DEF OneUser, ClosedIsGone, ClosedBy
<1>7. WorksConnected' /\ IdleBounded'
  BY <1>1, <1>2 DEF WorksConnected, IdleBounded
<1>. QED  BY <1>3, <1>4, <1>6, <1>7 DEF PoolInv, PoolIsSound

\* A job is given back.
LEMMA RecoverStep == ASSUME PoolInv, NEW j \in Jobs, Recover(j) PROVE PoolInv'
<1>. USE DEF Recover
<1>1. PoolTypeOK /\ Fresh /\ OneUser /\ ClosedIsGone /\ WorksConnected /\ IdleBounded
  BY DEF PoolInv, PoolIsSound
<1>2. /\ stage'[j] = "recovered" /\ \A k \in Jobs : k # j => stage'[k] = stage[k]
      /\ conn[j] \in Conns \cup {NoConn} /\ j \in Live
  BY <1>1 DEF PoolTypeOK, Live
<1>3. Live' = Live \ {j}
  BY <1>2 DEF Live
<1>4. /\ idle \in Seq(Conns \cup {NoConn}) /\ Len(idle) \in Nat /\ DOMAIN idle = 1 .. Len(idle)
  BY <1>1, LenProperties DEF PoolTypeOK
<1>5. /\ idle' \in Seq(Conns \cup {NoConn}) /\ IdleBounded'
      /\ \A i \in DOMAIN idle' : \/ i \in DOMAIN idle /\ idle'[i] = idle[i]
                                 \/ Kept(j) /\ i = Len(idle) + 1 /\ idle'[i] = conn[j]
  <2>1. CASE Kept(j)
    <3>1. idle' = Append(idle, conn[j])
      BY <2>1
    <3>2. /\ Append(idle, conn[j]) \in Seq(Conns \cup {NoConn})
          /\ Len(Append(idle, conn[j])) = Len(idle) + 1
          /\ \A i \in 1 .. Len(idle) : Append(idle, conn[j])[i] = idle[i]
          /\ Append(idle, conn[j])[Len(idle) + 1] = conn[j]
      BY <1>2, <1>4, AppendProperties
    <3>3. DOMAIN idle' = 1 .. Len(idle) + 1
      BY <3>1, <3>2, LenProperties
    <3>4. IdleBounded'
      BY <1>4, <2>1, <3>1, <3>2, CallablesAssumption DEF Kept, IdleBounded
    <3>5. ASSUME NEW i \in DOMAIN idle'
          PROVE  \/ i \in DOMAIN idle /\ idle'[i] = idle[i]
                 \/ Kept(j) /\ i = Len(idle) + 1 /\ idle'[i] = conn[j]
      BY <1>4, <2>1, <3>1, <3>2, <3>3
    <3>. QED  BY <3>1, <3>2, <3>4, <3>5
  <2>2. CASE ~Kept(j)
    BY <1>1, <1>4, <2>2 DEF IdleBounded
  <2>. QED  BY <2>1, <2>2
<1>6. PoolTypeOK'
  BY <1>1, <1>5 DEF PoolTypeOK, Stages
<1>7. Fresh'
  BY <1>1, <1>2, <1>5 DEF Fresh
<1>8. OneUser'
  <2>1. \A k, l \in Live' : k # l /\ conn'[k] # NoConn => conn'[k] # conn'[l]
    BY <1>1, <1>3 DEF OneUser
  <2>2. \A i, k \in DOMAIN idle' : i # k /\ idle'[i] # NoConn => idle'[i] # idle'[k]
    BY <1>1, <1>2, <1>5 DEF OneUser
  <2>3. \A k \in Live', i \in DOMAIN idle' : conn'[k] # NoConn => idle'[i] # conn'[k]
    BY <1>1, <1>2, <1>3, <1>5 DEF OneUser
  <2>. QED  BY <2>1, <2>2, <2>3 DEF OneUser
<1>9. ClosedIsGone'
  <2>1. ASSUME NEW k \in Jobs, ClosedBy(k)', conn'[k] # NoConn
        PROVE  /\ \A i \in DOMAIN idle' : idle'[i] # conn'[k]
               /\ \A l \in Live' : conn'[l] # conn'[k]
    <3>1. CASE k = j
      <4>1. ~Kept(j) /\ idle' = idle
        BY <2>1, <3>1 DEF ClosedBy, Kept
      <4>. QED  BY <1>1, <1>2, <1>3, <2>1, <3>1, <4>1 DEF OneUser
    <3>2. CASE k # j
      <4>1. ClosedBy(k)
        BY <1>2, <2>1, <3>2 DEF ClosedBy
      <4>. QED  BY <1>1, <1>2, <1>3, <1>5, <2>1, <4>1 DEF ClosedIsGone
    <3>. QED  BY <3>1, <3>2
  <2>. QED  BY <2>1 DEF ClosedIsGone
<1>10. WorksConnected'
  BY <1>1, <1>2 DEF WorksConnected
<1>. QED  BY <1>5, <1>6, <1>7, <1>8, <1>9, <1>10 DEF PoolInv, PoolIsSound

LEMMA NextPool == PoolInv /\ [PoolNext]_pool => PoolInv'
<1>. SUFFICES ASSUME PoolInv, [PoolNext]_pool PROVE PoolInv'
  OBVIOUS
<1>1. ASSUME NEW j \in Jobs, Threaded(j) PROVE PoolInv'
  <2>1. PICK s \in {StageWith(FirstIdle), "ready"} : stage' = [stage EXCEPT ![j] = s]
    BY <1>1 DEF Threaded
  <2>. QED  BY <1>1, <2>1, TakeStep DEF Threaded
<1>2. ASSUME NEW j \in Jobs, LookAgain(j) PROVE PoolInv'
  BY <1>2, TakeStep DEF LookAgain
<1>3. ASSUME NEW j \in Jobs, Connect(j) PROVE PoolInv'
  BY <1>3, ConnectStep
<1>4. ASSUME NEW j \in Jobs, Work(j) PROVE PoolInv'
  BY <1>4, WorkStep
<1>5. ASSUME NEW j \in Jobs, Recover(j) PROVE PoolInv'
  BY <1>5, RecoverStep
<1>6. CASE UNCHANGED pool
  BY <1>6 DEF pool, PoolInv, PoolTypeOK, Fresh, PoolIsSound, OneUser, ClosedIsGone, ClosedBy,
             WorksConnected, IdleBounded, Live
<1>. QED  BY <1>1, <1>2, <1>3, <1>4, <1>5, <1>6 DEF PoolNext, PoolStep

-----------------------------------------------------------------------------

\* The pool and the jobs store nothing but connections that were made, for any number of jobs.
THEOREM PoolTypeCorrect == PoolSpec => []PoolTypeOK
<1>1. PoolInv => PoolTypeOK
  BY DEF PoolInv
<1>. QED  BY <1>1, InitPool, NextPool, PTL DEF PoolSpec

\* A connection has one user, a closed one none, nobody works without one, and the idle ones
\* are bounded (GetIdleConnection, CMySQLCallable::Init, RecoverCallable).
THEOREM PoolIsAlwaysSound == PoolSpec => []PoolIsSound
<1>1. PoolInv => PoolIsSound
  BY DEF PoolInv
<1>. QED  BY <1>1, InitPool, NextPool, PTL DEF PoolSpec

-----------------------------------------------------------------------------
(* The threads and the pool.                                                *)

\* The jobs of the games are jobs.
LEMMA JobsOfGames == \A g \in Games : Add(g) \in Jobs /\ Rest(g) \in Jobs
  BY LifecycleAssumption DEF Add, Rest, GameJobs

\* Every step is at most one step of one job.
LEMMA OneJobAtATime == [Next]_vars => [PoolNext]_pool
<1>. SUFFICES ASSUME [Next]_vars PROVE [PoolNext]_pool
  OBVIOUS
<1>1. ASSUME NEW g \in Games, UseResult(g) PROVE [PoolNext]_pool
  BY <1>1, JobsOfGames DEF UseResult, PoolNext
<1>2. ASSUME NEW g \in Games, LeaveJobs(g) PROVE [PoolNext]_pool
  BY <1>2, JobsOfGames DEF LeaveJobs, PoolNext
<1>3. CASE MainStep
  <2>1. ASSUME NEW j \in Jobs, SweepJob(j) PROVE [PoolNext]_pool
    BY <2>1 DEF SweepJob, PoolNext
  <2>. QED  BY <1>1, <1>2, <1>3, <2>1 DEF MainStep, DeleteGame, Deleted, Crash, GamesDone, ExitNicely,
                 DoDelete, ForgetCurrent, CountGames, CreateGame, CloseLobby, NothingToDo
<1>4. ASSUME NEW g \in Games, ThreadStep(g) PROVE [PoolNext]_pool
  <2>1. ASSUME SaveGameData(g) PROVE [PoolNext]_pool
    BY <2>1, JobsOfGames DEF SaveGameData, PoolNext
  <2>. QED  BY <1>1, <1>2, <1>4, <2>1 DEF ThreadStep, Loop, Players, LobbyEnds, EventGameStarted,
                 EndOfUpdate, UpdateTrue, EndOfLoop, MarkReady, DeletedItself
<1>5. ASSUME NEW j \in Jobs, JobStep(j) PROVE [PoolNext]_pool
  BY <1>5 DEF JobStep, PoolNext
<1>6. CASE SixtySeconds \/ SignalCatcher \/ UNCHANGED vars
  BY <1>6 DEF SixtySeconds, SignalCatcher, vars
<1>. QED  BY <1>3, <1>4, <1>5, <1>6 DEF Next

\* The games, the main thread and the jobs use the pool as PoolSpec describes it.
THEOREM UsesThePool == Spec => PoolSpec
<1>1. Init => PoolInit
  BY DEF Init
<1>. QED  BY <1>1, OneJobAtATime, PTL DEF Spec, PoolSpec

\* A connection has one user, a closed one none, and the idle ones are bounded, for every
\* number of games and with all that the main thread and the games do with their jobs.
THEOREM GamesKeepThePoolSound == Spec => []PoolIsSound
  BY UsesThePool, PoolIsAlwaysSound, PTL

-----------------------------------------------------------------------------
(* The inductive invariant of the games.                                    *)

\* A game is ready to be deleted only when its thread has left it.
Threads ==
    \A g \in Games :
        /\ thread[g] = "none" <=> object[g] = "none"
        /\ thread[g] = "none" => g \notin started
        /\ m_DoDelete[g] = 2 => thread[g] = "gone"

\* Until a nice exit nobody calls doDelete, and the games that have started are those of m_Games.
Lists ==
    ~m_ExitingNice =>
        /\ main \in {"games", "sweep"}
        /\ \A g \in Games : m_DoDelete[g] # 1 /\ thread[g] # "self"
        /\ m_Games \subseteq started /\ m_CurrentGame \notin started

\* There is room for the game in the lobby.
Room ==
    /\ IsFiniteSet(m_Games)
    /\ ~m_ExitingNice /\ m_CurrentGame # NoGame => Cardinality(m_Games) < MaxGames

IInv == TypeOK /\ PoolInv /\ Threads /\ Lists /\ Room /\ GamesAreHeld

LEMMA InitIInv == Init => IInv
<1>. SUFFICES ASSUME Init PROVE IInv
  OBVIOUS
<1>. USE DEF Init
<1>1. PoolInv
  BY InitPool
<1>2. TypeOK
  <2>1. PoolTypeOK /\ 0 \in 0 .. 3
    BY <1>1 DEF PoolInv
  <2>. QED  BY <2>1 DEF TypeOK, Parts, Ends, Places
<1>3. Threads /\ Lists
  BY LifecycleAssumption DEF Threads, Lists
<1>4. IsFiniteSet(m_Games) /\ Cardinality(m_Games) = 0
  BY FS_EmptySet
<1>5. Room /\ GamesBounded
  BY <1>4, LifecycleAssumption DEF Room, GamesBounded
<1>6. ThreadsRunOnGames /\ HeldOnce
  BY LifecycleAssumption DEF ThreadsRunOnGames, HeldOnce, Held
<1>. QED  BY <1>1, <1>2, <1>3, <1>5, <1>6 DEF IInv, GamesAreHeld

-----------------------------------------------------------------------------
(* The steps.                                                               *)

\* A part of the main thread that leaves the games, the lists and the flags alone.
LEMMA MainMoves ==
    ASSUME IInv, PoolInv', UNCHANGED <<lists, thread, object, flags>>,
           main' \in Parts \cup Ends, m_AllGamesFinished' \in BOOLEAN, waited' \in BOOLEAN,
           bnets' \in BOOLEAN, target' \in Games \cup {NoGame}, m_ExitingNice' \in BOOLEAN,
           m_ExitingNice => m_ExitingNice',
           ~m_ExitingNice' => main' \in {"games", "sweep"}
    PROVE  IInv'
<1>. USE DEF lists, flags
<1>1. TypeOK'
  BY DEF IInv, TypeOK, PoolInv
<1>2. Threads'
  BY DEF IInv, Threads
<1>3. Lists' /\ Room'
  BY DEF IInv, Lists, Room
<1>4. GamesAreHeld'
  BY DEF IInv, GamesAreHeld, ThreadsRunOnGames, HeldOnce, Held, GamesBounded
<1>. QED  BY <1>1, <1>2, <1>3, <1>4 DEF IInv

LEMMA MainIInv == IInv /\ PoolInv' /\ MainStep => IInv'
<1>. SUFFICES ASSUME IInv, PoolInv', MainStep PROVE IInv'
  OBVIOUS
<1>0. TypeOK /\ PoolTypeOK' /\ Threads /\ Lists /\ Room /\ ThreadsRunOnGames /\ HeldOnce /\ GamesBounded
  BY DEF IInv, PoolInv, GamesAreHeld
<1>1. ASSUME NEW g \in Games, DeleteGame(g) PROVE IInv'
  <2>. USE DEF DeleteGame, exit, lists, flags
  <2>1. TypeOK'
    BY <1>0, <1>1 DEF TypeOK
  <2>2. thread[g] = "gone" /\ object[g] = "alive"
    BY <1>0, <1>1 DEF readyDelete, Threads
  <2>3. Threads' /\ Lists' /\ Room'
    BY <1>0, <1>1, <2>2 DEF TypeOK, Threads, Lists, Room
  <2>4. GamesAreHeld'
    BY <1>0, <1>1, <2>2 DEF TypeOK, GamesAreHeld, ThreadsRunOnGames, HeldOnce, Held, GamesBounded
  <2>. QED  BY <2>1, <2>3, <2>4 DEF IInv
<1>2. ASSUME NEW g \in Games, thread[g] = "gone", UseResult(g) PROVE IInv'
  <2>. USE DEF UseResult, exit, lists
  <2>1. TypeOK'
    BY <1>0, <1>2 DEF TypeOK
  <2>2. Threads' /\ Lists' /\ Room'
    BY <1>0, <1>2 DEF TypeOK, Threads, Lists, Room
  <2>3. GamesAreHeld'
    BY <1>0, <1>2 DEF TypeOK, GamesAreHeld, ThreadsRunOnGames, HeldOnce, Held, GamesBounded
  <2>. QED  BY <2>1, <2>2, <2>3 DEF IInv
<1>3. ASSUME NEW g \in Games, Deleted(g) PROVE IInv'
  <2>. USE DEF Deleted, LeaveJobs, exit, flags
  <2>1. TypeOK'
    BY <1>0, <1>3, JobsOfGames DEF TypeOK, Unfinished
  <2>2. Threads' /\ Lists'
    BY <1>0, <1>3, LifecycleAssumption DEF TypeOK, Threads, Lists
  <2>3. /\ IsFiniteSet(m_Games') /\ Cardinality(m_Games') <= Cardinality(m_Games)
        /\ Cardinality(m_Games') \in Nat /\ Cardinality(m_Games) \in Nat
    BY <1>0, <1>3, FS_Subset, FS_CardinalityType DEF Room
  <2>4. Room' /\ GamesBounded'
    BY <1>0, <1>3, <2>3, LifecycleAssumption DEF Room, GamesBounded
  <2>5. ThreadsRunOnGames' /\ HeldOnce'
    BY <1>0, <1>3, LifecycleAssumption DEF TypeOK, ThreadsRunOnGames, HeldOnce, Held
  <2>. QED  BY <2>1, <2>2, <2>4, <2>5 DEF IInv, GamesAreHeld
<1>4. CASE Crash
  <2>1. m_ExitingNice
    BY <1>0, <1>4 DEF Crash, HeldOnce
  <2>. QED  BY <1>0, <1>4, <2>1, MainMoves DEF Crash, TypeOK, Ends, exit
<1>5. CASE GamesDone
  BY <1>0, <1>5, MainMoves DEF GamesDone, Main, TypeOK, Parts, exit
<1>6. CASE ExitNicely
  <2>1. m_ExitingNice
    BY <1>0, <1>6 DEF ExitNicely, Lists
  <2>. QED  BY <1>0, <1>6, <2>1, MainMoves DEF ExitNicely, TypeOK, Parts
<1>7. CASE DoDelete
  <2>. USE DEF DoDelete, exit, lists
  <2>1. m_ExitingNice
    BY <1>0, <1>7 DEF Lists
  <2>2. TypeOK'
    BY <1>0, <1>7 DEF TypeOK, Parts, Ends
  <2>3. Threads' /\ Lists' /\ Room'
    BY <1>0, <1>7, <2>1 DEF TypeOK, Threads, Lists, Room
  <2>4. GamesAreHeld'
    BY <1>0, <1>7, <2>1 DEF GamesAreHeld, ThreadsRunOnGames, HeldOnce, GamesBounded
  <2>. QED  BY <2>2, <2>3, <2>4 DEF IInv
<1>8. CASE ForgetCurrent
  <2>. USE DEF ForgetCurrent, Main, flags
  <2>1. m_ExitingNice
    BY <1>0, <1>8 DEF Lists
  <2>2. TypeOK'
    BY <1>0, <1>8 DEF TypeOK, Parts
  <2>3. Threads' /\ Lists' /\ Room'
    BY <1>0, <1>8, <2>1 DEF TypeOK, Threads, Lists, Room
  <2>4. GamesAreHeld'
    BY <1>0, <1>8, <2>1 DEF GamesAreHeld, ThreadsRunOnGames, HeldOnce, GamesBounded
  <2>. QED  BY <2>2, <2>3, <2>4 DEF IInv
<1>9. CASE CountGames
  <2>1. m_ExitingNice
    BY <1>0, <1>9 DEF CountGames, Lists
  <2>. QED  BY <1>0, <1>9, <2>1, MainMoves DEF CountGames, TypeOK, Parts, Ends
<1>10. ASSUME NEW j \in Jobs, SweepJob(j) PROVE IInv'
  <2>. USE DEF SweepJob, exit, flags
  <2>1. TypeOK'
    BY <1>0, <1>10 DEF TypeOK
  <2>2. Threads' /\ Lists' /\ Room'
    BY <1>0, <1>10 DEF Threads, Lists, Room
  <2>3. GamesAreHeld'
    BY <1>0, <1>10 DEF GamesAreHeld, ThreadsRunOnGames, HeldOnce, Held, GamesBounded
  <2>. QED  BY <2>1, <2>2, <2>3 DEF IInv
<1>11. ASSUME NEW g \in Games, CreateGame(g) PROVE IInv'
  <2>. USE DEF CreateGame, AfterSweep, Main, exit
  <2>1. g # NoGame /\ m_CurrentGame = NoGame /\ Cardinality(m_Games) < MaxGames
    BY <1>11, LifecycleAssumption DEF MayCreate
  <2>2. object[g] = "none" /\ g \notin started
    BY <1>0, <1>11 DEF Threads
  <2>3. TypeOK'
    BY <1>0, <1>11 DEF TypeOK, Parts, Places
  <2>4. Threads' /\ Lists' /\ Room'
    BY <1>0, <1>11, <2>1, <2>2 DEF TypeOK, Threads, Lists, Room
  <2>5. ThreadsRunOnGames' /\ GamesBounded'
    BY <1>0, <1>11, <2>2 DEF TypeOK, ThreadsRunOnGames, GamesBounded
  <2>6. HeldOnce'
    BY <1>0, <1>11, <2>1, <2>2 DEF TypeOK, HeldOnce, Held, Lists
  <2>. QED  BY <2>3, <2>4, <2>5, <2>6 DEF IInv, GamesAreHeld
<1>12. CASE CloseLobby
  <2>. USE DEF CloseLobby, AfterSweep, Main, exit, lists
  <2>1. TypeOK'
    BY <1>0, <1>12 DEF TypeOK, Parts
  <2>2. Threads' /\ Lists' /\ Room'
    BY <1>0, <1>12 DEF Threads, Lists, Room
  <2>3. GamesAreHeld'
    BY <1>0, <1>12 DEF GamesAreHeld, ThreadsRunOnGames, HeldOnce, Held, GamesBounded
  <2>. QED  BY <2>1, <2>2, <2>3 DEF IInv
<1>13. CASE NothingToDo
  BY <1>0, <1>13, MainMoves DEF NothingToDo, AfterSweep, Main, TypeOK, Parts, exit
<1>. QED  BY <1>1, <1>2, <1>3, <1>4, <1>5, <1>6, <1>7, <1>8, <1>9, <1>10, <1>11, <1>12, <1>13 DEF MainStep

\* The thread of a game moves on by itself, not to the end of the game.
MovesOn(g) ==
    /\ thread[g] \notin {"none", "self", "gone"}
    /\ thread'[g] \in Places \ {"none", "self"}
    /\ thread' \in [Games -> Places]
    /\ \A h \in Games : h # g => thread'[h] = thread[h]

\* A step that only moves on, and sets flags of the game.
LEMMA ThreadMoves ==
    ASSUME IInv, PoolInv', NEW g \in Games, MovesOn(g),
           UNCHANGED <<exit, lists, main, object, started>>,
           thread'[g] = "gone" \/ m_DoDelete'[g] # 2,
           m_DoDelete' \in [Games -> 0 .. 3],
           \A h \in Games : m_DoDelete'[h] = m_DoDelete[h] \/ (h = g /\ m_DoDelete'[h] # 1),
           m_Exiting' \subseteq Games, m_Saving' \subseteq Games, players' \subseteq Games,
           saved' \subseteq Games
    PROVE  IInv'
<1>. USE DEF exit, lists, MovesOn
<1>0. TypeOK /\ PoolTypeOK' /\ Threads /\ Lists /\ Room /\ ThreadsRunOnGames /\ HeldOnce /\ GamesBounded
  BY DEF IInv, PoolInv, GamesAreHeld
<1>2. TypeOK'
  BY <1>0 DEF TypeOK
<1>3. Threads'
  BY <1>0 DEF Threads
<1>4. Lists'
  BY <1>0 DEF Lists
<1>5. Room' /\ HeldOnce' /\ GamesBounded'
  BY <1>0 DEF Room, HeldOnce, Held, GamesBounded
<1>6. ThreadsRunOnGames'
  BY <1>0 DEF ThreadsRunOnGames
<1>. QED  BY <1>2, <1>3, <1>4, <1>5, <1>6 DEF IInv, GamesAreHeld

\* The same when no flag of m_DoDelete is set.
LEMMA ThreadOnlyMoves ==
    ASSUME IInv, PoolInv', NEW g \in Games, MovesOn(g),
           UNCHANGED <<exit, lists, main, object, started, m_DoDelete>>,
           m_Exiting' \subseteq Games, m_Saving' \subseteq Games, players' \subseteq Games,
           saved' \subseteq Games
    PROVE  IInv'
<1>1. m_DoDelete[g] # 2 /\ m_DoDelete \in [Games -> 0 .. 3]
  BY DEF IInv, Threads, TypeOK, MovesOn
<1>2. UNCHANGED <<exit, lists, main, object, started>> /\ UNCHANGED m_DoDelete
  OBVIOUS
<1>3. \A h \in Games : m_DoDelete'[h] = m_DoDelete[h] \/ (h = g /\ m_DoDelete'[h] # 1)
  BY <1>2
<1>4. (thread'[g] = "gone" \/ m_DoDelete'[g] # 2) /\ m_DoDelete' \in [Games -> 0 .. 3]
  BY <1>1, <1>2
<1>. QED  BY <1>2, <1>3, <1>4, ThreadMoves

LEMMA ThreadIInv == ASSUME IInv, PoolInv', NEW g \in Games, ThreadStep(g) PROVE IInv'
<1>0. TypeOK /\ PoolTypeOK' /\ Threads /\ Lists /\ Room /\ ThreadsRunOnGames /\ HeldOnce /\ GamesBounded
  BY DEF IInv, PoolInv, GamesAreHeld
<1>2. CASE Loop(g)
  <2>1. MovesOn(g)
    BY <1>0, <1>2 DEF Loop, Thread, MovesOn, TypeOK, Places
  <2>. QED  BY <1>0, <1>2, <2>1, ThreadOnlyMoves DEF Loop, TypeOK, flags
<1>3. CASE Players(g)
  <2>1. MovesOn(g)
    BY <1>0, <1>3 DEF Players, Thread, MovesOn, TypeOK, Places
  <2>2. players' \subseteq Games
    BY <1>0, <1>3 DEF Players, TypeOK
  <2>3. /\ UNCHANGED <<exit, lists, main, object, started, m_DoDelete>>
        /\ m_Exiting' \subseteq Games /\ m_Saving' \subseteq Games /\ saved' \subseteq Games
    BY <1>0, <1>3 DEF Players, TypeOK
  <2>. QED  BY <2>1, <2>2, <2>3, ThreadOnlyMoves
<1>4. CASE LobbyEnds(g)
  <2>1. MovesOn(g)
    BY <1>0, <1>4 DEF LobbyEnds, Thread, MovesOn, TypeOK, Places
  <2>. QED  BY <1>0, <1>4, <2>1, ThreadOnlyMoves DEF LobbyEnds, TypeOK, flags
<1>5. CASE EventGameStarted(g)
  <2>. USE DEF EventGameStarted, Thread, exit
  <2>1. /\ thread[g] = "update" /\ thread'[g] = "check" /\ object[g] = "alive" /\ g # NoGame
        /\ \A h \in Games : h # g => thread'[h] = thread[h]
    BY <1>0, <1>5, LifecycleAssumption DEF TypeOK, ThreadsRunOnGames
  <2>2. TypeOK'
    BY <1>0, <1>5 DEF TypeOK, CurrentAfter, Places
  <2>3. Threads'
    BY <1>0, <1>5, <2>1 DEF Threads
  <2>4. ~m_ExitingNice => m_CurrentGame = g
    BY <1>0, <1>5, <2>1 DEF HeldOnce, Held, Lists
  <2>5. Lists'
    BY <1>0, <1>5, <2>1, LifecycleAssumption DEF Lists, CurrentAfter, TypeOK
  <2>6. IsFiniteSet(m_Games') /\ Cardinality(m_Games') <= Cardinality(m_Games) + 1
        /\ Cardinality(m_Games') \in Nat /\ Cardinality(m_Games) \in Nat
    <3>1. IsFiniteSet(m_Games) /\ Cardinality(m_Games) \in Nat
      BY <1>0, FS_CardinalityType DEF Room
    <3>2. /\ IsFiniteSet(m_Games \cup {g})
          /\ Cardinality(m_Games \cup {g}) \in {Cardinality(m_Games), Cardinality(m_Games) + 1}
      BY <3>1, FS_AddElement
    <3>. QED  BY <1>5, <3>1, <3>2
  <2>7. Room' /\ GamesBounded'
    BY <1>0, <1>5, <2>1, <2>4, <2>6, LifecycleAssumption DEF Room, GamesBounded, CurrentAfter
  <2>8. ThreadsRunOnGames'
    BY <1>0, <1>5, <2>1 DEF ThreadsRunOnGames
  <2>9. HeldOnce'
    BY <1>0, <1>5, <2>1, <2>4, LifecycleAssumption DEF HeldOnce, Held, CurrentAfter, TypeOK
  <2>. QED  BY <2>2, <2>3, <2>5, <2>7, <2>8, <2>9 DEF IInv, GamesAreHeld
<1>6. CASE SaveGameData(g)
  <2>1. MovesOn(g)
    BY <1>0, <1>6 DEF SaveGameData, Thread, MovesOn, TypeOK, Places
  <2>. QED  BY <1>0, <1>6, <2>1, ThreadOnlyMoves DEF SaveGameData, TypeOK
<1>7. CASE EndOfUpdate(g)
  <2>1. MovesOn(g)
    BY <1>0, <1>7 DEF EndOfUpdate, Thread, MovesOn, TypeOK, Places
  <2>. QED  BY <1>0, <1>7, <2>1, ThreadOnlyMoves DEF EndOfUpdate, TypeOK, flags
<1>8. CASE UpdateTrue(g)
  <2>1. MovesOn(g)
    BY <1>0, <1>8 DEF UpdateTrue, Thread, MovesOn, TypeOK, Places
  <2>2. /\ m_DoDelete' \in [Games -> 0 .. 3] /\ m_DoDelete'[g] = 3
        /\ \A h \in Games : h # g => m_DoDelete'[h] = m_DoDelete[h]
    BY <1>0, <1>8 DEF UpdateTrue, TypeOK
  <2>3. /\ UNCHANGED <<exit, lists, main, object, started>>
        /\ m_Exiting' \subseteq Games /\ m_Saving' \subseteq Games /\ players' \subseteq Games
        /\ saved' \subseteq Games
    BY <1>0, <1>8 DEF UpdateTrue, TypeOK
  <2>4. /\ thread'[g] = "gone" \/ m_DoDelete'[g] # 2
        /\ \A h \in Games : m_DoDelete'[h] = m_DoDelete[h] \/ (h = g /\ m_DoDelete'[h] # 1)
    BY <2>1, <2>2
  <2>. QED  BY <2>1, <2>2, <2>3, <2>4, ThreadMoves
<1>9. CASE EndOfLoop(g)
  <2>1. CASE m_DoDelete[g] = 1
    <3>. USE DEF EndOfLoop, Thread, exit, lists, flags
    <3>1. /\ m_ExitingNice /\ thread[g] = "end" /\ thread'[g] = "self" /\ object'[g] = "dying"
          /\ \A h \in Games : h # g => thread'[h] = thread[h] /\ object'[h] = object[h]
      BY <1>0, <1>9, <2>1 DEF Lists, TypeOK
    <3>2. TypeOK'
      BY <1>0, <1>9, <2>1 DEF TypeOK, Places
    <3>3. Threads' /\ Lists' /\ Room'
      BY <1>0, <1>9, <2>1, <3>1 DEF Threads, Lists, Room
    <3>4. GamesAreHeld'
      BY <1>0, <1>9, <3>1 DEF GamesAreHeld, ThreadsRunOnGames, HeldOnce, GamesBounded
    <3>. QED  BY <3>2, <3>3, <3>4 DEF IInv
  <2>2. CASE m_DoDelete[g] # 1
    <3>1. UNCHANGED object
      BY <1>0, <1>9, <2>2 DEF EndOfLoop, TypeOK
    <3>2. MovesOn(g)
      BY <1>0, <1>9, <2>2 DEF EndOfLoop, Thread, MovesOn, TypeOK, Places
    <3>3. /\ UNCHANGED <<exit, lists, main, started, m_DoDelete>>
          /\ m_Exiting' \subseteq Games /\ m_Saving' \subseteq Games /\ players' \subseteq Games
          /\ saved' \subseteq Games
      BY <1>0, <1>9 DEF EndOfLoop, TypeOK, flags
    <3>. QED  BY <3>1, <3>2, <3>3, ThreadOnlyMoves
  <2>. QED  BY <2>1, <2>2
<1>10. CASE MarkReady(g)
  <2>1. MovesOn(g) /\ thread'[g] = "gone"
    BY <1>0, <1>10 DEF MarkReady, Thread, MovesOn, TypeOK, Places
  <2>2. /\ m_DoDelete' \in [Games -> 0 .. 3] /\ m_DoDelete'[g] = 2
        /\ \A h \in Games : h # g => m_DoDelete'[h] = m_DoDelete[h]
    BY <1>0, <1>10 DEF MarkReady, TypeOK
  <2>3. /\ UNCHANGED <<exit, lists, main, object, started>>
        /\ m_Exiting' \subseteq Games /\ m_Saving' \subseteq Games /\ players' \subseteq Games
        /\ saved' \subseteq Games
    BY <1>0, <1>10 DEF MarkReady, TypeOK
  <2>4. /\ thread'[g] = "gone" \/ m_DoDelete'[g] # 2
        /\ \A h \in Games : m_DoDelete'[h] = m_DoDelete[h] \/ (h = g /\ m_DoDelete'[h] # 1)
    BY <2>1, <2>2
  <2>. QED  BY <2>1, <2>2, <2>3, <2>4, ThreadMoves
<1>11. CASE thread[g] = "self" /\ UseResult(g)
  <2>. USE DEF UseResult, exit, lists
  <2>1. TypeOK'
    BY <1>0, <1>11 DEF TypeOK
  <2>2. Threads' /\ Lists' /\ Room'
    BY <1>0, <1>11 DEF TypeOK, Threads, Lists, Room
  <2>3. GamesAreHeld'
    BY <1>0, <1>11 DEF TypeOK, GamesAreHeld, ThreadsRunOnGames, HeldOnce, Held, GamesBounded
  <2>. QED  BY <2>1, <2>2, <2>3 DEF IInv
<1>12. CASE DeletedItself(g)
  <2>. USE DEF DeletedItself, LeaveJobs, exit, flags
  <2>1. m_ExitingNice
    BY <1>0, <1>12 DEF Lists
  <2>2. TypeOK'
    BY <1>0, <1>12, JobsOfGames DEF TypeOK, Unfinished, Places
  <2>3. Threads' /\ Lists' /\ Room'
    BY <1>0, <1>12, <2>1 DEF TypeOK, Threads, Lists, Room
  <2>4. GamesAreHeld'
    BY <1>0, <1>12, <2>1 DEF TypeOK, GamesAreHeld, ThreadsRunOnGames, HeldOnce, GamesBounded
  <2>. QED  BY <2>2, <2>3, <2>4 DEF IInv
<1>. QED  BY <1>2, <1>3, <1>4, <1>5, <1>6, <1>7, <1>8, <1>9, <1>10, <1>11, <1>12 DEF ThreadStep

LEMMA NextIInv == IInv /\ [Next]_vars => IInv'
<1>. SUFFICES ASSUME IInv, [Next]_vars PROVE IInv'
  OBVIOUS
<1>0. TypeOK /\ Threads /\ Lists /\ Room /\ GamesAreHeld /\ PoolInv
  BY DEF IInv
<1>1. PoolInv'
  BY <1>0, OneJobAtATime, NextPool
<1>2. CASE MainStep
  BY <1>1, <1>2, MainIInv
<1>3. ASSUME NEW g \in Games, ThreadStep(g) PROVE IInv'
  BY <1>1, <1>3, ThreadIInv
<1>4. CASE SixtySeconds \/ SignalCatcher
  BY <1>0, <1>1, <1>4, MainMoves DEF SixtySeconds, SignalCatcher, Running, TypeOK, Lists
<1>5. ASSUME NEW j \in Jobs, JobStep(j) PROVE IInv'
  <2>. USE DEF JobStep, exit, lists, flags
  <2>1. TypeOK'
    BY <1>0, <1>1, <1>5 DEF TypeOK, PoolInv
  <2>2. Threads' /\ Lists' /\ Room'
    BY <1>0, <1>5 DEF Threads, Lists, Room
  <2>3. GamesAreHeld'
    BY <1>0, <1>5 DEF GamesAreHeld, ThreadsRunOnGames, HeldOnce, Held, GamesBounded
  <2>. QED  BY <1>1, <2>1, <2>2, <2>3 DEF IInv
<1>6. CASE UNCHANGED vars
  <2>1. UNCHANGED <<exit, lists, main, thread, object, flags>>
    BY <1>6 DEF vars
  <2>2. TypeOK'
    BY <1>0, <1>1, <2>1 DEF TypeOK, PoolInv, exit, lists, flags
  <2>3. Threads' /\ Lists' /\ Room'
    BY <1>0, <2>1 DEF Threads, Lists, Room, exit, lists, flags
  <2>4. GamesAreHeld'
    BY <1>0, <2>1 DEF GamesAreHeld, ThreadsRunOnGames, HeldOnce, Held, GamesBounded, exit, lists, flags
  <2>. QED  BY <1>1, <2>2, <2>3, <2>4 DEF IInv
<1>. QED  BY <1>2, <1>3, <1>4, <1>5, <1>6 DEF Next

-----------------------------------------------------------------------------
(* The jobs of the games: where each one is, and what becomes of the result *)
(* of the game.                                                             *)

\* The jobs of a game have not been given away before it is gone, and a game that has started
\* is in m_Games until it is.  The main thread stays with the games that it deletes.
JobsOfGame(g) ==
    /\ g \notin m_Saving => stage[Add(g)] = "none"
    /\ g \in m_Saving => g \in started
    /\ object[g] # "gone" => stage[Rest(g)] = "none" /\ Add(g) \notin m_Callables
    /\ object[g] = "gone" => thread[g] = "gone" /\ stage[Rest(g)] # "none"
    /\ object[g] \in {"none", "alive", "dying"} => stage[Add(g)] # "recovered"
    /\ g \in started /\ object[g] # "gone" => g \in m_Games
    /\ thread[g] = "self" => m_DoDelete[g] = 1 /\ object[g] \in {"dying", "dead"}
    /\ object[g] \in {"dying", "dead"} /\ thread[g] # "self" =>
         thread[g] = "gone" /\ main = "games" /\ g \in Held

\* Nothing is left to save, or its job has ended.
Finished(g) == g \in m_Exiting \/ stage[Add(g)] \in {"none", "ready"}

\* The thread will not come back to the game, and doDelete is not why.
Leaving(g) ==
    \/ thread[g] \in {"true", "mark"}
    \/ thread[g] = "end" /\ m_DoDelete[g] # 1
    \/ thread[g] = "gone" /\ object[g] \in {"alive", "dying"}

\* What was to be saved is saved.
Accounted(g) ==
    \/ g \in m_Exiting \/ stage[Add(g)] = "none"
    \/ stage[Add(g)] = "recovered" /\ (outcome[Add(g)] = "result" => g \in saved)

ResultOfGame(g) ==
    /\ Leaving(g) => Finished(g)
    /\ thread[g] \in {"none", "loop", "update", "check", "true"} => m_DoDelete[g] \in {0, 1}
    /\ object[g] = "dead" /\ thread[g] = "gone" => Accounted(g)
    /\ object[g] = "gone" => Accounted(g) \/ Raced(g)

OutcomesAreLate == \A j \in Jobs : stage[j] \notin {"ready", "recovered"} => outcome[j] = "none"

ExitIsLast == main = "exited" => m_Games = {} /\ (m_Callables = {} \/ waited)

JInv ==
    /\ \A g \in Games : JobsOfGame(g) /\ ResultOfGame(g)
    /\ OutcomesAreLate /\ ExitIsLast /\ NoJobLeaked

\* The jobs of the games are different ones, and there are no others.
LEMMA JobsDiffer ==
    /\ \A g, h \in Games : Add(g) # Rest(h)
    /\ \A g, h \in Games : g # h => Add(g) # Add(h) /\ Rest(g) # Rest(h)
    /\ \A j \in Jobs : \E g \in Games : j = Add(g) \/ j = Rest(g)
  BY LifecycleAssumption DEF Add, Rest, GameJobs

LEMMA ThreadedJob ==
    ASSUME PoolTypeOK, NEW j \in Jobs, Threaded(j)
    PROVE  /\ stage[j] = "none" /\ stage'[j] \in {"looking", "working", "ready"}
           /\ \A k \in Jobs : k # j => stage'[k] = stage[k]
           /\ UNCHANGED outcome
  BY DEF Threaded, StageWith, PoolTypeOK

LEMMA RecoveredJob ==
    ASSUME PoolTypeOK, NEW j \in Jobs, Recover(j)
    PROVE  /\ stage[j] = "ready" /\ stage'[j] = "recovered"
           /\ \A k \in Jobs : k # j => stage'[k] = stage[k]
           /\ UNCHANGED outcome
  BY DEF Recover, PoolTypeOK

LEMMA RunningJob ==
    ASSUME PoolTypeOK, NEW j \in Jobs, PoolStep(j)
    PROVE  /\ stage[j] \in {"looking", "working"} /\ stage'[j] \in {"looking", "working", "ready"}
           /\ \A k \in Jobs : k # j => stage'[k] = stage[k] /\ outcome'[k] = outcome[k]
           /\ stage'[j] # "ready" => outcome'[j] = outcome[j]
  BY DEF PoolStep, LookAgain, Connect, Work, StageWith, PoolTypeOK

LEMMA InitJInv == Init => JInv
<1>. SUFFICES ASSUME Init PROVE JInv
  OBVIOUS
<1>. USE JobsOfGames DEF Init, PoolInit
<1>1. \A g \in Games : JobsOfGame(g)
  BY DEF JobsOfGame
<1>2. \A g \in Games : ResultOfGame(g)
  BY DEF ResultOfGame, Leaving
<1>. QED  BY <1>1, <1>2 DEF JInv, OutcomesAreLate, ExitIsLast, NoJobLeaked, Live

\* The main thread goes on, and leaves the games and the jobs alone.
LEMMA MainMovesJ ==
    ASSUME IInv, JInv,
           UNCHANGED <<lists, thread, object, m_DoDelete, m_Saving, started, saved, pool>>,
           m_Exiting \subseteq m_Exiting', waited => waited',
           main' = main \/ main # "games" \/ GamesMutexIsFree,
           main' = "exited" => m_Games = {} /\ (m_Callables = {} \/ waited')
    PROVE  JInv'
<1>. USE DEF lists, pool
<1>1. ASSUME NEW g \in Games PROVE JobsOfGame(g)'
  BY <1>1 DEF JInv, JobsOfGame, Held, GamesMutexIsFree, Dying
<1>2. ASSUME NEW g \in Games PROVE ResultOfGame(g)'
  BY <1>2 DEF JInv, ResultOfGame, Leaving, Finished, Accounted, Raced
<1>3. OutcomesAreLate' /\ ExitIsLast' /\ NoJobLeaked'
  BY DEF JInv, OutcomesAreLate, ExitIsLast, NoJobLeaked, Live
<1>. QED  BY <1>1, <1>2, <1>3 DEF JInv

\* The thread of a game moves on, and changes no job.
LEMMA ThreadMovesJ ==
    ASSUME IInv, JInv, NEW g \in Games, MovesOn(g),
           UNCHANGED <<exit, lists, main, object, m_Exiting, m_Saving, started, saved, pool>>,
           \A h \in Games : h # g => m_DoDelete'[h] = m_DoDelete[h],
           Leaving(g)' => Finished(g),
           thread'[g] \in {"loop", "update", "check", "true"} => m_DoDelete'[g] \in {0, 1}
    PROVE  JInv'
<1>. USE DEF lists, pool, MovesOn
<1>1. object[g] = "alive" /\ object'[g] = "alive"
  BY DEF IInv, GamesAreHeld, ThreadsRunOnGames
<1>2. ASSUME NEW h \in Games PROVE JobsOfGame(h)'
  BY <1>1, <1>2 DEF JInv, JobsOfGame, Held
<1>3. ASSUME NEW h \in Games PROVE ResultOfGame(h)'
  <2>1. CASE h = g
    BY <1>1, <2>1 DEF ResultOfGame, Finished
  <2>2. CASE h # g
    BY <1>3, <2>2 DEF JInv, ResultOfGame, Leaving, Finished, Accounted, Raced
  <2>. QED  BY <2>1, <2>2
<1>4. OutcomesAreLate' /\ ExitIsLast' /\ NoJobLeaked'
  BY DEF JInv, OutcomesAreLate, ExitIsLast, NoJobLeaked, Live, exit
<1>. QED  BY <1>2, <1>3, <1>4 DEF JInv

\* Either destructor.
LEMMA UseResultJ == ASSUME IInv, JInv, NEW g \in Games, UseResult(g) PROVE JInv'
<1>. USE DEF UseResult, exit, lists
<1>0. /\ TypeOK /\ PoolTypeOK /\ \A h \in Games : JobsOfGame(h) /\ ResultOfGame(h)
      /\ OutcomesAreLate /\ ExitIsLast /\ NoJobLeaked /\ Add(g) \in Jobs
  BY JobsOfGames DEF IInv, JInv, PoolInv
<1>1. /\ object[g] = "dying" /\ object'[g] = "dead"
      /\ \A h \in Games : h # g => object'[h] = object[h]
  BY <1>0 DEF TypeOK
<1>2. /\ stage[Add(g)] = "ready" =>
           /\ stage'[Add(g)] = "recovered"
           /\ outcome[Add(g)] = "result" => g \in saved'
      /\ stage[Add(g)] # "ready" => stage'[Add(g)] = stage[Add(g)]
      /\ \A k \in Jobs : k # Add(g) => stage'[k] = stage[k]
      /\ UNCHANGED outcome /\ saved \subseteq saved'
  BY <1>0, RecoveredJob DEF pool
<1>3. ASSUME NEW h \in Games PROVE JobsOfGame(h)'
  BY <1>0, <1>1, <1>2, <1>3, JobsOfGames, JobsDiffer DEF JobsOfGame, Held
<1>4. ASSUME NEW h \in Games PROVE ResultOfGame(h)'
  <2>1. CASE h = g
    BY <1>0, <1>1, <1>2, <2>1 DEF JobsOfGame, ResultOfGame, Leaving, Finished, Accounted
  <2>2. CASE h # g
    <3>1. stage'[Add(h)] = stage[Add(h)]
      BY <1>2, <2>2, JobsOfGames, JobsDiffer
    <3>. QED  BY <1>0, <1>1, <1>2, <2>2, <3>1 DEF ResultOfGame, Leaving, Finished, Accounted, Raced
  <2>. QED  BY <2>1, <2>2
<1>5. NoJobLeaked'
  BY <1>0, <1>1, <1>2, JobsOfGames, JobsDiffer DEF JobsOfGame, NoJobLeaked, Live
<1>6. OutcomesAreLate' /\ ExitIsLast'
  BY <1>0, <1>2 DEF OutcomesAreLate, ExitIsLast
<1>. QED  BY <1>3, <1>4, <1>5, <1>6 DEF JInv

LEMMA LeaveJobsJ ==
    ASSUME IInv, JInv, NEW g \in Games, LeaveJobs(g), Accounted(g) \/ Raced(g)',
           main \in {"games"} \/ Running, thread'[g] = "gone",
           \A h \in Games : h # g => thread'[h] = thread[h],
           m_Games' = m_Games \/ m_Games' = m_Games \ {g},
           m_CurrentGame' # m_CurrentGame => m_CurrentGame = g
    PROVE  JInv'
<1>. USE DEF LeaveJobs, exit, flags
<1>0. /\ TypeOK /\ PoolTypeOK /\ \A h \in Games : JobsOfGame(h) /\ ResultOfGame(h)
      /\ OutcomesAreLate /\ ExitIsLast /\ NoJobLeaked /\ Rest(g) \in Jobs /\ Add(g) \in Jobs
  BY JobsOfGames DEF IInv, JInv, PoolInv
<1>1. /\ object[g] = "dead" /\ object'[g] = "gone"
      /\ \A h \in Games : h # g => object'[h] = object[h]
  BY <1>0 DEF TypeOK
<1>2. /\ stage[Rest(g)] = "none" /\ stage'[Rest(g)] \in {"looking", "working", "ready"}
      /\ \A k \in Jobs : k # Rest(g) => stage'[k] = stage[k]
      /\ UNCHANGED outcome
  BY <1>0, ThreadedJob
<1>3. \A h \in Games : stage'[Add(h)] = stage[Add(h)]
  BY <1>2, JobsOfGames, JobsDiffer
<1>4. \A h \in Games : h # g => stage'[Rest(h)] = stage[Rest(h)]
  BY <1>2, JobsOfGames, JobsDiffer
<1>5. m_Callables' = m_Callables \cup {Rest(g)} \cup ({Add(g)} \cap Live)
  BY DEF Unfinished
<1>6. ASSUME NEW h \in Games PROVE JobsOfGame(h)'
  <2>1. CASE h = g
    BY <1>0, <1>1, <1>2, <1>3, <2>1 DEF JobsOfGame
  <2>2. CASE h # g
    <3>1. object[h] # "gone" => Add(h) \notin m_Callables'
      BY <1>0, <1>5, <2>2, JobsDiffer DEF JobsOfGame
    <3>. QED  BY <1>0, <1>1, <1>3, <1>4, <1>6, <2>2, <3>1 DEF JobsOfGame, Held
  <2>. QED  BY <2>1, <2>2
<1>7. ASSUME NEW h \in Games PROVE ResultOfGame(h)'
  <2>1. CASE h = g
    BY <1>0, <1>1, <1>3, <1>2, <2>1 DEF ResultOfGame, Leaving, Accounted
  <2>2. CASE h # g
    BY <1>0, <1>1, <1>2, <1>3, <2>2 DEF ResultOfGame, Leaving, Finished, Accounted, Raced
  <2>. QED  BY <2>1, <2>2
<1>8. NoJobLeaked'
  <2>1. m_Callables' \subseteq Live'
    BY <1>0, <1>2, <1>5 DEF NoJobLeaked, Live
  <2>2. ASSUME NEW h \in Games, NEW j \in {Add(h), Rest(h)}, j \in Live'
        PROVE  j \in m_Callables' \/ object'[h] \in {"alive", "dying", "dead"}
    <3>1. CASE h = g
      BY <1>2, <1>3, <1>5, <2>2, <3>1 DEF Live
    <3>2. CASE h # g
      BY <1>0, <1>1, <1>3, <1>4, <1>5, <2>2, <3>2 DEF NoJobLeaked, Live
    <3>. QED  BY <3>1, <3>2
  <2>. QED  BY <2>1, <2>2 DEF NoJobLeaked
<1>9. OutcomesAreLate' /\ ExitIsLast'
  BY <1>0, <1>2 DEF OutcomesAreLate, ExitIsLast, Running, Parts
<1>. QED  BY <1>6, <1>7, <1>8, <1>9 DEF JInv

LEMMA MainJInv == IInv /\ JInv /\ MainStep => JInv'
<1>. SUFFICES ASSUME IInv, JInv, MainStep PROVE JInv'
  OBVIOUS
<1>0. /\ TypeOK /\ PoolTypeOK /\ Threads /\ Lists /\ ThreadsRunOnGames
      /\ \A g \in Games : JobsOfGame(g) /\ ResultOfGame(g)
      /\ OutcomesAreLate /\ ExitIsLast /\ NoJobLeaked
  BY DEF IInv, JInv, PoolInv, GamesAreHeld
<1>1. ASSUME NEW g \in Games, DeleteGame(g) PROVE JInv'
  <2>. USE DEF DeleteGame, exit, lists, flags, pool
  <2>1. thread[g] = "gone" /\ object[g] = "alive" /\ object'[g] = "dying"
        /\ \A h \in Games : h # g => object'[h] = object[h]
    BY <1>0, <1>1 DEF readyDelete, Threads, TypeOK
  <2>2. ASSUME NEW h \in Games PROVE JobsOfGame(h)'
    BY <1>0, <1>1, <2>1, <2>2 DEF JobsOfGame, Held
  <2>3. ASSUME NEW h \in Games PROVE ResultOfGame(h)'
    BY <1>0, <1>1, <2>1, <2>3 DEF ResultOfGame, Leaving, Finished, Accounted, Raced
  <2>4. OutcomesAreLate' /\ ExitIsLast' /\ NoJobLeaked'
    BY <1>0, <1>1, <2>1 DEF OutcomesAreLate, ExitIsLast, NoJobLeaked, Live
  <2>. QED  BY <2>2, <2>3, <2>4 DEF JInv
<1>2. ASSUME NEW g \in Games, thread[g] = "gone", UseResult(g) PROVE JInv'
  BY <1>2, UseResultJ
<1>3. ASSUME NEW g \in Games, Deleted(g) PROVE JInv'
  <2>1. thread[g] = "gone" /\ object[g] = "dead" /\ main = "games"
    BY <1>0, <1>3 DEF Deleted, LeaveJobs, JobsOfGame
  <2>2. Accounted(g)
    BY <1>0, <2>1 DEF ResultOfGame
  <2>3. /\ LeaveJobs(g) /\ UNCHANGED thread
        /\ m_Games' = m_Games \ {g} /\ m_CurrentGame' \in {m_CurrentGame, NoGame}
        /\ m_CurrentGame' # m_CurrentGame => m_CurrentGame = g
    BY <1>3 DEF Deleted
  <2>. QED  BY <2>1, <2>2, <2>3, LeaveJobsJ
<1>4. CASE Crash
  BY <1>0, <1>4, MainMovesJ DEF Crash, exit, flags
<1>5. CASE GamesDone
  <2>1. GamesMutexIsFree
    BY <1>0, <1>5 DEF GamesDone, GamesMutexIsFree, Dying, JobsOfGame
  <2>. QED  BY <1>0, <1>5, <2>1, MainMovesJ DEF GamesDone, Main, exit, flags
<1>6. CASE ExitNicely
  BY <1>0, <1>6, MainMovesJ DEF ExitNicely, flags
<1>7. CASE DoDelete
  <2>. USE DEF DoDelete, exit, lists, pool
  <2>1. m_DoDelete' \in [Games -> 0 .. 3]
        /\ \A h \in Games : m_DoDelete'[h] = m_DoDelete[h] \/ m_DoDelete'[h] = 1
    BY <1>0, <1>7 DEF TypeOK
  <2>2. ASSUME NEW h \in Games PROVE JobsOfGame(h)'
    BY <1>0, <1>7, <2>1, <2>2 DEF JobsOfGame, Held
  <2>3. ASSUME NEW h \in Games PROVE ResultOfGame(h)'
    BY <1>0, <1>7, <2>1, <2>3 DEF ResultOfGame, Leaving, Finished, Accounted, Raced
  <2>4. OutcomesAreLate' /\ ExitIsLast' /\ NoJobLeaked'
    BY <1>0, <1>7 DEF OutcomesAreLate, ExitIsLast, NoJobLeaked, Live
  <2>. QED  BY <2>2, <2>3, <2>4 DEF JInv
<1>8. CASE ForgetCurrent
  <2>. USE DEF ForgetCurrent, Main, flags, pool
  <2>1. ASSUME NEW h \in Games PROVE JobsOfGame(h)'
    BY <1>0, <1>8, <2>1 DEF JobsOfGame, Held
  <2>2. ASSUME NEW h \in Games PROVE ResultOfGame(h)'
    BY <1>0, <1>8, <2>2 DEF ResultOfGame, Leaving, Finished, Accounted, Raced
  <2>3. OutcomesAreLate' /\ ExitIsLast' /\ NoJobLeaked'
    BY <1>0, <1>8 DEF OutcomesAreLate, ExitIsLast, NoJobLeaked, Live
  <2>. QED  BY <2>1, <2>2, <2>3 DEF JInv
<1>9. CASE CountGames
  BY <1>0, <1>9, MainMovesJ DEF CountGames, JobsDone, flags
<1>10. ASSUME NEW j \in Jobs, SweepJob(j) PROVE JInv'
  <2>. USE DEF SweepJob, exit, flags
  <2>1. /\ stage[j] = "ready" /\ stage'[j] = "recovered" /\ UNCHANGED outcome
        /\ \A k \in Jobs : k # j => stage'[k] = stage[k]
    BY <1>0, <1>10, RecoveredJob
  <2>2. \A h \in Games : j \in {Add(h), Rest(h)} => object[h] = "gone"
    BY <1>0, <1>10, <2>1 DEF JobsOfGame
  <2>3. ASSUME NEW h \in Games PROVE JobsOfGame(h)'
    BY <1>0, <1>10, <2>1, <2>2, <2>3, JobsOfGames DEF JobsOfGame, Held, TypeOK
  <2>4. ASSUME NEW h \in Games PROVE ResultOfGame(h)'
    BY <1>0, <1>10, <2>1, <2>2, <2>4, JobsOfGames
       DEF JobsOfGame, ResultOfGame, Leaving, Finished, Accounted, Raced
  <2>5. NoJobLeaked'
    BY <1>0, <1>10, <2>1, JobsOfGames DEF NoJobLeaked, Live
  <2>6. OutcomesAreLate' /\ ExitIsLast'
    BY <1>0, <1>10, <2>1 DEF OutcomesAreLate, ExitIsLast
  <2>. QED  BY <2>3, <2>4, <2>5, <2>6 DEF JInv
<1>11. ASSUME NEW g \in Games, CreateGame(g) PROVE JInv'
  <2>. USE DEF CreateGame, AfterSweep, Main, exit, pool
  <2>1. /\ object[g] = "none" /\ object'[g] = "alive" /\ thread'[g] = "loop"
        /\ \A h \in Games : h # g => object'[h] = object[h] /\ thread'[h] = thread[h]
    BY <1>0, <1>11 DEF Threads, TypeOK
  <2>2. ASSUME NEW h \in Games PROVE JobsOfGame(h)'
    BY <1>0, <1>11, <2>1, <2>2 DEF JobsOfGame, Held
  <2>3. ASSUME NEW h \in Games PROVE ResultOfGame(h)'
    BY <1>0, <1>11, <2>1, <2>3 DEF ResultOfGame, Leaving, Finished, Accounted, Raced
  <2>4. OutcomesAreLate' /\ ExitIsLast' /\ NoJobLeaked'
    BY <1>0, <1>11, <2>1 DEF OutcomesAreLate, ExitIsLast, NoJobLeaked, Live
  <2>. QED  BY <2>2, <2>3, <2>4 DEF JInv
<1>12. CASE CloseLobby
  BY <1>0, <1>12, MainMovesJ DEF CloseLobby, AfterSweep, Main, exit
<1>13. CASE NothingToDo
  BY <1>0, <1>13, MainMovesJ DEF NothingToDo, AfterSweep, Main, exit, flags
<1>. QED  BY <1>1, <1>2, <1>3, <1>4, <1>5, <1>6, <1>7, <1>8, <1>9, <1>10, <1>11, <1>12, <1>13 DEF MainStep

LEMMA ThreadJInv == ASSUME IInv, JInv, NEW g \in Games, ThreadStep(g) PROVE JInv'
<1>0. /\ TypeOK /\ PoolTypeOK /\ Threads /\ Lists /\ ThreadsRunOnGames
      /\ \A h \in Games : JobsOfGame(h) /\ ResultOfGame(h)
      /\ OutcomesAreLate /\ ExitIsLast /\ NoJobLeaked /\ Add(g) \in Jobs
  BY JobsOfGames DEF IInv, JInv, PoolInv, GamesAreHeld
<1>1. CASE Loop(g)
  <2>1. MovesOn(g) /\ (thread'[g] = "end" => m_DoDelete[g] = 1) /\ thread'[g] \in {"update", "end"}
    BY <1>0, <1>1 DEF Loop, Thread, MovesOn, TypeOK, Places, ResultOfGame
  <2>2. ~ Leaving(g)'
    BY <1>1, <2>1 DEF Loop, Leaving, flags
  <2>. QED  BY <1>0, <1>1, <2>1, <2>2, ThreadMovesJ DEF Loop, flags, Thread, ResultOfGame
<1>2. CASE Players(g)
  <2>1. MovesOn(g) /\ thread[g] = "update" /\ thread'[g] = "check"
    BY <1>0, <1>2 DEF Players, Thread, MovesOn, TypeOK, Places
  <2>2. ~ Leaving(g)' /\ m_DoDelete[g] \in {0, 1}
    BY <1>0, <2>1 DEF Leaving, ResultOfGame
  <2>. QED  BY <1>2, <2>1, <2>2, ThreadMovesJ DEF Players
<1>3. CASE LobbyEnds(g)
  <2>1. MovesOn(g) /\ thread[g] = "update" /\ thread'[g] = "true"
    BY <1>0, <1>3 DEF LobbyEnds, Thread, MovesOn, TypeOK, Places
  <2>2. Finished(g) /\ m_DoDelete[g] \in {0, 1}
    BY <1>0, <1>3, <2>1 DEF LobbyEnds, Finished, JobsOfGame, ResultOfGame
  <2>. QED  BY <1>3, <2>1, <2>2, ThreadMovesJ DEF LobbyEnds, flags
<1>4. CASE EventGameStarted(g)
  <2>. USE DEF EventGameStarted, Thread, exit, pool
  <2>1. /\ thread[g] = "update" /\ thread'[g] = "check" /\ object[g] = "alive"
        /\ \A h \in Games : h # g => thread'[h] = thread[h]
    BY <1>0, <1>4 DEF TypeOK, ThreadsRunOnGames
  <2>2. ASSUME NEW h \in Games PROVE JobsOfGame(h)'
    BY <1>0, <1>4, <2>1, <2>2 DEF JobsOfGame, GamesMutexIsFree, Dying
  <2>3. ASSUME NEW h \in Games PROVE ResultOfGame(h)'
    BY <1>0, <1>4, <2>1, <2>3 DEF ResultOfGame, Leaving, Finished, Accounted, Raced
  <2>4. OutcomesAreLate' /\ ExitIsLast' /\ NoJobLeaked'
    BY <1>0, <1>4 DEF OutcomesAreLate, ExitIsLast, NoJobLeaked, Live, Running, Parts
  <2>. QED  BY <2>2, <2>3, <2>4 DEF JInv
<1>5. CASE SaveGameData(g)
  <2>. USE DEF SaveGameData, Thread, exit, lists
  <2>1. /\ thread[g] = "check" /\ object[g] = "alive" /\ g \in started
        /\ thread'[g] = IF g \in m_Exiting THEN "true" ELSE "loop"
        /\ \A h \in Games : h # g => thread'[h] = thread[h]
    BY <1>0, <1>5 DEF IsOver, TypeOK, ThreadsRunOnGames
  <2>2. /\ stage[Add(g)] = "none" /\ stage'[Add(g)] \in {"looking", "working", "ready"}
        /\ \A k \in Jobs : k # Add(g) => stage'[k] = stage[k]
        /\ UNCHANGED outcome
    BY <1>0, <1>5, ThreadedJob
  <2>3. ASSUME NEW h \in Games PROVE JobsOfGame(h)'
    <3>1. stage'[Rest(h)] = stage[Rest(h)]
      BY <2>2, JobsOfGames, JobsDiffer
    <3>2. h # g => stage'[Add(h)] = stage[Add(h)]
      BY <2>2, JobsOfGames, JobsDiffer
    <3>. QED  BY <1>0, <1>5, <2>1, <2>2, <2>3, <3>1, <3>2 DEF JobsOfGame, Held
  <2>4. ASSUME NEW h \in Games PROVE ResultOfGame(h)'
    <3>1. h # g => stage'[Add(h)] = stage[Add(h)]
      BY <2>2, JobsOfGames, JobsDiffer
    <3>. QED  BY <1>0, <1>5, <2>1, <2>2, <2>4, <3>1 DEF ResultOfGame, Leaving, Finished, Accounted, Raced
  <2>5. NoJobLeaked'
    BY <1>0, <1>5, <2>1, <2>2, JobsOfGames, JobsDiffer DEF NoJobLeaked, Live
  <2>6. OutcomesAreLate' /\ ExitIsLast'
    BY <1>0, <1>5, <2>2 DEF OutcomesAreLate, ExitIsLast
  <2>. QED  BY <2>3, <2>4, <2>5, <2>6 DEF JInv
<1>6. CASE EndOfUpdate(g)
  <2>1. MovesOn(g) /\ thread[g] = "check" /\ thread'[g] \in {"true", "loop"}
    BY <1>0, <1>6 DEF EndOfUpdate, Thread, MovesOn, TypeOK, Places
  <2>2. m_DoDelete[g] \in {0, 1}
    BY <1>0, <2>1 DEF ResultOfGame
  <2>3. thread'[g] = "true" => Finished(g)
    BY <1>0, <1>6, <2>1 DEF EndOfUpdate, Thread, Finished, IsGameDataSaved, TypeOK
  <2>4. Leaving(g)' => Finished(g)
    BY <2>1, <2>3 DEF Leaving
  <2>. QED  BY <1>6, <2>1, <2>2, <2>4, ThreadMovesJ DEF EndOfUpdate, flags
<1>7. CASE UpdateTrue(g)
  <2>1. MovesOn(g) /\ thread[g] = "true" /\ thread'[g] = "end"
    BY <1>0, <1>7 DEF UpdateTrue, Thread, MovesOn, TypeOK, Places
  <2>2. Finished(g)
    BY <1>0, <2>1 DEF ResultOfGame, Leaving
  <2>3. \A h \in Games : h # g => m_DoDelete'[h] = m_DoDelete[h]
    BY <1>0, <1>7 DEF UpdateTrue, TypeOK
  <2>. QED  BY <1>7, <2>1, <2>2, <2>3, ThreadMovesJ DEF UpdateTrue
<1>8. CASE EndOfLoop(g)
  <2>1. CASE m_DoDelete[g] = 1
    <3>. USE DEF EndOfLoop, Thread, exit, lists, flags, pool
    <3>1. /\ thread[g] = "end" /\ thread'[g] = "self" /\ object[g] = "alive" /\ object'[g] = "dying"
          /\ \A h \in Games : h # g => thread'[h] = thread[h] /\ object'[h] = object[h]
      BY <1>0, <1>8, <2>1 DEF ThreadsRunOnGames, TypeOK
    <3>2. ASSUME NEW h \in Games PROVE JobsOfGame(h)'
      BY <1>0, <1>8, <2>1, <3>1, <3>2 DEF JobsOfGame, Held
    <3>3. ASSUME NEW h \in Games PROVE ResultOfGame(h)'
      BY <1>0, <1>8, <3>1, <3>3 DEF ResultOfGame, Leaving, Finished, Accounted, Raced
    <3>4. OutcomesAreLate' /\ ExitIsLast' /\ NoJobLeaked'
      BY <1>0, <1>8, <3>1 DEF OutcomesAreLate, ExitIsLast, NoJobLeaked, Live
    <3>. QED  BY <3>2, <3>3, <3>4 DEF JInv
  <2>2. CASE m_DoDelete[g] # 1
    <3>1. MovesOn(g) /\ thread[g] = "end" /\ thread'[g] = "mark"
      BY <1>0, <1>8, <2>2 DEF EndOfLoop, Thread, MovesOn, TypeOK, Places
    <3>2. Finished(g)
      BY <1>0, <2>2, <3>1 DEF ResultOfGame, Leaving
    <3>3. UNCHANGED object
      BY <1>0, <1>8, <2>2 DEF EndOfLoop, TypeOK
    <3>. QED  BY <1>8, <3>1, <3>2, <3>3, ThreadMovesJ DEF EndOfLoop, flags
  <2>. QED  BY <2>1, <2>2
<1>9. CASE MarkReady(g)
  <2>1. MovesOn(g) /\ thread[g] = "mark" /\ thread'[g] = "gone"
    BY <1>0, <1>9 DEF MarkReady, Thread, MovesOn, TypeOK, Places
  <2>2. Finished(g)
    BY <1>0, <2>1 DEF ResultOfGame, Leaving
  <2>3. \A h \in Games : h # g => m_DoDelete'[h] = m_DoDelete[h]
    BY <1>0, <1>9 DEF MarkReady, TypeOK
  <2>. QED  BY <1>9, <2>1, <2>2, <2>3, ThreadMovesJ DEF MarkReady
<1>10. CASE UseResult(g)
  BY <1>10, UseResultJ
<1>11. CASE Running /\ DeletedItself(g)
  <2>1. /\ thread[g] = "self" /\ thread'[g] = "gone" /\ LeaveJobs(g)
        /\ UNCHANGED <<m_Games, m_CurrentGame, m_DoDelete>>
        /\ \A h \in Games : h # g => thread'[h] = thread[h]
    BY <1>0, <1>11 DEF DeletedItself, LeaveJobs, flags, TypeOK
  <2>2. Accounted(g) \/ Raced(g)'
    BY <1>0, <2>1 DEF JobsOfGame, Accounted, Raced, LeaveJobs
  <2>. QED  BY <1>11, <2>1, <2>2, LeaveJobsJ
<1>. QED  BY <1>1, <1>2, <1>3, <1>4, <1>5, <1>6, <1>7, <1>8, <1>9, <1>10, <1>11 DEF ThreadStep

LEMMA NextJInv == IInv /\ JInv /\ [Next]_vars => JInv'
<1>. SUFFICES ASSUME IInv, JInv, [Next]_vars PROVE JInv'
  OBVIOUS
<1>1. ASSUME NEW j \in Jobs, JobStep(j) PROVE JInv'
  <2>. USE DEF JobStep, exit, lists, flags
  <2>0. /\ PoolTypeOK /\ \A g \in Games : JobsOfGame(g) /\ ResultOfGame(g)
        /\ OutcomesAreLate /\ ExitIsLast /\ NoJobLeaked
    BY DEF IInv, JInv, PoolInv
  <2>1. /\ stage[j] \in {"looking", "working"} /\ stage'[j] \in {"looking", "working", "ready"}
        /\ \A k \in Jobs : k # j => stage'[k] = stage[k] /\ outcome'[k] = outcome[k]
        /\ stage'[j] # "ready" => outcome'[j] = outcome[j]
    BY <1>1, <2>0, RunningJob
  <2>2. ASSUME NEW g \in Games PROVE JobsOfGame(g)'
    BY <1>1, <2>0, <2>1, <2>2, JobsOfGames DEF JobsOfGame, Held
  <2>3. ASSUME NEW g \in Games PROVE ResultOfGame(g)'
    BY <1>1, <2>0, <2>1, <2>3, JobsOfGames DEF ResultOfGame, Leaving, Finished, Accounted, Raced
  <2>4. NoJobLeaked'
    BY <1>1, <2>0, <2>1, JobsOfGames DEF NoJobLeaked, Live
  <2>5. OutcomesAreLate' /\ ExitIsLast'
    BY <1>1, <2>0, <2>1 DEF OutcomesAreLate, ExitIsLast
  <2>. QED  BY <2>2, <2>3, <2>4, <2>5 DEF JInv
<1>2. CASE SixtySeconds \/ SignalCatcher
  BY <1>2, MainMovesJ DEF JInv, SixtySeconds, SignalCatcher, Running, Parts, flags, ExitIsLast
<1>3. CASE UNCHANGED vars
  BY <1>3, MainMovesJ DEF JInv, vars, exit, flags, ExitIsLast
<1>. QED  BY <1>1, <1>2, <1>3, MainJInv, ThreadJInv DEF Next

-----------------------------------------------------------------------------

\* Every state of the model has the right types, for any number of games.
THEOREM TypeCorrect == Spec => []TypeOK
<1>1. IInv => TypeOK
  BY DEF IInv
<1>. QED  BY <1>1, InitIInv, NextIInv, PTL DEF Spec

\* A thread runs on a game that exists, and until a nice exit the main thread holds each game
\* once and has at most m_MaxGames in progress, whichever thread moves and deletes them
\* (CreateGame, EventGameStarted, readyDelete).
THEOREM GamesAreAlwaysHeld == Spec => []GamesAreHeld
<1>1. IInv => GamesAreHeld
  BY DEF IInv
<1>. QED  BY <1>1, InitIInv, NextIInv, PTL DEF Spec

\* No job of a game is lost: each one belongs to a game or to m_Callables until it is given
\* back, the results of a game are saved unless it was told to exit or doDelete raced with its
\* start, and a nice exit leaves nothing behind (~CGame, IsGameDataSaved, CGHost::Update).
THEOREM JobsAreAlwaysKept == Spec => []JobsAreKept
<1>1. IInv /\ JInv => JobsAreKept
  <2>. SUFFICES ASSUME IInv, JInv PROVE JobsAreKept
    OBVIOUS
  <2>0. /\ PoolTypeOK /\ OutcomesAreLate /\ ExitIsLast /\ NoJobLeaked
        /\ \A g \in Games : JobsOfGame(g) /\ ResultOfGame(g)
    BY DEF IInv, JInv, PoolInv
  <2>1. ResultsAreSaved
    <3>. SUFFICES ASSUME NEW g \in Games, object[g] = "gone", outcome[Add(g)] = "result"
                  PROVE  g \in saved \cup m_Exiting \/ Raced(g)
      BY DEF ResultsAreSaved
    <3>1. stage[Add(g)] \in {"ready", "recovered"}
      BY <2>0, JobsOfGames DEF OutcomesAreLate
    <3>. QED  BY <2>0, <3>1 DEF ResultOfGame, Accounted
  <2>2. NiceExitLosesNothing
    <3>. SUFFICES ASSUME main = "exited", ~waited, NEW g \in started
                  PROVE  object[g] = "gone" /\ stage[Rest(g)] = "recovered"
      BY DEF NiceExitLosesNothing
    <3>1. g \in Games /\ m_Games = {} /\ m_Callables = {} /\ Rest(g) \in Jobs
      BY <2>0, JobsOfGames DEF IInv, TypeOK, ExitIsLast
    <3>2. object[g] = "gone" /\ stage[Rest(g)] # "none"
      BY <2>0, <3>1 DEF JobsOfGame
    <3>3. Rest(g) \notin Live
      BY <2>0, <3>1, <3>2 DEF NoJobLeaked
    <3>. QED  BY <2>0, <3>1, <3>2, <3>3 DEF Live, PoolTypeOK, Stages
  <2>. QED  BY <2>0, <2>1, <2>2 DEF JobsAreKept
<1>. QED  BY <1>1, InitIInv, NextIInv, InitJInv, NextJInv, PTL DEF Spec

=============================================================================
