----------------------------- MODULE Callables -----------------------------
(***************************************************************************)
(* The database jobs (callables) and the pool of MySQL connections they    *)
(* share.  Whoever wants a job done, the main thread or the thread of a     *)
(* game, creates a callable, which runs in a thread of its own, polls       *)
(* GetReady, reads the result and gives the callable back.                  *)
(*                                                                          *)
(* Left out: the queries, the times, how often a job looks for a free       *)
(* connection before it makes one (three times), and the counters           *)
(* m_NumConnections and m_OutstandingCallables, which are only printed.     *)
(***************************************************************************)
EXTENDS Naturals, Sequences

CONSTANTS
  Jobs,      \* every callable that is ever created
  MaxIdle,   \* more idle connections than this and one that is given back is closed (8)
  First,     \* the connection that the constructor of the pool makes
  NoConn     \* NULL

ASSUME CallablesAssumption ==
  /\ MaxIdle \in Nat
  /\ First # NoConn
  /\ First \notin Jobs /\ NoConn \notin Jobs

VARIABLES
  stage,     \* how far each job is
  conn,      \* m_Connection of each job
  outcome,   \* what became of the job: an error is a m_Error that is not empty
  idle       \* m_IdleConnections

pool == <<stage, conn, outcome, idle>>

\* A connection that a job makes is named for the job.
Conns == Jobs \cup {First}

Stages == {"none", "looking", "working", "ready", "recovered"}
Outcomes == {"none", "result", "error"}

PoolInit ==
  /\ stage = [j \in Jobs |-> "none"]
  /\ conn = [j \in Jobs |-> NoConn]
  /\ outcome = [j \in Jobs |-> "none"]
  /\ idle = <<First>>

----------------------------------------------------------------------------

\* What GetIdleConnection returns, and what it leaves.
FirstIdle == IF idle = <<>> THEN NoConn ELSE Head(idle)

\* Mutant: the connection stays in the queue.
StillIdle == idle

OtherIdle == IF idle = <<>> THEN <<>> ELSE Tail(idle)

\* A job without a connection looks for one.
StageWith(c) == IF c = NoConn THEN "looking" ELSE "working"

\* ThreadedX: the callable is created with an idle connection if there is one.  A
\* thread that cannot be started, not on the second attempt either, leaves a job that
\* is ready and has no result.
Threaded(j) ==
  /\ stage[j] = "none"
  /\ stage' \in {[stage EXCEPT ![j] = s] : s \in {StageWith(FirstIdle), "ready"}}
  /\ conn' = [conn EXCEPT ![j] = FirstIdle]
  /\ idle' = OtherIdle
  /\ UNCHANGED outcome

\* Init of a job that has no connection: it looks again.  A NULL in the queue is none.
LookAgain(j) ==
  /\ stage[j] = "looking"
  /\ idle # <<>>
  /\ conn' = [conn EXCEPT ![j] = FirstIdle]
  /\ idle' = OtherIdle
  /\ stage' = [stage EXCEPT ![j] = StageWith(FirstIdle)]
  /\ UNCHANGED outcome

\* In the end it makes a connection.
Connect(j) ==
  /\ stage[j] = "looking"
  /\ conn' = [conn EXCEPT ![j] = j]
  /\ stage' = [stage EXCEPT ![j] = "working"]
  /\ UNCHANGED <<outcome, idle>>

\* The query; Close sets m_Ready.  The error may be that the connection that was made
\* does not reach the server, or that an old one no longer does.
Work(j) ==
  /\ stage[j] = "working"
  /\ stage' = [stage EXCEPT ![j] = "ready"]
  /\ outcome' \in {[outcome EXCEPT ![j] = o] : o \in {"result", "error"}}
  /\ UNCHANGED <<conn, idle>>

\* A connection is kept unless there are enough or the job failed.
Kept(j) == Len(idle) <= MaxIdle /\ outcome[j] # "error"

\* RecoverCallable, after which the callable is deleted.
Recover(j) ==
  /\ stage[j] = "ready"
  /\ stage' = [stage EXCEPT ![j] = "recovered"]
  /\ idle' = IF Kept(j) THEN Append(idle, conn[j]) ELSE idle
  /\ UNCHANGED <<conn, outcome>>

\* What the thread of a job does.
PoolStep(j) == LookAgain(j) \/ Connect(j) \/ Work(j)

PoolNext == \E j \in Jobs : Threaded(j) \/ PoolStep(j) \/ Recover(j)

PoolSpec == PoolInit /\ [][PoolNext]_pool

----------------------------------------------------------------------------

\* The jobs that hold a connection, or are about to.
Live == {j \in Jobs : stage[j] \in {"looking", "working", "ready"}}

\* The connections that RecoverCallable has closed because the job failed.
ClosedBy(j) == stage[j] = "recovered" /\ outcome[j] = "error"

\* Nothing but what the constructor and the jobs make is ever stored.
PoolTypeOK ==
  /\ stage \in [Jobs -> Stages]
  /\ conn \in [Jobs -> Conns \cup {NoConn}]
  /\ outcome \in [Jobs -> Outcomes]
  /\ idle \in Seq(Conns \cup {NoConn})

\* A connection has one user: two jobs never talk on the same connection, none is idle
\* twice, and none is idle while a job uses it (GetIdleConnection, RecoverCallable).
OneUser ==
  /\ \A j, k \in Live : j # k /\ conn[j] # NoConn => conn[j] # conn[k]
  /\ \A i, k \in DOMAIN idle : i # k /\ idle[i] # NoConn => idle[i] # idle[k]
  /\ \A j \in Live, i \in DOMAIN idle : conn[j] # NoConn => idle[i] # conn[j]

\* A connection that was closed after an error is neither idle nor used again.
ClosedIsGone ==
  \A j \in Jobs : ClosedBy(j) /\ conn[j] # NoConn =>
    /\ \A i \in DOMAIN idle : idle[i] # conn[j]
    /\ \A k \in Live : conn[k] # conn[j]

\* No job does its query without a connection, although the NULL of a job whose thread
\* could not be started goes to the queue of idle connections too.
WorksConnected == \A j \in Jobs : stage[j] = "working" => conn[j] # NoConn

\* The queue is bounded: at most MaxIdle + 1 connections are idle.
IdleBounded == Len(idle) <= MaxIdle + 1

\* All of it, whichever threads search, connect, fail and give back in between.
PoolIsSound == OneUser /\ ClosedIsGone /\ WorksConnected /\ IdleBounded

=============================================================================
