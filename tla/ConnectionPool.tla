---------------------------- MODULE ConnectionPool ----------------------------
(***************************************************************************)
(* The two libpq connection pools: CopyConnectionPool with CopyTxn, the    *)
(* transaction the indexer writes a sub-batch in, and QueryConnectionPool  *)
(* with QueryConnectionGuard, which HTTP handlers read through.  acquire,  *)
(* release and shutdown are the same in both; what differs is what a       *)
(* borrower does with its connection: CopyTxn resets a broken one before   *)
(* it returns it, a guard returns it as it is.                             *)
(*                                                                         *)
(* libpq learns that a connection is gone only by using it: a link is      *)
(* "cut" from when the server drops it until a command fails on it, "bad"  *)
(* (PQstatus is not CONNECTION_OK) from then on, and "closed" after        *)
(* PQfinish.  All of acquire but the wait happens under the pool's mutex,  *)
(* the connection's reset included, and so do the pushes and               *)
(* notifications of release; each is one action.                           *)
(***************************************************************************)
EXTENDS Integers, Sequences, FiniteSets

CONSTANTS PoolSize,    \* pool_size
          Txns,        \* threads that borrow through CopyTxn
          Guards,      \* threads that borrow through a guard
          MaxCuts      \* bound: outages of the server and severed connections

ASSUME PoolAssumption == /\ PoolSize \in Nat \ {0}
                         /\ MaxCuts \in Nat
                         /\ Txns \cap Guards = {} /\ 0 \notin Txns \union Guards
                         /\ IsFiniteSet(Txns \union Guards)

VARIABLES
    up,           \* PostgreSQL answers
    cuts,         \* outages and severed connections so far
    link,         \* state of each connection
    queue,        \* available_connections_
    initialized,  \* initialized_
    shuttingDown, \* shutdown_in_progress_
    pc, held,     \* where each borrower is, and the connection it has (0: none)
    spc           \* where the caller of shutdown() is

serverVars == <<up, cuts>>
poolVars   == <<queue, initialized, shuttingDown>>
vars == <<serverVars, link, poolVars, pc, held, spc>>

Borrowers   == Txns \union Guards
Connections == 1..PoolSize
None        == 0

Links == {"ok", "cut", "bad", "closed"}
Steps == {"idle", "lock", "asleep", "woken", "late", "have", "txn", "recover",
          "release", "return"}

\* initialize() has opened at least one connection; those that failed are not
\* in the pool.
Init == /\ up = TRUE /\ cuts = 0
        /\ \E n \in 1..PoolSize :
              /\ queue = [i \in 1..n |-> i]
              /\ link = [k \in Connections |-> IF k <= n THEN "ok" ELSE "closed"]
        /\ initialized = TRUE /\ shuttingDown = FALSE
        /\ pc = [b \in Borrowers |-> "idle"]
        /\ held = [b \in Borrowers |-> None]
        /\ spc = "running"

-----------------------------------------------------------------------------
(* PostgreSQL and the network.                                             *)

Cut(S) == [k \in Connections |->
              IF k \in S /\ link[k] = "ok" THEN "cut" ELSE link[k]]

ServerStops == /\ up /\ cuts < MaxCuts
               /\ up' = FALSE /\ cuts' = cuts + 1
               /\ link' = Cut(Connections)
               /\ UNCHANGED <<poolVars, pc, held, spc>>

ServerStarts == /\ ~up
                /\ up' = TRUE
                /\ UNCHANGED <<cuts, link, poolVars, pc, held, spc>>

\* A killed backend or a dropped TCP session.
LinkDrops == /\ cuts < MaxCuts
             /\ \E k \in Connections : link[k] = "ok" /\ link' = Cut({k})
             /\ cuts' = cuts + 1
             /\ UNCHANGED <<up, poolVars, pc, held, spc>>

-----------------------------------------------------------------------------
(* acquire().                                                              *)

Goto(b, step) == pc' = [pc EXCEPT ![b] = step]

\* is_initialized(); otherwise the borrower's constructor throws at once.
Enter(b) == /\ pc[b] = "idle" /\ initialized
            /\ Goto(b, "lock")
            /\ UNCHANGED <<serverVars, link, poolVars, held, spc>>

Sleep(b) == /\ pc[b] \in {"lock", "woken"} /\ queue = << >>
            /\ Goto(b, "asleep")
            /\ UNCHANGED <<serverVars, link, poolVars, held, spc>>

\* Mutant: wait for wait_for.
NoDeadline(b) == FALSE

\* The deadline of wait_for is fixed when the wait begins, so a wake-up that
\* finds the queue empty again does not put it off.
Overdue(b) == pc[b] \in {"asleep", "woken"}

Timeout(b) == /\ Overdue(b)
              /\ Goto(b, "late")
              /\ UNCHANGED <<serverVars, link, poolVars, held, spc>>

\* The predicate still fails at the deadline: acquire throws.
GiveUp(b) == /\ pc[b] = "late" /\ queue = << >>
             /\ Goto(b, "idle")
             /\ UNCHANGED <<serverVars, link, poolVars, held, spc>>

CanTake(b) == pc[b] \in {"lock", "woken", "late"} /\ queue # << >>

TakeHead(b) == /\ queue' = Tail(queue)
               /\ held' = [held EXCEPT ![b] = Head(queue)]
               /\ Goto(b, "have")
               /\ UNCHANGED <<serverVars, initialized, shuttingDown, spc>>

\* libpq takes the connection to be good.
Take(b) == /\ CanTake(b) /\ link[Head(queue)] # "bad"
           /\ TakeHead(b)
           /\ UNCHANGED link

\* PQreset succeeds.
Reconnect(b) == /\ CanTake(b) /\ link[Head(queue)] = "bad" /\ up
                /\ TakeHead(b)
                /\ link' = [link EXCEPT ![Head(queue)] = "ok"]

\* Mutant: without PQfinish.
Dropped(k) == link

Finished(k) == [link EXCEPT ![k] = "closed"]

\* PQreset fails: the connection is closed, acquire throws, and the pool has one
\* connection less for good.
Discard(b) == /\ CanTake(b) /\ link[Head(queue)] = "bad" /\ ~up
              /\ queue' = Tail(queue)
              /\ link' = Finished(Head(queue))
              /\ Goto(b, "idle")
              /\ UNCHANGED <<serverVars, initialized, shuttingDown, held, spc>>

-----------------------------------------------------------------------------
(* What borrowers do.                                                      *)

Noticed(k) == [link EXCEPT ![k] = "bad"]

Begin(b) == /\ b \in Txns /\ pc[b] = "have" /\ link[held[b]] = "ok"
            /\ Goto(b, "txn")
            /\ UNCHANGED <<serverVars, link, poolVars, held, spc>>

\* BEGIN fails: the constructor returns the connection as it is and throws.
BeginFails(b) == /\ b \in Txns /\ pc[b] = "have" /\ link[held[b]] = "cut"
                 /\ link' = Noticed(held[b])
                 /\ Goto(b, "release")
                 /\ UNCHANGED <<serverVars, poolVars, held, spc>>

Commit(b) == /\ pc[b] = "txn" /\ link[held[b]] = "ok"
             /\ Goto(b, "release")
             /\ UNCHANGED <<serverVars, link, poolVars, held, spc>>

\* The server refuses a statement; the destructor ends the COPY and rolls back.
Abort(b) == /\ pc[b] = "txn" /\ link[held[b]] = "ok"
            /\ Goto(b, "release")
            /\ UNCHANGED <<serverVars, link, poolVars, held, spc>>

\* The connection fails under a COPY, the COMMIT or the ROLLBACK.
TxnSevered(b) == /\ pc[b] = "txn" /\ link[held[b]] = "cut"
                 /\ link' = Noticed(held[b])
                 /\ Goto(b, "recover")
                 /\ UNCHANGED <<serverVars, poolVars, held, spc>>

\* The destructor resets it, and returns it whether or not that succeeded.
Recover(b) == /\ pc[b] = "recover"
              /\ link' = IF up THEN [link EXCEPT ![held[b]] = "ok"] ELSE link
              /\ Goto(b, "release")
              /\ UNCHANGED <<serverVars, poolVars, held, spc>>

\* A guard's thread runs its queries, or none since the connection was cut.
Query(b) == /\ b \in Guards /\ pc[b] = "have"
            /\ link' \in IF link[held[b]] = "cut" THEN {link, Noticed(held[b])}
                         ELSE {link}
            /\ Goto(b, "release")
            /\ UNCHANGED <<serverVars, poolVars, held, spc>>

-----------------------------------------------------------------------------
(* release() and shutdown().                                               *)

\* Mutant: the wrapper keeps the pointer it gave back.
KeepsPointer(b) == held

Forgotten(b) == [held EXCEPT ![b] = None]

\* The flag is read without the mutex.
CheckFlag(b) == /\ pc[b] = "release" /\ ~shuttingDown
                /\ Goto(b, "return")
                /\ UNCHANGED <<serverVars, link, poolVars, held, spc>>

ReleaseFast(b) == /\ pc[b] = "release" /\ shuttingDown
                  /\ link' = Finished(held[b]) /\ held' = Forgotten(b)
                  /\ Goto(b, "idle")
                  /\ UNCHANGED <<serverVars, poolVars, spc>>

\* Mutant: initialized_ is not looked at again under the mutex.
NeverGone == FALSE

Gone == ~initialized

\* Shutdown has emptied the pool since the flag was read.
ReleaseLate(b) == /\ pc[b] = "return" /\ Gone
                  /\ link' = Finished(held[b]) /\ held' = Forgotten(b)
                  /\ Goto(b, "idle")
                  /\ UNCHANGED <<serverVars, poolVars, spc>>

Asleep == {w \in Borrowers : pc[w] = "asleep"}

\* Mutant: nobody is notified.
NoneWoken == {None}

\* Whom notify_one may wake; None if nobody sleeps.
Woken == IF Asleep = {} THEN {None} ELSE Asleep

Pushed(k) == Append(queue, k)

ReturnToPool(b) ==
    /\ pc[b] = "return" /\ ~Gone
    /\ queue' = Pushed(held[b])
    /\ held' = Forgotten(b)
    /\ \E w \in Woken :
          pc' = [c \in Borrowers |-> IF c = b THEN "idle"
                                     ELSE IF c = w THEN "woken" ELSE pc[c]]
    /\ UNCHANGED <<serverVars, link, initialized, shuttingDown, spc>>

ShutdownFlag == /\ spc = "running"
                /\ shuttingDown' = TRUE /\ spc' = "flagged"
                /\ UNCHANGED <<serverVars, link, queue, initialized, pc, held>>

ShutdownDrain ==
    /\ spc = "flagged"
    /\ link' = [k \in Connections |->
                   IF \E i \in DOMAIN queue : queue[i] = k THEN "closed" ELSE link[k]]
    /\ queue' = << >> /\ initialized' = FALSE
    /\ spc' = "done"
    /\ UNCHANGED <<serverVars, shuttingDown, pc, held>>

-----------------------------------------------------------------------------
Acquire(b) == Sleep(b) \/ GiveUp(b) \/ Take(b) \/ Reconnect(b) \/ Discard(b)
Use(b)     == \/ Begin(b) \/ BeginFails(b) \/ Commit(b) \/ Abort(b)
              \/ TxnSevered(b) \/ Recover(b) \/ Query(b)
Release(b) == \/ CheckFlag(b) \/ ReleaseFast(b) \/ ReleaseLate(b)
              \/ ReturnToPool(b)
Server     == ServerStops \/ ServerStarts \/ LinkDrops
Shutdown   == ShutdownFlag \/ ShutdownDrain

Next == \/ \E b \in Borrowers : \/ Enter(b) \/ Acquire(b) \/ Timeout(b)
                               \/ Use(b) \/ Release(b)
        \/ Server \/ Shutdown

Spec == Init /\ [][Next]_vars

\* Threads run, deadlines pass, and commands on a connection end (by keepalives
\* and statement_timeout if not otherwise).  Nothing makes a borrower enter, the
\* server come back, or anyone call shutdown().
FairSpec == /\ Spec
            /\ \A b \in Borrowers : /\ WF_vars(Acquire(b))
                                    /\ WF_vars(Timeout(b))
                                    /\ WF_vars(Use(b)) /\ WF_vars(Release(b))

-----------------------------------------------------------------------------
(* Properties.                                                             *)

Queued(k) == \E i \in DOMAIN queue : queue[i] = k
HeldBy(k) == {b \in Borrowers : held[b] = k}

\* Type correctness.
TypeOK == /\ up \in BOOLEAN /\ cuts \in 0..MaxCuts
          /\ link \in [Connections -> Links]
          /\ queue \in Seq(Connections)
          /\ initialized \in BOOLEAN /\ shuttingDown \in BOOLEAN
          /\ pc \in [Borrowers -> Steps]
          /\ held \in [Borrowers -> Connections \union {None}]
          /\ spc \in {"running", "flagged", "done"}

\* No two threads use a connection, and none that is in the pool is in use: it is
\* queued once or has one borrower, and neither shutdown nor a failed reset
\* closes it under anybody.
NoSharing == /\ \A i, j \in DOMAIN queue : queue[i] = queue[j] => i = j
             /\ \A b, c \in Borrowers :
                    held[b] # None /\ held[b] = held[c] => b = c
             /\ \A k \in Connections :
                    Queued(k) \/ HeldBy(k) # {} => link[k] # "closed"
             /\ \A k \in Connections : ~(Queued(k) /\ HeldBy(k) # {})

\* No connection is lost open: it is in the pool or borrowed until PQfinish.
NoLeak == \A k \in Connections :
              link[k] # "closed" => Queued(k) \/ HeldBy(k) # {}

\* A release that read the flag before shutdown() set it puts nothing into the
\* pool that shutdown() has emptied: nobody would close it any more.
StaysShut == spc = "done" => queue = << >>

\* A notification per returned connection is enough: a thread sleeps in acquire
\* only if as many others are awake and about to take one as there are
\* connections.
Contenders == {b \in Borrowers : pc[b] \in {"lock", "woken", "late"}}

NoneSleepsBeside == Asleep # {} => Len(queue) <= Cardinality(Contenders)

\* acquire comes to an end, with a connection or an exception, even when the pool
\* has run dry and when others take every connection it is woken for.
AcquireEnds == \A b \in Borrowers : pc[b] = "lock" ~> pc[b] \in {"idle", "have"}

=============================================================================
