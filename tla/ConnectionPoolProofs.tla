------------------------- MODULE ConnectionPoolProofs -------------------------
(***************************************************************************)
(* Proofs about ConnectionPool, for every number of connections, whichever *)
(* threads borrow them and however often the server goes away.             *)
(*                                                                         *)
(* NoSharing and NoLeak are inductive together once it is known at which   *)
(* places a borrower has a connection (Holding), and StaysShut once the    *)
(* flags are tied to the stage of shutdown() (FlagsFollow).                *)
(***************************************************************************)
EXTENDS ConnectionPool, TLAPS, SequenceTheorems, FiniteSetTheorems

Holding == \A b \in Borrowers :
               held[b] # None <=> pc[b] \in {"have", "txn", "recover", "release", "return"}

FlagsFollow == /\ shuttingDown <=> spc # "running"
               /\ initialized <=> spc # "done"

IInv == /\ TypeOK /\ Holding /\ FlagsFollow /\ StaysShut
        /\ NoSharing /\ NoLeak

-----------------------------------------------------------------------------
(* The queue as a set of connections.                                      *)

In(q, k) == \E i \in DOMAIN q : q[i] = k
Distinct(q) == \A i, j \in DOMAIN q : q[i] = q[j] => i = j

LEMMA TailQueue ==
    ASSUME NEW S, NEW q \in Seq(S), q # << >>, Distinct(q)
    PROVE  /\ Head(q) \in S /\ In(q, Head(q))
           /\ Tail(q) \in Seq(S) /\ Distinct(Tail(q))
           /\ \A k : In(Tail(q), k) <=> In(q, k) /\ k # Head(q)
<1>1. /\ Head(q) \in S /\ Tail(q) \in Seq(S) /\ Len(Tail(q)) = Len(q) - 1
      /\ \A i \in 1..Len(Tail(q)) : Tail(q)[i] = q[i + 1]
  BY HeadTailProperties
<1>2. Len(q) \in Nat \ {0} /\ DOMAIN q = 1..Len(q) /\ Head(q) = q[1]
  OBVIOUS
<1>3. DOMAIN Tail(q) = 1..(Len(q) - 1)
  BY <1>1, <1>2
<1>4. Distinct(Tail(q))
  <2> SUFFICES ASSUME NEW i \in 1..(Len(q) - 1), NEW j \in 1..(Len(q) - 1), Tail(q)[i] = Tail(q)[j]
               PROVE  i = j
    BY <1>3 DEF Distinct
  <2>1. q[i + 1] = q[j + 1] /\ i + 1 \in DOMAIN q /\ j + 1 \in DOMAIN q
    BY <1>1, <1>2
  <2> QED  BY <2>1 DEF Distinct
<1>5. ASSUME NEW k PROVE In(Tail(q), k) <=> In(q, k) /\ k # Head(q)
  <2>1. ASSUME NEW i \in 1..(Len(q) - 1), Tail(q)[i] = k
        PROVE  In(q, k) /\ k # Head(q)
    <3>1. q[i + 1] = k /\ i + 1 \in DOMAIN q /\ 1 \in DOMAIN q /\ i + 1 # 1
      BY <1>1, <1>2, <2>1
    <3> QED  BY <3>1, <1>2 DEF In, Distinct
  <2>2. ASSUME NEW i \in DOMAIN q, q[i] = k, k # Head(q)
        PROVE  In(Tail(q), k)
    <3>1. i # 1
      BY <1>2, <2>2
    <3>2. i - 1 \in 1..(Len(q) - 1) /\ q[(i - 1) + 1] = k
      BY <3>1, <1>2, <2>2
    <3>3. Tail(q)[i - 1] = k
      BY <3>2, <1>1
    <3> QED  BY <3>2, <3>3, <1>3 DEF In
  <2> QED  BY <2>1, <2>2, <1>3 DEF In
<1>6. In(q, Head(q))
  <2>1. 1 \in DOMAIN q
    BY <1>2
  <2> QED  BY <2>1, <1>2 DEF In
<1> QED  BY <1>1, <1>4, <1>5, <1>6

LEMMA AppendQueue ==
    ASSUME NEW S, NEW q \in Seq(S), NEW c \in S, Distinct(q), ~In(q, c)
    PROVE  /\ Append(q, c) \in Seq(S) /\ Distinct(Append(q, c))
           /\ \A k : In(Append(q, c), k) <=> In(q, k) \/ k = c
<1> DEFINE n == Len(q)
           r == Append(q, c)
<1>1. /\ r \in Seq(S) /\ Len(r) = n + 1
      /\ \A i \in 1..n : r[i] = q[i]
      /\ r[n + 1] = c
  BY AppendProperties
<1>2. n \in Nat /\ DOMAIN q = 1..n /\ DOMAIN r = 1..(n + 1)
  BY <1>1
<1> HIDE DEF r, n
<1>3. \A i \in 1..(n + 1) : i \in 1..n \/ i = n + 1
  BY <1>2
<1>4. 1..n \subseteq 1..(n + 1) /\ n + 1 \in 1..(n + 1)
  BY <1>2
<1>5. \A i \in 1..n : q[i] # c
  BY <1>2 DEF In
<1>6. Distinct(r)
  <2> SUFFICES ASSUME NEW i \in 1..(n + 1), NEW j \in 1..(n + 1), r[i] = r[j]
               PROVE  i = j
    BY <1>2 DEF Distinct
  <2> QED  BY <1>1, <1>2, <1>3, <1>5 DEF Distinct
<1>7. \A k : In(r, k) <=> In(q, k) \/ k = c
  BY <1>1, <1>2, <1>3, <1>4 DEF In
<1> QED  BY <1>1, <1>6, <1>7 DEF r

-----------------------------------------------------------------------------
(* NoSharing and NoLeak with the queue as a set.                           *)

IsHeld(k) == \E b \in Borrowers : held[b] = k

OneBorrower == \A b, c \in Borrowers : held[b] # None /\ held[b] = held[c] => b = c

Open == \A k \in Connections : link[k] # "closed" <=> In(queue, k) \/ IsHeld(k)

OneOwner == \A k \in Connections : ~(In(queue, k) /\ IsHeld(k))

Owned == Distinct(queue) /\ OneBorrower /\ Open /\ OneOwner

LEMMA OwnedIsSafe == Owned <=> NoSharing /\ NoLeak
<1>1. \A k : HeldBy(k) # {} <=> IsHeld(k)
  BY DEF HeldBy, IsHeld
<1>2. \A k : Queued(k) <=> In(queue, k)
  BY DEF Queued, In
<1>3. NoSharing <=> /\ Distinct(queue) /\ OneBorrower /\ OneOwner
                    /\ \A k \in Connections : In(queue, k) \/ IsHeld(k) => link[k] # "closed"
  BY <1>1, <1>2 DEF NoSharing, Distinct, OneBorrower, OneOwner
<1>4. NoLeak <=> \A k \in Connections : link[k] # "closed" => In(queue, k) \/ IsHeld(k)
  BY <1>1, <1>2 DEF NoLeak
<1> QED  BY <1>3, <1>4 DEF Owned, Open

LEMMA OwnedIsSafeNext == Owned' <=> NoSharing' /\ NoLeak'
<1>1. \A k : HeldBy(k)' # {} <=> IsHeld(k)'
  BY DEF HeldBy, IsHeld
<1>2. \A k : Queued(k)' <=> In(queue', k)
  BY DEF Queued, In
<1>3. NoSharing' <=> /\ Distinct(queue') /\ OneBorrower' /\ OneOwner'
                     /\ \A k \in Connections : In(queue', k) \/ IsHeld(k)' => link'[k] # "closed"
  BY <1>1, <1>2 DEF NoSharing, Distinct, OneBorrower, OneOwner, In, Connections
<1>4. NoLeak' <=> \A k \in Connections : link'[k] # "closed" => In(queue', k) \/ IsHeld(k)'
  BY <1>1, <1>2 DEF NoLeak, Connections
<1>5. Open' <=> \A k \in Connections : link'[k] # "closed" <=> In(queue', k) \/ IsHeld(k)'
  BY DEF Open, In, Connections
<1> QED  BY <1>3, <1>4, <1>5 DEF Owned, Distinct

-----------------------------------------------------------------------------
(* What happens to the connections in the steps that touch them.           *)

USE PoolAssumption

LEMMA NoneIsNoConnection == None \notin Connections
BY DEF None, Connections

\* An outage closes no connection.
LEMMA CutLinks ==
    ASSUME link \in [Connections -> Links], NEW S
    PROVE  /\ Cut(S) \in [Connections -> Links]
           /\ \A k \in Connections : Cut(S)[k] = "closed" <=> link[k] = "closed"
<1>1. \A k \in Connections : /\ Cut(S)[k] = IF k \in S /\ link[k] = "ok" THEN "cut" ELSE link[k]
                             /\ link[k] \in Links
  BY DEF Cut
<1>2. \A k \in Connections : Cut(S)[k] \in Links
  BY <1>1 DEF Links
<1>3. \A k \in Connections : Cut(S)[k] = "closed" <=> link[k] = "closed"
  BY <1>1
<1>4. Cut(S) = [k \in Connections |-> Cut(S)[k]]
  BY DEF Cut
<1>5. Cut(S) \in [Connections -> Links]
  BY <1>2, <1>4
<1> QED  BY <1>3, <1>5

\* Nothing is taken, returned or closed.
LEMMA NothingMoves ==
    ASSUME Owned, UNCHANGED <<queue, held>>,
           \A k \in Connections : link'[k] = "closed" <=> link[k] = "closed"
    PROVE  Owned'
BY DEF Owned, Distinct, OneBorrower, Open, OneOwner, In, IsHeld, Connections

\* A borrower without a connection takes the head of the queue.
LEMMA HeadTaken ==
    ASSUME Owned, queue \in Seq(Connections), queue # << >>,
           held \in [Borrowers -> Connections \union {None}],
           NEW b \in Borrowers, held[b] = None,
           queue' = Tail(queue), held' = [held EXCEPT ![b] = Head(queue)],
           \A k \in Connections : link'[k] = "closed" <=> link[k] = "closed"
    PROVE  Owned'
<1> DEFINE h == Head(queue)
<1>1. /\ h \in Connections /\ In(queue, h) /\ Distinct(queue')
      /\ \A k : In(queue', k) <=> In(queue, k) /\ k # h
  BY TailQueue DEF Owned
<1> HIDE DEF h
<1>2. \A k \in Connections : IsHeld(k)' <=> IsHeld(k) \/ k = h
  BY NoneIsNoConnection DEF IsHeld, h
<1>3. ~IsHeld(h)
  BY <1>1 DEF Owned, OneOwner
<1>4. OneBorrower'
  BY <1>1, <1>3, NoneIsNoConnection DEF OneBorrower, IsHeld, Owned, h
<1>5. Open'
  <2> SUFFICES ASSUME NEW k \in Connections
               PROVE  link'[k] # "closed" <=> In(queue', k) \/ IsHeld(k)'
    BY DEF Open, In, Connections
  <2> QED  BY <1>1, <1>2 DEF Owned, Open
<1>6. OneOwner'
  <2> SUFFICES ASSUME NEW k \in Connections
               PROVE  ~(In(queue', k) /\ IsHeld(k)')
    BY DEF OneOwner, In, Connections
  <2> QED  BY <1>1, <1>2 DEF Owned, OneOwner
<1> QED  BY <1>1, <1>4, <1>5, <1>6 DEF Owned, Distinct

\* acquire throws the head of the queue away.
LEMMA HeadClosed ==
    ASSUME Owned, queue \in Seq(Connections), queue # << >>,
           link \in [Connections -> Links],
           queue' = Tail(queue), link' = Finished(Head(queue)), UNCHANGED held
    PROVE  Owned'
<1> DEFINE h == Head(queue)
<1>1. /\ h \in Connections /\ In(queue, h) /\ Distinct(queue')
      /\ \A k : In(queue', k) <=> In(queue, k) /\ k # h
  BY TailQueue DEF Owned
<1>2. link' = [link EXCEPT ![h] = "closed"]
  BY DEF Finished
<1> HIDE DEF h
<1>3. \A k : IsHeld(k)' <=> IsHeld(k)
  BY DEF IsHeld
<1>4. Open'
  <2> SUFFICES ASSUME NEW k \in Connections
               PROVE  link'[k] # "closed" <=> In(queue', k) \/ IsHeld(k)'
    BY DEF Open, In, Connections
  <2> QED  BY <1>1, <1>2, <1>3 DEF Owned, Open, OneOwner
<1>5. OneOwner'
  <2> SUFFICES ASSUME NEW k \in Connections
               PROVE  ~(In(queue', k) /\ IsHeld(k)')
    BY DEF OneOwner, In, Connections
  <2> QED  BY <1>1, <1>3 DEF Owned, OneOwner
<1> QED  BY <1>1, <1>4, <1>5 DEF Owned, Distinct, OneBorrower

\* release after shutdown closes what the borrower had.
LEMMA HeldClosed ==
    ASSUME Owned, held \in [Borrowers -> Connections \union {None}],
           link \in [Connections -> Links],
           NEW b \in Borrowers, held[b] # None,
           link' = Finished(held[b]), held' = Forgotten(b), UNCHANGED queue
    PROVE  Owned'
<1> DEFINE h == held[b]
<1>1. h \in Connections /\ IsHeld(h)
  BY DEF IsHeld
<1>2. link' = [link EXCEPT ![h] = "closed"] /\ held' = [held EXCEPT ![b] = None]
  BY DEF Finished, Forgotten
<1>3. \A k \in Connections : IsHeld(k)' <=> IsHeld(k) /\ k # h
  BY <1>2, NoneIsNoConnection DEF IsHeld, Owned, OneBorrower
<1>4. OneBorrower'
  BY <1>2 DEF OneBorrower, Owned
<1> HIDE DEF h
<1>5. Open'
  <2> SUFFICES ASSUME NEW k \in Connections
               PROVE  link'[k] # "closed" <=> In(queue', k) \/ IsHeld(k)'
    BY DEF Open, In, Connections
  <2> QED  BY <1>1, <1>2, <1>3 DEF Owned, Open, OneOwner
<1>6. OneOwner'
  <2> SUFFICES ASSUME NEW k \in Connections
               PROVE  ~(In(queue', k) /\ IsHeld(k)')
    BY DEF OneOwner, In, Connections
  <2> QED  BY <1>3 DEF Owned, OneOwner
<1> QED  BY <1>4, <1>5, <1>6 DEF Owned, Distinct

\* release puts what the borrower had at the end of the queue.
LEMMA HeldReturned ==
    ASSUME Owned, queue \in Seq(Connections),
           held \in [Borrowers -> Connections \union {None}],
           NEW b \in Borrowers, held[b] # None,
           queue' = Pushed(held[b]), held' = Forgotten(b), UNCHANGED link
    PROVE  Owned' /\ queue' \in Seq(Connections)
<1> DEFINE h == held[b]
<1>1. h \in Connections /\ IsHeld(h)
  BY DEF IsHeld
<1>2. ~In(queue, h)
  BY <1>1 DEF Owned, OneOwner
<1>3. queue' = Append(queue, h) /\ held' = [held EXCEPT ![b] = None]
  BY DEF Pushed, Forgotten
<1>4. \A k \in Connections : IsHeld(k)' <=> IsHeld(k) /\ k # h
  BY <1>3, NoneIsNoConnection DEF IsHeld, Owned, OneBorrower
<1>5. OneBorrower'
  BY <1>3 DEF OneBorrower, Owned
<1> HIDE DEF h
<1>6. /\ queue' \in Seq(Connections) /\ Distinct(queue')
      /\ \A k : In(queue', k) <=> In(queue, k) \/ k = h
  BY <1>1, <1>2, <1>3, AppendQueue DEF Owned
<1>7. Open'
  <2> SUFFICES ASSUME NEW k \in Connections
               PROVE  link'[k] # "closed" <=> In(queue', k) \/ IsHeld(k)'
    BY DEF Open, In, Connections
  <2> QED  BY <1>1, <1>4, <1>6 DEF Owned, Open
<1>8. OneOwner'
  <2> SUFFICES ASSUME NEW k \in Connections
               PROVE  ~(In(queue', k) /\ IsHeld(k)')
    BY DEF OneOwner, In, Connections
  <2> QED  BY <1>2, <1>4, <1>6 DEF Owned, OneOwner
<1> QED  BY <1>5, <1>6, <1>7, <1>8 DEF Owned, Distinct

\* shutdown closes the whole queue.
LEMMA QueueClosed ==
    ASSUME Owned, link \in [Connections -> Links], ShutdownDrain
    PROVE  Owned' /\ queue' = << >>
<1>1. queue' = << >> /\ \A k : ~In(queue', k)
  BY DEF ShutdownDrain, In
<1>2. \A k : IsHeld(k)' <=> IsHeld(k)
  BY DEF IsHeld, ShutdownDrain
<1>3. \A k \in Connections : link'[k] = IF In(queue, k) THEN "closed" ELSE link[k]
  BY DEF ShutdownDrain, In
<1>4. Open'
  <2> SUFFICES ASSUME NEW k \in Connections
               PROVE  link'[k] # "closed" <=> In(queue', k) \/ IsHeld(k)'
    BY DEF Open, In, Connections
  <2> QED  BY <1>1, <1>2, <1>3 DEF Owned, Open, OneOwner
<1>5. OneOwner'
  BY <1>1 DEF OneOwner, In, Connections
<1>6. OneBorrower' /\ Distinct(queue')
  BY <1>1 DEF Owned, OneBorrower, Distinct, ShutdownDrain
<1> QED  BY <1>1, <1>4, <1>5, <1>6 DEF Owned, Distinct

-----------------------------------------------------------------------------
(* The inductive invariant.                                                *)

LEMMA InitIInv == Init => IInv
<1> SUFFICES ASSUME Init PROVE IInv
  OBVIOUS
<1> PICK n \in 1..PoolSize : /\ queue = [i \in 1..n |-> i]
                             /\ link = [k \in Connections |-> IF k <= n THEN "ok" ELSE "closed"]
  BY DEF Init
<1>1. n \in Nat /\ 1..n \subseteq Connections
  BY DEF Connections
<1>2. queue \in Seq(Connections) /\ DOMAIN queue = 1..n /\ \A i \in 1..n : queue[i] = i
  BY <1>1
<1>3. \A k \in Connections : In(queue, k) <=> k <= n
  BY <1>2 DEF In, Connections
<1>4. \A k : ~IsHeld(k) \/ k = None
  BY DEF Init, IsHeld
<1>5. TypeOK
  <2>1. link \in [Connections -> Links]
    BY DEF Links
  <2>2. cuts \in 0..MaxCuts
    BY DEF Init
  <2>3. pc \in [Borrowers -> Steps] /\ held \in [Borrowers -> Connections \union {None}]
    BY DEF Init, Steps
  <2> QED  BY <1>2, <2>1, <2>2, <2>3 DEF Init, TypeOK
<1>6. Owned
  <2>1. Distinct(queue)
    BY <1>2 DEF Distinct
  <2>2. Open
    BY <1>3, <1>4, NoneIsNoConnection DEF Open
  <2>3. OneOwner /\ OneBorrower
    BY <1>4, NoneIsNoConnection DEF OneOwner, OneBorrower, Init
  <2> QED  BY <2>1, <2>2, <2>3 DEF Owned
<1>7. Holding
  BY DEF Init, Holding
<1>8. FlagsFollow /\ StaysShut
  BY DEF Init, FlagsFollow, StaysShut
<1> QED  BY <1>5, <1>6, <1>7, <1>8, OwnedIsSafe DEF IInv

\* Types, places and flags in the steps of one kind.
Rest == TypeOK /\ Holding /\ FlagsFollow /\ StaysShut

LEMMA ServerStep ==
    ASSUME Rest, Owned, Server
    PROVE  Rest' /\ Owned'
<1> USE DEF Rest, TypeOK, Holding, FlagsFollow, StaysShut, poolVars
<1>1. CASE ServerStops
  <2>1. link' = Cut(Connections) /\ UNCHANGED <<queue, held>>
    BY <1>1 DEF ServerStops
  <2>2. /\ link' \in [Connections -> Links]
        /\ \A k \in Connections : link'[k] = "closed" <=> link[k] = "closed"
    <3>1. link \in [Connections -> Links]
      OBVIOUS
    <3>2. /\ Cut(Connections) \in [Connections -> Links]
          /\ \A k \in Connections : Cut(Connections)[k] = "closed" <=> link[k] = "closed"
      BY <3>1, CutLinks
    <3> QED  BY <2>1, <3>2, Zenon
  <2>3. UNCHANGED <<queue, initialized, shuttingDown, pc, held, spc>>
    BY <1>1 DEF ServerStops
  <2>4. Owned'
    BY <2>1, <2>2, <2>3, NothingMoves
  <2>5. cuts' \in 0..MaxCuts /\ up' \in BOOLEAN
    <3>1. cuts < MaxCuts /\ cuts' = cuts + 1 /\ up' = FALSE
      BY <1>1 DEF ServerStops
    <3>2. cuts \in 0..MaxCuts
      OBVIOUS
    <3>3. cuts' \in 0..MaxCuts
      BY <3>1, <3>2
    <3> QED  BY <3>1, <3>3, Zenon
  <2> QED  BY <2>1, <2>2, <2>3, <2>4, <2>5
<1>2. CASE ServerStarts
  BY <1>2, NothingMoves DEF ServerStarts
<1>3. CASE LinkDrops
  <2> PICK c \in Connections : link' = Cut({c})
    BY <1>3 DEF LinkDrops
  <2>1. /\ link' \in [Connections -> Links]
        /\ \A k \in Connections : link'[k] = "closed" <=> link[k] = "closed"
    <3>1. link \in [Connections -> Links]
      OBVIOUS
    <3>2. /\ Cut({c}) \in [Connections -> Links]
          /\ \A k \in Connections : Cut({c})[k] = "closed" <=> link[k] = "closed"
      BY <3>1, CutLinks
    <3> QED  BY <3>2, Zenon
  <2>3. UNCHANGED <<queue, initialized, shuttingDown, pc, held, spc>>
    BY <1>3 DEF LinkDrops
  <2>4. Owned'
    BY <2>1, <2>3, NothingMoves
  <2>5. cuts' \in 0..MaxCuts /\ up' \in BOOLEAN
    BY <1>3 DEF LinkDrops
  <2> QED  BY <2>1, <2>3, <2>4, <2>5
<1> QED  BY <1>1, <1>2, <1>3 DEF Server

LEMMA AcquireStep ==
    ASSUME Rest, Owned, NEW b \in Borrowers, Enter(b) \/ Acquire(b) \/ Timeout(b)
    PROVE  Rest' /\ Owned'
<1> USE DEF Rest, TypeOK, Holding, FlagsFollow, StaysShut, serverVars, poolVars, Goto, Steps
<1>1. CASE Enter(b) \/ Sleep(b) \/ Timeout(b) \/ GiveUp(b)
  <2>1. UNCHANGED <<link, queue, held>>
    BY <1>1 DEF Enter, Sleep, Timeout, GiveUp
  <2>2. Owned'
    BY <2>1, NothingMoves
  <2> QED  BY <1>1, <2>2 DEF Enter, Sleep, Timeout, GiveUp, Overdue
<1>2. CASE Take(b) \/ Reconnect(b)
  <2>1. /\ CanTake(b) /\ TakeHead(b)
        /\ link' \in {link, [link EXCEPT ![Head(queue)] = "ok"]}
        /\ link' # link => link[Head(queue)] = "bad"
    BY <1>2 DEF Take, Reconnect
  <2>2. queue # << >> /\ held[b] = None
    BY <2>1 DEF CanTake
  <2>3. Head(queue) \in Connections /\ Tail(queue) \in Seq(Connections)
    BY <2>2, HeadTailProperties
  <2>4. /\ link' \in [Connections -> Links]
        /\ \A k \in Connections : link'[k] = "closed" <=> link[k] = "closed"
    BY <2>1, <2>3 DEF Links
  <2>5. Owned'
    BY <2>1, <2>2, <2>4, HeadTaken DEF TakeHead
  <2> QED
    BY <1>2, <2>1, <2>2, <2>3, <2>4, <2>5, NoneIsNoConnection DEF TakeHead, Take, Reconnect
<1>3. CASE Discard(b)
  <2>1. /\ queue # << >> /\ queue' = Tail(queue) /\ link' = Finished(Head(queue))
        /\ held[b] = None /\ UNCHANGED held
    BY <1>3 DEF Discard, CanTake
  <2>2. Tail(queue) \in Seq(Connections)
    BY <2>1, HeadTailProperties
  <2>3. link' \in [Connections -> Links]
    BY <2>1 DEF Finished, Links
  <2>4. Owned'
    BY <2>1, HeadClosed
  <2> QED  BY <1>3, <2>1, <2>2, <2>3, <2>4 DEF Discard
<1> QED  BY <1>1, <1>2, <1>3 DEF Acquire

LEMMA UseStep ==
    ASSUME Rest, Owned, NEW b \in Borrowers, Use(b)
    PROVE  Rest' /\ Owned'
<1> USE DEF Rest, TypeOK, Holding, FlagsFollow, StaysShut, serverVars, poolVars, Goto, Steps
<1>1. /\ pc[b] \in {"have", "txn", "recover"} /\ UNCHANGED <<serverVars, poolVars, held, spc>>
      /\ pc' = [pc EXCEPT ![b] = "txn"] \/ pc' = [pc EXCEPT ![b] = "recover"]
           \/ pc' = [pc EXCEPT ![b] = "release"]
  BY DEF Use, Begin, BeginFails, Commit, Abort, TxnSevered, Recover, Query
<1>2. held[b] \in Connections
  BY <1>1
<1>3. link[held[b]] # "closed"
  BY <1>2 DEF Owned, Open, IsHeld
<1>4. link' \in {link, Noticed(held[b]), [link EXCEPT ![held[b]] = "ok"]}
  BY DEF Use, Begin, BeginFails, Commit, Abort, TxnSevered, Recover, Query
<1>5. /\ link' \in [Connections -> Links]
      /\ \A k \in Connections : link'[k] = "closed" <=> link[k] = "closed"
  BY <1>2, <1>3, <1>4 DEF Noticed, Links
<1>6. Owned'
  BY <1>1, <1>5, NothingMoves
<1> QED  BY <1>1, <1>5, <1>6

LEMMA ReleaseStep ==
    ASSUME Rest, Owned, NEW b \in Borrowers, Release(b)
    PROVE  Rest' /\ Owned'
<1> USE DEF Rest, TypeOK, Holding, FlagsFollow, StaysShut, serverVars, poolVars, Goto, Steps
<1>1. held[b] # None /\ held[b] \in Connections
  BY DEF Release, CheckFlag, ReleaseFast, ReleaseLate, ReturnToPool
<1>2. CASE CheckFlag(b)
  BY <1>2, NothingMoves DEF CheckFlag
<1>3. CASE ReleaseFast(b) \/ ReleaseLate(b)
  <2>1. /\ link' = Finished(held[b]) /\ held' = Forgotten(b)
        /\ pc' = [pc EXCEPT ![b] = "idle"] /\ UNCHANGED <<serverVars, poolVars, spc>>
    BY <1>3 DEF ReleaseFast, ReleaseLate
  <2>2. Owned'
    BY <1>1, <2>1, HeldClosed
  <2>3. link' \in [Connections -> Links] /\ held' \in [Borrowers -> Connections \union {None}]
    BY <2>1 DEF Finished, Forgotten, Links
  <2> QED  BY <2>1, <2>2, <2>3 DEF Forgotten
<1>4. CASE ReturnToPool(b)
  <2>1. Owned' /\ queue' \in Seq(Connections)
    BY <1>1, <1>4, HeldReturned DEF ReturnToPool
  <2>2. held' = [held EXCEPT ![b] = None] /\ spc # "done"
    BY <1>4 DEF ReturnToPool, Forgotten, Gone
  <2>3. PICK w \in Woken : pc' = [c \in Borrowers |-> IF c = b THEN "idle"
                                                ELSE IF c = w THEN "woken" ELSE pc[c]]
    BY <1>4 DEF ReturnToPool
  <2>4. \A c \in Borrowers : c = w => pc[c] = "asleep"
    BY DEF Woken, Asleep, Borrowers, None
  <2> QED  BY <1>4, <2>1, <2>2, <2>3, <2>4 DEF ReturnToPool
<1> QED  BY <1>2, <1>3, <1>4 DEF Release

LEMMA ShutdownStep ==
    ASSUME Rest, Owned, Shutdown
    PROVE  Rest' /\ Owned'
<1> USE DEF Rest, TypeOK, Holding, FlagsFollow, StaysShut, serverVars
<1>1. CASE ShutdownFlag
  BY <1>1, NothingMoves DEF ShutdownFlag
<1>2. CASE ShutdownDrain
  <2>1. Owned' /\ queue' = << >>
    BY <1>2, QueueClosed
  <2>2. link' \in [Connections -> Links]
    <3>1. link' = [k \in Connections |-> IF In(queue, k) THEN "closed" ELSE link[k]]
      BY <1>2 DEF ShutdownDrain, In
    <3>2. \A k \in Connections : (IF In(queue, k) THEN "closed" ELSE link[k]) \in Links
      BY DEF Links
    <3> QED  BY <3>1, <3>2, Zenon
  <2>3. /\ UNCHANGED <<up, cuts, shuttingDown, pc, held>>
        /\ spc = "flagged" /\ spc' = "done" /\ initialized' = FALSE
    BY <1>2 DEF ShutdownDrain
  <2>4. queue' \in Seq(Connections)
    BY <2>1
  <2> QED  BY <2>1, <2>2, <2>3, <2>4
<1> QED  BY <1>1, <1>2 DEF Shutdown

LEMMA StepIInv == IInv /\ [Next]_vars => IInv'
<1> SUFFICES ASSUME IInv, [Next]_vars PROVE IInv'
  OBVIOUS
<1>1. Rest /\ Owned
  BY OwnedIsSafe DEF IInv, Rest
<1>2. Rest' /\ Owned'
  <2>1. CASE Server
    BY <1>1, <2>1, ServerStep
  <2>2. CASE Shutdown
    BY <1>1, <2>2, ShutdownStep
  <2>3. ASSUME NEW b \in Borrowers, Enter(b) \/ Acquire(b) \/ Timeout(b) PROVE Rest' /\ Owned'
    BY <1>1, <2>3, AcquireStep
  <2>4. ASSUME NEW b \in Borrowers, Use(b) PROVE Rest' /\ Owned'
    BY <1>1, <2>4, UseStep
  <2>5. ASSUME NEW b \in Borrowers, Release(b) PROVE Rest' /\ Owned'
    BY <1>1, <2>5, ReleaseStep
  <2>6. CASE UNCHANGED vars
    <3>1. Owned'
      BY <1>1, <2>6, NothingMoves DEF vars, poolVars
    <3> QED  BY <1>1, <2>6, <3>1 DEF Rest, TypeOK, Holding, FlagsFollow, StaysShut,
               vars, serverVars, poolVars, Connections
  <2> QED  BY <2>1, <2>2, <2>3, <2>4, <2>5, <2>6 DEF Next
<1> QED  BY <1>2, OwnedIsSafeNext DEF IInv, Rest

\* The inductive invariant holds throughout.
THEOREM Invariance == Spec => []IInv
<1>1. Init => IInv
  BY InitIInv
<1>2. IInv /\ [Next]_vars => IInv'
  BY StepIInv
<1> QED  BY <1>1, <1>2, PTL DEF Spec

-----------------------------------------------------------------------------
(* The theorems.                                                           *)

\* Type correctness of pool, connections and borrowers.
THEOREM TypeCorrect == Spec => []TypeOK
<1>1. IInv => TypeOK
  BY DEF IInv
<1> QED  BY <1>1, Invariance, PTL

\* Whatever fails under a borrower and however shutdown() falls between its steps, a
\* connection has one user or is queued once, and is closed under nobody.
THEOREM NeverShared == Spec => []NoSharing
<1>1. IInv => NoSharing
  BY DEF IInv
<1> QED  BY <1>1, Invariance, PTL

\* Every connection that is not closed is in the pool or with a borrower who
\* will give it back.
THEOREM NeverLeaked == Spec => []NoLeak
<1>1. IInv => NoLeak
  BY DEF IInv
<1> QED  BY <1>1, Invariance, PTL

\* After shutdown() the pool stays empty, although release reads its flag
\* without the mutex.
THEOREM ShutStaysShut == Spec => []StaysShut
<1>1. IInv => StaysShut
  BY DEF IInv
<1> QED  BY <1>1, Invariance, PTL

-----------------------------------------------------------------------------
(* Sleepers.  The three ways the contenders change: one comes, one leaves with the *)
(* head of the queue, one is woken for the connection that is put back.            *)

LEMMA CountContenders ==
    ASSUME NEW b
    PROVE  /\ Cardinality(Contenders) \in Nat
           /\ Cardinality(Contenders \union {b}) =
                 IF b \in Contenders THEN Cardinality(Contenders) ELSE Cardinality(Contenders) + 1
           /\ b \in Contenders =>
                 Cardinality(Contenders \ {b}) = Cardinality(Contenders) - 1
<1>1. IsFiniteSet(Borrowers) /\ Contenders \in SUBSET Borrowers
  BY PoolAssumption DEF Borrowers, Contenders
<1>2. IsFiniteSet(Contenders)
  BY <1>1, FS_Subset
<1> QED  BY <1>2, FS_CardinalityType, FS_AddElement, FS_RemoveElement

LEMMA OneMore ==
    ASSUME TypeOK, NoneSleepsBeside, NEW b, queue' = queue,
           Contenders' = Contenders \union {b}, Asleep' \subseteq Asleep
    PROVE  NoneSleepsBeside'
<1>1. Len(queue) \in Nat
  BY DEF TypeOK
<1> DEFINE n == Cardinality(Contenders)
<1>2. n \in Nat /\ Cardinality(Contenders') \in {n, n + 1}
  BY <1>1, CountContenders
<1>3. Asleep' # {} => Len(queue) <= n
  BY DEF NoneSleepsBeside
<1>4. Asleep' # {} => Len(queue') <= Cardinality(Contenders')
  <2> DEFINE m == Cardinality(Contenders')
             l == Len(queue)
  <2> HIDE DEF n, m, l
  <2>1. Asleep' # {} => l <= n
    BY <1>3 DEF n, l
  <2>2. n \in Nat /\ m \in {n, n + 1} /\ l \in Nat
    BY <1>1, <1>2 DEF m, n, l
  <2>3. Asleep' # {} => l <= m
    BY <2>1, <2>2
  <2> QED  BY <2>3 DEF l, m
<1> QED  BY <1>4 DEF NoneSleepsBeside

LEMMA OneServed ==
    ASSUME TypeOK, NoneSleepsBeside, NEW b \in Contenders, queue # << >>, queue' = Tail(queue),
           Contenders' = Contenders \ {b}, Asleep' = Asleep
    PROVE  NoneSleepsBeside'
<1>1. Len(queue) \in Nat /\ Len(queue') = Len(queue) - 1
  BY HeadTailProperties DEF TypeOK
<1> DEFINE n == Cardinality(Contenders)
<1>2. n \in Nat /\ Cardinality(Contenders') = n - 1
  BY <1>1, CountContenders
<1> QED  BY <1>1, <1>2 DEF NoneSleepsBeside

LEMMA OneWoken ==
    ASSUME TypeOK, NoneSleepsBeside, NEW k \in Connections, queue' = Append(queue, k),
           NEW w \in Asleep, Contenders' = Contenders \union {w}
    PROVE  NoneSleepsBeside'
<1>1. Len(queue) \in Nat /\ Len(queue') = Len(queue) + 1
  BY AppendProperties DEF TypeOK
<1> DEFINE n == Cardinality(Contenders)
<1>2. w \notin Contenders
  BY DEF Asleep, Contenders
<1>3. n \in Nat /\ Cardinality(Contenders') = n + 1
  BY <1>1, <1>2, CountContenders
<1> QED  BY <1>1, <1>3 DEF NoneSleepsBeside

LEMMA NoneToTake ==
    ASSUME queue' = << >> PROVE NoneSleepsBeside'
<1>1. Cardinality(Contenders') \in Nat
  <2>1. IsFiniteSet(Borrowers) /\ Contenders' \in SUBSET Borrowers
    BY PoolAssumption DEF Borrowers, Contenders
  <2> QED  BY <2>1, FS_Subset, FS_CardinalityType
<1>2. Len(queue') = 0
  OBVIOUS
<1> QED  BY <1>1, <1>2 DEF NoneSleepsBeside

LEMMA SameSleepers ==
    ASSUME NoneSleepsBeside, queue' = queue, Contenders' = Contenders, Asleep' = Asleep
    PROVE  NoneSleepsBeside'
BY DEF NoneSleepsBeside

LEMMA SleepersStep == IInv /\ NoneSleepsBeside /\ [Next]_vars => NoneSleepsBeside'
<1> SUFFICES ASSUME IInv, NoneSleepsBeside, [Next]_vars PROVE NoneSleepsBeside'
  OBVIOUS
<1>0. TypeOK
  BY DEF IInv
<1> USE DEF poolVars
<1>1. CASE (Server \/ ShutdownFlag \/ UNCHANGED vars)
  BY <1>1, SameSleepers DEF Server, ServerStops, ServerStarts, LinkDrops, ShutdownFlag, vars,
     Contenders, Asleep
<1>2. CASE ShutdownDrain
  BY <1>2, NoneToTake DEF ShutdownDrain
<1>3. ASSUME NEW b \in Borrowers, Enter(b) \/ Timeout(b) PROVE NoneSleepsBeside'
  <2>1. /\ pc' \in {[pc EXCEPT ![b] = "lock"], [pc EXCEPT ![b] = "late"]} /\ queue' = queue
        /\ pc[b] \in {"idle", "asleep", "woken"}
    BY <1>3 DEF Enter, Timeout, Overdue, Goto
  <2>2. Contenders' = Contenders \union {b} /\ Asleep' \subseteq Asleep
    BY <1>0, <2>1 DEF Contenders, Asleep, TypeOK
  <2> QED  BY <2>1, <2>2, <1>0, OneMore
<1>4. ASSUME NEW b \in Borrowers, Sleep(b) \/ GiveUp(b) PROVE NoneSleepsBeside'
  BY <1>4, NoneToTake DEF Sleep, GiveUp
<1>5. ASSUME NEW b \in Borrowers, Take(b) \/ Reconnect(b) \/ Discard(b) PROVE NoneSleepsBeside'
  <2>1. /\ pc' \in {[pc EXCEPT ![b] = "have"], [pc EXCEPT ![b] = "idle"]}
        /\ queue # << >> /\ queue' = Tail(queue) /\ pc[b] \in {"lock", "woken", "late"}
    BY <1>5 DEF Take, Reconnect, Discard, TakeHead, CanTake, Goto
  <2>2. b \in Contenders /\ Contenders' = Contenders \ {b} /\ Asleep' = Asleep
    BY <1>0, <2>1 DEF Contenders, Asleep, TypeOK
  <2> QED  BY <2>1, <2>2, <1>0, OneServed
<1>6. ASSUME NEW b \in Borrowers, Use(b) \/ CheckFlag(b) \/ ReleaseFast(b) \/ ReleaseLate(b)
      PROVE  NoneSleepsBeside'
  <2>1. /\ \E step \in {"idle", "txn", "recover", "release", "return"} :
              pc' = [pc EXCEPT ![b] = step]
        /\ queue' = queue /\ pc[b] \in {"have", "txn", "recover", "release", "return"}
    BY <1>6 DEF Use, Begin, BeginFails, Commit, Abort, TxnSevered, Recover, Query, CheckFlag,
       ReleaseFast, ReleaseLate, Goto
  <2>2. Contenders' = Contenders /\ Asleep' = Asleep
    BY <1>0, <2>1 DEF Contenders, Asleep, TypeOK
  <2> QED  BY <2>1, <2>2, SameSleepers
<1>7. ASSUME NEW b \in Borrowers, ReturnToPool(b) PROVE NoneSleepsBeside'
  <2>1. PICK w \in Woken : pc' = [c \in Borrowers |-> IF c = b THEN "idle"
                                     ELSE IF c = w THEN "woken" ELSE pc[c]]
    BY <1>7 DEF ReturnToPool
  <2>2. pc[b] = "return" /\ queue' = Append(queue, held[b])
    BY <1>7 DEF ReturnToPool, Pushed
  <2>3. held[b] \in Connections
    BY <1>0, <2>2 DEF IInv, Holding, TypeOK
  <2>4. CASE Asleep = {}
    <3>1. w \notin Borrowers
      BY <2>1, <2>4, PoolAssumption DEF Woken, None, Borrowers
    <3>2. Asleep' = {}
      BY <2>1, <2>4, <3>1 DEF Asleep
    <3> QED  BY <3>2 DEF NoneSleepsBeside
  <2>5. CASE Asleep # {}
    <3>1. w \in Asleep /\ w # b
      BY <2>1, <2>2, <2>5 DEF Woken, Asleep
    <3>2. Contenders' = Contenders \union {w}
      BY <2>1, <2>2, <3>1 DEF Contenders, Asleep
    <3> QED  BY <1>0, <2>2, <2>3, <3>1, <3>2, OneWoken
  <2> QED  BY <2>4, <2>5
<1> QED  BY <1>1, <1>2, <1>3, <1>4, <1>5, <1>6, <1>7 DEF Next, Acquire, Release, Shutdown


\* However many threads wait for a connection, and whichever notify_one picks, none
\* sleeps while the pool has more connections than threads about to take one.
THEOREM SleepersAreNeeded == Spec => []NoneSleepsBeside
<1>1. Init => NoneSleepsBeside
  BY DEF Init, NoneSleepsBeside, Asleep
<1>2. IInv /\ NoneSleepsBeside /\ [Next]_vars => NoneSleepsBeside'
  BY SleepersStep
<1> QED  BY <1>1, <1>2, Invariance, PTL DEF Spec
=============================================================================
