--------------------------- MODULE BlockIndexerProofs ---------------------------
(***************************************************************************)
(* Proofs about BlockIndexer, for every chain, batch and prefetch size,    *)
(* every rollback bound, any number of reorganisations and failures, and   *)
(* whatever the cache answers: table blocks has no gap, and it changes     *)
(* only as BlocksTable says.  The contents of the table come after, under  *)
(* assumptions about the cache and the reorganisations.                    *)
(*                                                                         *)
(* The argument: the table is an initial segment of heights; from          *)
(* ReadHeights until the call begins, current is its top (AtTop); during   *)
(* the call the fetched sub-batches are consecutive pieces that begin      *)
(* just above it (InLine).                                                 *)
(***************************************************************************)
EXTENDS BlockIndexer, TLAPS, SequenceTheorems

Levels == 0..(MaxHeight + 1)

\* The blocks of a table or a chain: heights 0..(n - 1).
Segment(f, n) == DOMAIN f = 0..(n - 1) /\ \A h \in DOMAIN f : f[h] \in Blocks

Batches == UNION {[S -> Blocks] : S \in SUBSET Heights}

NodeOK == /\ \E n \in Levels \ {0} : Segment(chain, n)
          /\ forks \in 0..MaxForks
          /\ DOMAIN hashCache \subseteq Heights

StoredOK == /\ \E n \in Levels : Segment(db, n)
            /\ \E n \in Levels : Segment(disk.db, n)
            /\ syncHeight \in Heights /\ disk.syncHeight \in Heights

LoopOK == /\ phase \in {"loop", "detect", "scan", "rollback", "index", "run"}
          /\ current \in Heights /\ target \in Heights
          /\ progress \in Heights /\ scanAt \in Heights
          /\ fetchNext \in Nat /\ batchTo \in -1..MaxHeight
          /\ fetched \in Seq(Batches) /\ Len(fetched) <= Prefetch
          /\ faults \in 0..MaxFaults

\* The loop's view of the table is true until it starts a call.
AtTop == phase \in {"detect", "scan", "rollback", "index"} =>
             DOMAIN db = 0..current \/ (DOMAIN db = {} /\ current = 0)

Scanning == /\ phase \in {"scan", "rollback"} => scanAt < current
            /\ phase \in {"detect", "scan", "rollback"} => progress = current

\* The sub-batches not yet committed lie between the levels s[1], s[2] ... and the
\* table ends at s[1].  Height 0 stands for an empty table and one that has genesis
\* alone: a call then begins with genesis, whose COPY is a duplicate.
InLineAt(s) ==
    /\ DOMAIN db = 0..(s[1] - 1) \/ (DOMAIN db = {0} /\ s[1] = 0)
    /\ \A i \in 1..Len(fetched) : /\ s[i] < s[i + 1] /\ s[i + 1] <= s[i] + BatchSize
                                  /\ DOMAIN fetched[i] = s[i]..(s[i + 1] - 1)
    /\ fetchNext <= batchTo => s[Len(fetched) + 1] = fetchNext

InLine == phase = "run" => \E s \in [1..(Len(fetched) + 1) -> Levels] : InLineAt(s)

IInv == NodeOK /\ StoredOK /\ LoopOK /\ AtTop /\ Scanning /\ InLine
-----------------------------------------------------------------------------
(* Tables and chains.                                                      *)

USE IndexerAssumption

LEMMA CutIs ==
    ASSUME NEW f, NEW S
    PROVE  DOMAIN Cut(f, S) = DOMAIN f \cap S /\ \A h \in DOMAIN f \cap S : Cut(f, S)[h] = f[h]
BY DEF Cut

LEMMA PutIs ==
    ASSUME NEW f, NEW g
    PROVE  /\ DOMAIN Put(f, g) = DOMAIN f \union DOMAIN g
           /\ \A h \in DOMAIN g : Put(f, g)[h] = g[h]
           /\ \A h \in DOMAIN f \ DOMAIN g : Put(f, g)[h] = f[h]
BY DEF Put

\* Deleting what is above height k leaves k + 1 blocks.
LEMMA CutSegment ==
    ASSUME NEW f, NEW n \in Nat, Segment(f, n), NEW k \in Nat, k < n
    PROVE  Segment(Cut(f, 0..k), k + 1)
<1>1. DOMAIN f \cap (0..k) = 0..k /\ (k + 1) - 1 = k
  BY DEF Segment
<1> QED  BY <1>1, CutIs DEF Segment

\* Adding blocks just above the top, up to height k.
LEMMA PutSegment ==
    ASSUME NEW f, NEW n \in Nat, Segment(f, n), NEW k \in Nat, n <= k,
           NEW g, DOMAIN g = n..k, \A h \in DOMAIN g : g[h] \in Blocks
    PROVE  Segment(Put(f, g), k + 1)
<1>1. DOMAIN f \union DOMAIN g = 0..((k + 1) - 1)
  BY DEF Segment
<1>2. \A h \in DOMAIN f \union DOMAIN g : Put(f, g)[h] \in Blocks
  <2> SUFFICES ASSUME NEW h \in DOMAIN f \union DOMAIN g PROVE Put(f, g)[h] \in Blocks
    OBVIOUS
  <2>1. CASE h \in DOMAIN g
    <3>1. Put(f, g)[h] = g[h]
      BY <2>1 DEF Put
    <3> QED  BY <2>1, <3>1
  <2>2. CASE h \notin DOMAIN g
    <3>1. h \in DOMAIN f /\ f[h] \in Blocks
      BY <2>2 DEF Segment
    <3>2. Put(f, g)[h] = f[h]
      BY <2>2, <3>1, PutIs
    <3> QED  BY <3>1, <3>2
  <2> QED  BY <2>1, <2>2
<1> QED  BY <1>1, <1>2, PutIs DEF Segment

LEMMA EmptySegment == Segment(Empty, 0) /\ DOMAIN Empty = {}
<1>1. DOMAIN Empty = {} /\ 0..(0 - 1) = {}
  BY DEF Empty
<1> QED  BY <1>1 DEF Segment

LEMMA MaxOfRange ==
    ASSUME NEW n \in Nat, NEW m \in Nat, m <= n, NEW S, S = m..n
    PROVE  (CHOOSE h \in S : \A k \in S : k <= h) = n
<1>1. n \in S /\ \A k \in S : k <= n
  OBVIOUS
<1>2. \A h \in S : (\A k \in S : k <= h) => h = n
  BY <1>1
<1> QED  BY <1>1, <1>2

LEMMA MaxIndexedIs ==
    ASSUME NEW n \in Nat, Segment(db, n)
    PROVE  MaxIndexed = IF n = 0 THEN 0 ELSE n - 1
<1>1. CASE n = 0
  <2>1. DOMAIN db = {}
    BY <1>1 DEF Segment
  <2> QED  BY <1>1, <2>1 DEF MaxIndexed
<1>2. CASE n # 0
  <2>1. n - 1 \in Nat /\ 0 <= n - 1 /\ DOMAIN db = 0..(n - 1) /\ DOMAIN db # {}
    BY <1>2 DEF Segment
  <2>2. (CHOOSE h \in DOMAIN db : \A k \in DOMAIN db : k <= h) = n - 1
    BY <2>1, MaxOfRange
  <2> QED  BY <1>2, <2>1, <2>2 DEF MaxIndexed
<1> QED  BY <1>1, <1>2

LEMMA TipIs ==
    ASSUME NEW n \in Nat \ {0}, Segment(chain, n)
    PROVE  Tip = n - 1
<1>1. DOMAIN chain = 0..(n - 1)
  BY DEF Segment
<1>2. n - 1 \in 0..(n - 1) /\ (n - 1) + 1 \notin 0..(n - 1)
  OBVIOUS
<1>3. \A h \in 0..(n - 1) : h + 1 \notin 0..(n - 1) => h = n - 1
  OBVIOUS
<1>4. Tip = CHOOSE h \in 0..(n - 1) : h + 1 \notin 0..(n - 1)
  BY <1>1 DEF Tip
<1> QED  BY <1>2, <1>3, <1>4

-----------------------------------------------------------------------------
(* The node and its cache.                                                 *)

LEMMA LookUpKeeps ==
    ASSUME NEW h, NEW answer, LookUp(h, answer), NodeOK, faults \in 0..MaxFaults
    PROVE  DOMAIN hashCache' \subseteq Heights /\ faults' \in 0..MaxFaults
<1>1. DOMAIN chain \subseteq Heights
  BY DEF NodeOK, Segment, Levels, Heights
<1>2. DOMAIN Put(hashCache, At(h, answer)) = DOMAIN hashCache \union {h}
  BY PutIs DEF At
<1>3. \/ UNCHANGED hashCache
      \/ h \in DOMAIN chain /\ hashCache' = Put(hashCache, At(h, answer))
  BY DEF LookUp
<1>4. faults' = faults \/ (faults < MaxFaults /\ faults' = faults + 1)
  BY DEF LookUp, Fault
<1>5. faults' \in 0..MaxFaults
  BY <1>4
<1> QED  BY <1>1, <1>2, <1>3, <1>5 DEF NodeOK

LEMMA TipChangedKeeps ==
    ASSUME TipChanged, NodeOK
    PROVE  DOMAIN hashCache' \subseteq Heights
BY EmptySegment DEF TipChanged, NodeOK

\* The block the node mines follows its tip.
LEMMA NewBlock ==
    ASSUME NodeMines, NodeOK
    PROVE  \E n \in Nat \ {0}, b \in Blocks :
              /\ Segment(chain, n) /\ n + 1 \in Levels \ {0}
              /\ b.parent = chain[n - 1].fork
              /\ chain' = Put(chain, At(n, b))
<1>1. PICK n \in Levels \ {0} : Segment(chain, n)
  BY DEF NodeOK
<1>2. n \in Nat \ {0} /\ n <= MaxHeight + 1
  BY <1>1 DEF Levels
<1>3. Tip = n - 1 /\ n - 1 \in DOMAIN chain
  BY <1>1, <1>2, TipIs DEF Segment
<1>4. PICK tx \in BOOLEAN :
          chain' = Put(chain, At(Tip + 1, [fork |-> forks, parent |-> chain[Tip].fork, tx |-> tx]))
  BY DEF NodeMines
<1> DEFINE b == [fork |-> forks, parent |-> chain[n - 1].fork, tx |-> tx]
<1>5. b \in Blocks /\ b.parent = chain[n - 1].fork
  BY <1>1, <1>3 DEF NodeOK, Segment, Blocks
<1> HIDE DEF b
<1>6. chain' = Put(chain, At(n, b))
  BY <1>2, <1>3, <1>4 DEF b
<1>7. n + 1 \in Levels \ {0}
  BY <1>2, <1>3 DEF NodeMines, Levels
<1> QED  BY <1>1, <1>2, <1>5, <1>6, <1>7

LEMMA MineStep ==
    ASSUME NodeMines, NodeOK
    PROVE  NodeOK'
<1>1. PICK n \in Nat \ {0}, b \in Blocks :
              /\ Segment(chain, n) /\ n + 1 \in Levels \ {0}
              /\ chain' = Put(chain, At(n, b))
  BY NewBlock
<1>2. DOMAIN At(n, b) = n..n /\ \A h \in DOMAIN At(n, b) : At(n, b)[h] \in Blocks
  BY <1>1 DEF At
<1>3. Segment(chain', n + 1)
  <2>1. n \in Nat /\ n <= n
    BY <1>1
  <2>2. Segment(Put(chain, At(n, b)), n + 1)
    BY <1>1, <1>2, <2>1, PutSegment
  <2> QED  BY <1>1, <2>2
<1>4. \E m \in Levels \ {0} : Segment(chain, m)'
  BY <1>1, <1>3 DEF Segment, Levels
<1>5. forks' \in 0..MaxForks
  BY DEF NodeMines, NodeOK
<1> QED  BY <1>4, <1>5, TipChangedKeeps DEF NodeOK, NodeMines, Levels, Heights

\* A new fork above height k begins on the block there.
LEMMA NewFork ==
    ASSUME Reorganise, NodeOK
    PROVE  \E t \in Nat, k \in Nat, n \in Nat : \E g :
              /\ Segment(chain, t) /\ k < t /\ k + 1 <= n /\ n + 1 \in Levels \ {0}
              /\ DOMAIN g = (k + 1)..n /\ \A h \in DOMAIN g : g[h] \in Blocks
              /\ g[k + 1].parent = chain[k].fork
              /\ \A h \in (k + 2)..n : g[h].parent = g[h - 1].fork
              /\ chain' = Put(Cut(chain, 0..k), g)
<1>1. PICK t \in Levels \ {0} : Segment(chain, t)
  BY DEF NodeOK
<1>2. t \in Nat \ {0} /\ t <= MaxHeight + 1 /\ Tip = t - 1
  BY <1>1, TipIs DEF Levels
<1> DEFINE New(k, n, m) == [h \in (k + 1)..n |->
                               [fork   |-> forks + 1,
                                parent |-> IF h = k + 1 THEN chain[k].fork ELSE forks + 1,
                                tx     |-> h = m]]
           Ms(k, n) == IF HoldsTx(Cut(chain, 0..k)) THEN {0} ELSE {0} \union (k + 1)..n
<1>3. \E k \in Max(ReorgFloor, Tip - MaxReorgDepth)..(Tip - 1) :
      \E n \in (k + 1)..Min(Tip + 1, MaxHeight) :
      \E m \in Ms(k, n) : chain' = Put(Cut(chain, 0..k), New(k, n, m))
  BY DEF Reorganise
<1> HIDE DEF New, Ms
<1>4. PICK k \in Max(ReorgFloor, Tip - MaxReorgDepth)..(Tip - 1) :
             \E n \in (k + 1)..Min(Tip + 1, MaxHeight) :
             \E m \in Ms(k, n) : chain' = Put(Cut(chain, 0..k), New(k, n, m))
  BY <1>3
<1>5. PICK n \in (k + 1)..Min(Tip + 1, MaxHeight) :
             \E m \in Ms(k, n) : chain' = Put(Cut(chain, 0..k), New(k, n, m))
  BY <1>4
<1>6. PICK m \in Ms(k, n) : chain' = Put(Cut(chain, 0..k), New(k, n, m))
  BY <1>5
<1> DEFINE g == New(k, n, m)
<1>7. k \in Nat /\ k < t /\ n \in Nat /\ k + 1 <= n /\ n + 1 \in Levels \ {0}
  BY <1>2, <1>4, <1>5 DEF Max, Min, Levels
<1>8. forks + 1 \in 0..MaxForks
  BY DEF Reorganise, NodeOK
<1>9. chain[k].fork \in 0..MaxForks
  BY <1>1, <1>2, <1>7 DEF Segment, Blocks
<1>10. \A h \in (k + 1)..n :
          g[h] = [fork   |-> forks + 1,
                  parent |-> IF h = k + 1 THEN chain[k].fork ELSE forks + 1,
                  tx     |-> h = m]
  BY DEF New
<1>11. DOMAIN g = (k + 1)..n /\ \A h \in DOMAIN g : g[h] \in Blocks
  <2> SUFFICES ASSUME NEW h \in (k + 1)..n PROVE g[h] \in Blocks
    BY DEF New
  <2>1. (IF h = k + 1 THEN chain[k].fork ELSE forks + 1) \in 0..MaxForks
    BY <1>8, <1>9
  <2>2. (h = m) \in BOOLEAN
    OBVIOUS
  <2>3. \A p \in 0..MaxForks, q \in BOOLEAN : [fork |-> forks + 1, parent |-> p, tx |-> q] \in Blocks
    BY <1>8 DEF Blocks
  <2> QED  BY <1>10, <2>1, <2>2, <2>3, Zenon
<1>12. \A h \in (k + 1)..n : /\ g[h].fork = forks + 1
                            /\ g[h].parent = IF h = k + 1 THEN chain[k].fork ELSE forks + 1
  <2> SUFFICES ASSUME NEW h \in (k + 1)..n
               PROVE  /\ g[h].fork = forks + 1
                      /\ g[h].parent = IF h = k + 1 THEN chain[k].fork ELSE forks + 1
    OBVIOUS
  <2> DEFINE q == IF h = k + 1 THEN chain[k].fork ELSE forks + 1
             r == (h = m)
  <2>1. g[h] = [fork |-> forks + 1, parent |-> q, tx |-> r]
    BY <1>10
  <2> HIDE DEF q, r, g
  <2>2. g[h].fork = forks + 1 /\ g[h].parent = q
    BY <2>1
  <2> QED  BY <2>2 DEF q
<1> HIDE DEF g
<1>13. g[k + 1].parent = chain[k].fork /\ \A h \in (k + 2)..n : g[h].parent = g[h - 1].fork
  <2>1. k + 1 \in (k + 1)..n
    BY <1>7
  <2>2. ASSUME NEW h \in (k + 2)..n PROVE g[h].parent = forks + 1 /\ g[h - 1].fork = forks + 1
    <3>1. h \in (k + 1)..n /\ h - 1 \in (k + 1)..n /\ h # k + 1
      BY <1>7
    <3> QED  BY <1>12, <3>1
  <2> QED  BY <1>12, <2>1, <2>2
<1>14. t \in Nat /\ chain' = Put(Cut(chain, 0..k), g)
  BY <1>2, <1>6 DEF g
<1> QED  BY <1>1, <1>7, <1>11, <1>13, <1>14

LEMMA ReorganiseStep ==
    ASSUME Reorganise, NodeOK
    PROVE  NodeOK'
<1> PICK t \in Nat, k \in Nat, n \in Nat : \E g :
              /\ Segment(chain, t) /\ k < t /\ k + 1 <= n /\ n + 1 \in Levels \ {0}
              /\ DOMAIN g = (k + 1)..n /\ \A h \in DOMAIN g : g[h] \in Blocks
              /\ chain' = Put(Cut(chain, 0..k), g)
  BY NewFork
<1>1. PICK g :
              /\ Segment(chain, t) /\ k < t /\ k + 1 <= n /\ n + 1 \in Levels \ {0}
              /\ DOMAIN g = (k + 1)..n /\ \A h \in DOMAIN g : g[h] \in Blocks
              /\ chain' = Put(Cut(chain, 0..k), g)
  OBVIOUS
<1>2. Segment(Cut(chain, 0..k), k + 1)
  BY <1>1, CutSegment
<1>3. Segment(Put(Cut(chain, 0..k), g), n + 1)
  <2>1. k + 1 \in Nat
    BY <1>1
  <2> QED  BY <1>1, <1>2, <2>1, PutSegment
<1>4. Segment(chain', n + 1)
  BY <1>1, <1>3
<1>5. forks' \in 0..MaxForks
  BY DEF Reorganise, NodeOK
<1>6. TipChanged
  BY DEF Reorganise
<1> QED  BY <1>1, <1>4, <1>5, <1>6, TipChangedKeeps DEF NodeOK, Levels, Heights, Segment, Blocks

LEMMA EnvironmentStep ==
    ASSUME IInv, NodeMines \/ NodeReorganises \/ CacheExpires \/ ApiLookUp
    PROVE  IInv'
<1> USE DEF IInv
<1>1. UNCHANGED <<db, syncHeight, disk, phase, current, target, progress, scanAt,
                  fetchNext, batchTo, fetched, faults>>
  BY DEF NodeMines, NodeReorganises, CacheExpires, ApiLookUp, dbVars, loopVars, batchVars
<1>2. NodeOK'
  <2>1. CASE NodeMines
    BY <2>1, MineStep
  <2>2. CASE NodeReorganises
    BY <2>2, ReorganiseStep DEF NodeReorganises
  <2>3. CASE CacheExpires
    BY <2>3, EmptySegment DEF CacheExpires, NodeOK, nodeVars, Segment
  <2>4. CASE ApiLookUp
    <3> PICK h \in DOMAIN chain : hashCache' = Put(hashCache, At(h, chain[h].fork))
      BY <2>4 DEF ApiLookUp
    <3>1. DOMAIN hashCache' = DOMAIN hashCache \union {h}
      BY PutIs DEF At
    <3>2. UNCHANGED <<chain, forks>>
      BY <2>4 DEF ApiLookUp, nodeVars
    <3> QED  BY <3>1, <3>2 DEF NodeOK, Segment, Levels, Heights
  <2> QED  BY <2>1, <2>2, <2>3, <2>4
<1>3. StoredOK' /\ AtTop' /\ Scanning'
  BY <1>1 DEF StoredOK, Segment, AtTop, Scanning
<1>4. LoopOK'
  BY <1>1 DEF LoopOK
<1>5. InLine'
  BY <1>1 DEF InLine, InLineAt
<1> QED  BY <1>2, <1>3, <1>4, <1>5

-----------------------------------------------------------------------------
(* The main loop.                                                          *)

LEMMA CycleEnds ==
    ASSUME EndCycle, progress' \in Heights, faults' \in 0..MaxFaults
    PROVE  LoopOK' /\ AtTop' /\ Scanning' /\ InLine'
<1>1. 0 \in Heights /\ << >> \in Seq(Batches) /\ Len(<< >>) <= Prefetch
  BY DEF Heights
<1>2. AtTop' /\ Scanning' /\ InLine'
  BY DEF EndCycle, AtTop, Scanning, InLine
<1>3. LoopOK'
  BY <1>1 DEF EndCycle, LoopOK
<1> QED  BY <1>2, <1>3

LEMMA FaultCounts ==
    ASSUME Fault, faults \in 0..MaxFaults
    PROVE  faults' \in 0..MaxFaults
<1>1. faults < MaxFaults /\ faults' = faults + 1
  BY DEF Fault
<1> QED  BY <1>1

LEMMA StatusKeeps ==
    ASSUME NEW h \in Heights, StatusAt(h), syncHeight \in Heights
    PROVE  syncHeight' \in Heights
BY DEF StatusAt

\* The table and what is flushed of it stay; the status row may change.
LEMMA TableStays ==
    ASSUME StoredOK, UNCHANGED <<db, disk>>, syncHeight' \in Heights
    PROVE  StoredOK'
BY DEF StoredOK, Segment

LEMMA NodeStays ==
    ASSUME NodeOK, UNCHANGED nodeVars, DOMAIN hashCache' \subseteq Heights
    PROVE  NodeOK'
BY DEF NodeOK, nodeVars, Segment

\* What the steps that go round the loop leave the invariant.
LEMMA EndStep ==
    ASSUME IInv, RefuseRollback \/ CaughtUp \/ CommitDuplicate \/ BatchReturns
    PROVE  IInv'
<1>1. /\ UNCHANGED <<nodeVars, hashCache, db, disk, progress, faults>>
      /\ EndCycle
      /\ StatusAt(current) \/ StatusAt(progress) \/ UNCHANGED syncHeight
  BY DEF RefuseRollback, CaughtUp, CommitDuplicate, BatchReturns, dbVars
<1>2. current \in Heights /\ progress \in Heights /\ syncHeight \in Heights /\ faults \in 0..MaxFaults
  BY DEF IInv, LoopOK, StoredOK
<1>3. syncHeight' \in Heights
  BY <1>1, <1>2, StatusKeeps
<1>4. StoredOK'
  BY <1>1, <1>3, TableStays DEF IInv
<1>5. NodeOK'
  BY <1>1, NodeStays DEF IInv, NodeOK
<1>6. LoopOK' /\ AtTop' /\ Scanning' /\ InLine'
  BY <1>1, <1>2, CycleEnds
<1> QED  BY <1>4, <1>5, <1>6 DEF IInv

LEMMA ReadStep ==
    ASSUME IInv, ReadHeights
    PROVE  IInv'
<1>1. PICK n \in Levels : Segment(db, n)
  BY DEF IInv, StoredOK
<1>2. PICK t \in Levels \ {0} : Segment(chain, t)
  BY DEF IInv, NodeOK
<1>3. n \in Nat /\ n <= MaxHeight + 1 /\ t \in Nat \ {0} /\ t <= MaxHeight + 1
  BY DEF Levels
<1>4. MaxIndexed = (IF n = 0 THEN 0 ELSE n - 1) /\ Tip = t - 1
  BY <1>1, <1>2, <1>3, MaxIndexedIs, TipIs
<1>5. MaxIndexed \in Heights /\ Tip \in Heights
  BY <1>3, <1>4 DEF Heights
<1>6. /\ UNCHANGED <<nodeVars, hashCache, db, syncHeight, disk, scanAt, fetchNext, batchTo, fetched, faults>>
      /\ current' = MaxIndexed /\ progress' = MaxIndexed /\ target' = Tip /\ phase' = "detect"
  BY DEF ReadHeights, dbVars, batchVars
<1>7. DOMAIN db = 0..MaxIndexed \/ (DOMAIN db = {} /\ MaxIndexed = 0)
  BY <1>1, <1>3, <1>4 DEF Segment
<1>8. AtTop' /\ Scanning' /\ InLine'
  BY <1>6, <1>7 DEF AtTop, Scanning, InLine
<1>9. NodeOK' /\ StoredOK'
  BY <1>6, NodeStays, TableStays DEF IInv, NodeOK, StoredOK
<1>10. LoopOK'
  BY <1>5, <1>6 DEF IInv, LoopOK
<1> QED  BY <1>8, <1>9, <1>10 DEF IInv

LEMMA DetectStep ==
    ASSUME IInv, DetectReorg
    PROVE  IInv'
<1>1. /\ phase = "detect"
      /\ UNCHANGED <<nodeVars, db, syncHeight, disk, current, target, progress, fetchNext, batchTo, fetched>>
  BY DEF DetectReorg, dbVars, batchVars
<1>2. faults \in 0..MaxFaults /\ current \in Heights /\ NodeOK /\ DOMAIN hashCache \subseteq Heights
  BY DEF IInv, LoopOK, NodeOK
<1>3. /\ \/ phase' = "index" /\ UNCHANGED scanAt
         \/ phase' = "scan" /\ current > 0 /\ scanAt' = current - 1
      /\ \/ UNCHANGED <<hashCache, faults>>
         \/ \E answer : LookUp(current, answer)
  BY DEF DetectReorg
<1>4. DOMAIN hashCache' \subseteq Heights /\ faults' \in 0..MaxFaults
  BY <1>2, <1>3, LookUpKeeps
<1>5. phase' \in {"index", "scan"} /\ scanAt' \in Heights
      /\ (phase' = "scan" => scanAt' < current)
  BY <1>2, <1>3 DEF IInv, LoopOK, Heights
<1>6. AtTop' /\ Scanning' /\ InLine'
  BY <1>1, <1>5 DEF IInv, AtTop, Scanning, InLine
<1>7. NodeOK' /\ StoredOK'
  BY <1>1, <1>2, <1>4, NodeStays, TableStays DEF IInv, StoredOK
<1>8. LoopOK'
  BY <1>1, <1>4, <1>5 DEF IInv, LoopOK
<1> QED  BY <1>6, <1>7, <1>8 DEF IInv

LEMMA ScanStep ==
    ASSUME IInv, ScanForAncestor
    PROVE  IInv'
<1>1. phase = "scan" /\ UNCHANGED <<nodeVars, db, disk, progress>>
  BY DEF ScanForAncestor
<1>2. /\ faults \in 0..MaxFaults /\ current \in Heights /\ scanAt \in Heights /\ progress \in Heights
      /\ syncHeight \in Heights /\ NodeOK /\ StoredOK
      /\ scanAt < current /\ progress = current
  BY <1>1 DEF IInv, LoopOK, StoredOK, Scanning
<1>3. PICK answer :
          /\ LookUp(scanAt, answer)
          /\ \/ /\ phase' = "rollback"
                /\ UNCHANGED <<syncHeight, current, target, scanAt, batchVars>>
             \/ /\ scanAt > ScanFloor /\ scanAt' = scanAt - 1
                /\ UNCHANGED <<syncHeight, phase, current, target, batchVars>>
             \/ StatusAt(current) /\ EndCycle
  BY DEF ScanForAncestor
<1>4. DOMAIN hashCache' \subseteq Heights /\ faults' \in 0..MaxFaults
  BY <1>2, <1>3, LookUpKeeps
<1>5. NodeOK'
  BY <1>1, <1>2, <1>4, NodeStays
<1>6. CASE StatusAt(current) /\ EndCycle
  <2>1. syncHeight' \in Heights
    BY <1>2, <1>6, StatusKeeps
  <2>2. StoredOK'
    BY <1>1, <1>2, <2>1, TableStays
  <2>3. LoopOK' /\ AtTop' /\ Scanning' /\ InLine'
    BY <1>1, <1>2, <1>4, <1>6, CycleEnds
  <2> QED  BY <1>5, <2>2, <2>3 DEF IInv
<1>7. CASE /\ UNCHANGED <<syncHeight, current, target, batchVars>>
           /\ \/ phase' = "rollback" /\ UNCHANGED scanAt
              \/ scanAt > ScanFloor /\ scanAt' = scanAt - 1 /\ UNCHANGED phase
  <2>1. ScanFloor \in Nat
    BY <1>2 DEF ScanFloor, Max, Heights
  <2>2. scanAt' \in Heights /\ scanAt' < current /\ phase' \in {"scan", "rollback"}
    BY <1>1, <1>2, <1>7, <2>1 DEF Heights
  <2>3. StoredOK'
    BY <1>1, <1>2, <1>7, TableStays
  <2>4. AtTop' /\ Scanning' /\ InLine'
    BY <1>1, <1>2, <1>7, <2>2 DEF IInv, AtTop, Scanning, InLine
  <2>5. LoopOK'
    BY <1>1, <1>2, <1>4, <1>7, <2>2 DEF IInv, LoopOK, batchVars
  <2> QED  BY <1>5, <2>3, <2>4, <2>5 DEF IInv
<1> QED  BY <1>3, <1>6, <1>7

\* find_common_ancestor's result is below the top, and by no more than the bound.
LEMMA AncestorBelow ==
    ASSUME IInv, phase = "rollback", ~TooDeep
    PROVE  /\ Segment(db, current + 1) /\ Segment(Cut(db, Kept), scanAt + 1)
           /\ current \in Nat /\ current <= MaxHeight
           /\ scanAt \in Nat /\ scanAt < current /\ current - scanAt <= MaxReorgDepth
<1>1. /\ current \in Nat /\ current <= MaxHeight /\ scanAt \in Nat
      /\ scanAt < current /\ progress = current
  BY DEF IInv, LoopOK, Scanning, Heights
<1>2. DOMAIN db = 0..((current + 1) - 1)
  BY <1>1 DEF IInv, AtTop
<1>3. Segment(db, current + 1)
  BY <1>2 DEF IInv, StoredOK, Segment
<1>4. current - scanAt <= MaxReorgDepth
  BY <1>1 DEF TooDeep
<1>5. current + 1 \in Nat /\ scanAt < current + 1
  BY <1>1
<1>6. Segment(Cut(db, Kept), scanAt + 1)
  BY <1>1, <1>3, <1>5, CutSegment DEF Kept
<1> QED  BY <1>1, <1>3, <1>4, <1>6

\* A table of blocks of which the rest is flushed later.
LEMMA TableBecomes ==
    ASSUME StoredOK, NEW n \in Levels, Segment(db', n), UNCHANGED disk, syncHeight' \in Heights
    PROVE  StoredOK'
<1>1. \E m \in Levels : Segment(db', m)
  OBVIOUS
<1>2. \E m \in Levels : Segment(disk'.db, m) /\ disk'.syncHeight \in Heights
  BY DEF StoredOK
<1> QED  BY <1>1, <1>2 DEF StoredOK, Segment, Levels, Blocks, Heights

LEMMA RollbackStep ==
    ASSUME IInv, Rollback
    PROVE  IInv'
<1>1. /\ phase = "rollback" /\ ~TooDeep
      /\ db' = Cut(db, Kept) /\ syncHeight' = scanAt
      /\ current' = scanAt /\ scanAt' = 0 /\ phase' = "index"
      /\ UNCHANGED <<nodeVars, hashCache, disk, target, progress, fetchNext, batchTo, fetched, faults>>
  BY DEF Rollback, batchVars
<1>2. /\ Segment(Cut(db, Kept), scanAt + 1)
      /\ scanAt \in Nat /\ scanAt + 1 \in Levels /\ scanAt \in Heights /\ 0 \in Heights
  BY <1>1, AncestorBelow DEF Levels, Heights
<1>3. StoredOK'
  BY <1>1, <1>2, TableBecomes DEF IInv
<1>4. NodeOK'
  BY <1>1, NodeStays DEF IInv, NodeOK
<1>5. LoopOK'
  BY <1>1, <1>2 DEF IInv, LoopOK
<1>6. DOMAIN db' = 0..current'
  BY <1>1, <1>2 DEF Segment
<1>7. AtTop' /\ Scanning' /\ InLine'
  BY <1>1, <1>6 DEF AtTop, Scanning, InLine
<1> QED  BY <1>3, <1>4, <1>5, <1>7 DEF IInv

LEMMA RollbackFailsStep ==
    ASSUME IInv, RollbackFails
    PROVE  IInv'
<1>1. /\ phase = "rollback" /\ ~TooDeep /\ Fault
      /\ \/ UNCHANGED db /\ StatusAt(current)
         \/ db' = Cut(db, Kept) /\ syncHeight' = scanAt
      /\ EndCycle
      /\ UNCHANGED <<nodeVars, hashCache, disk, progress>>
  BY DEF RollbackFails
<1>2. /\ Segment(Cut(db, Kept), scanAt + 1)
      /\ scanAt \in Nat /\ scanAt + 1 \in Levels /\ scanAt \in Heights
  BY <1>1, AncestorBelow DEF Levels, Heights
<1>3. /\ current \in Heights /\ progress \in Heights /\ syncHeight \in Heights
      /\ faults \in 0..MaxFaults
  BY DEF IInv, LoopOK, StoredOK
<1>4. StoredOK'
  <2>1. CASE UNCHANGED db /\ StatusAt(current)
    <3>1. syncHeight' \in Heights
      BY <1>3, <2>1, StatusKeeps
    <3> QED  BY <1>1, <2>1, <3>1, TableStays DEF IInv
  <2>2. CASE db' = Cut(db, Kept) /\ syncHeight' = scanAt
    BY <1>1, <1>2, <2>2, TableBecomes DEF IInv
  <2> QED  BY <1>1, <2>1, <2>2
<1>5. NodeOK'
  BY <1>1, NodeStays DEF IInv, NodeOK
<1>6. faults' \in 0..MaxFaults
  BY <1>1, <1>3, FaultCounts
<1>7. LoopOK' /\ AtTop' /\ Scanning' /\ InLine'
  BY <1>1, <1>3, <1>6, CycleEnds
<1> QED  BY <1>4, <1>5, <1>7 DEF IInv

-----------------------------------------------------------------------------
(* A call of index_chain_data_batch.                                       *)

LEMMA StartStep ==
    ASSUME IInv, StartBatch
    PROVE  IInv'
<1>1. /\ phase = "index" /\ current < target
      /\ fetchNext' = From /\ batchTo' = Min(From - 1 + HeadersBatchSize, target)
      /\ fetched' = << >> /\ phase' = "run" /\ current' = 0 /\ target' = 0
      /\ UNCHANGED <<nodeVars, hashCache, db, syncHeight, disk, progress, scanAt, faults>>
  BY DEF StartBatch, dbVars
<1>2. /\ current \in Nat /\ target \in Nat /\ target <= MaxHeight /\ current < target
      /\ 0 \in Heights
  BY <1>1 DEF IInv, LoopOK, Heights
<1>3. /\ From \in Levels /\ From \in Nat
      /\ DOMAIN db = 0..(From - 1) \/ (DOMAIN db = {0} /\ From = 0)
  <2>1. CASE current = 0
    <3>1. DOMAIN db = 0..0 \/ DOMAIN db = {}
      BY <1>1, <2>1 DEF IInv, AtTop
    <3>2. From = 0 /\ 0..0 = {0} /\ 0..(0 - 1) = {}
      BY <2>1 DEF From
    <3> QED  BY <3>1, <3>2 DEF Levels
  <2>2. CASE current # 0
    <3>1. DOMAIN db = 0..current
      BY <1>1, <2>2 DEF IInv, AtTop
    <3>2. From = current + 1
      BY <2>2 DEF From
    <3> QED  BY <1>2, <3>1, <3>2 DEF Levels
  <2> QED  BY <2>1, <2>2
<1>4. batchTo' \in -1..MaxHeight
  BY <1>1, <1>2, <1>3 DEF Min
<1>5. LoopOK'
  BY <1>1, <1>2, <1>3, <1>4 DEF IInv, LoopOK
<1>6. InLine'
  <2>0. [i \in 1..1 |-> From] \in [1..1 -> Levels] /\ [i \in 1..1 |-> From][1] = From
    BY <1>3
  <2>1. PICK s \in [1..1 -> Levels] : s[1] = From
    BY <2>0, Zenon
  <2>2. Len(fetched') = 0
    BY <1>1
  <2>3. InLineAt(s)'
    BY <1>1, <1>3, <2>1, <2>2 DEF InLineAt
  <2>4. s \in [1..(Len(fetched') + 1) -> Levels]
    BY <2>2
  <2> QED  BY <2>3, <2>4 DEF InLine, Levels
<1>7. NodeOK' /\ StoredOK'
  BY <1>1, NodeStays, TableStays DEF IInv, NodeOK, StoredOK
<1>8. AtTop' /\ Scanning'
  BY <1>1 DEF AtTop, Scanning
<1> QED  BY <1>5, <1>6, <1>7, <1>8 DEF IInv

\* Whichever blocks the node answers with: what counts is their heights.
Answered(new) ==
    /\ phase = "run" /\ fetchNext <= batchTo /\ Len(fetched) < Prefetch
    /\ fetched' = Append(fetched, new)
    /\ fetchNext' = fetchNext + BatchSize
    /\ UNCHANGED <<db, syncHeight, disk, phase, current, target, progress, scanAt, batchTo, faults>>

Answers == [SubBatch -> Blocks]

LEMMA BatchFetched ==
    ASSUME IInv, NEW new \in Answers, Answered(new), NodeOK'
    PROVE  IInv'
<1>1. /\ phase = "run" /\ fetchNext <= batchTo /\ Len(fetched) < Prefetch
      /\ fetched' = Append(fetched, new)
      /\ fetchNext' = fetchNext + BatchSize
      /\ UNCHANGED <<db, syncHeight, disk, phase, current, target, progress, scanAt, batchTo,
                     faults>>
  BY DEF Answered
<1> DEFINE top == Min(fetchNext + BatchSize - 1, batchTo)
           n   == Len(fetched)
<1>2. fetchNext \in Nat /\ batchTo \in -1..MaxHeight /\ fetched \in Seq(Batches) /\ n \in Nat
  BY DEF IInv, LoopOK
<1>3. /\ top \in Nat /\ fetchNext <= top /\ top <= MaxHeight /\ top + 1 \in Levels
      /\ top + 1 <= fetchNext + BatchSize /\ SubBatch = fetchNext..top
      /\ fetchNext' <= batchTo => top + 1 = fetchNext'
  BY <1>1, <1>2 DEF Min, Levels, SubBatch
<1>4. DOMAIN new = fetchNext..top /\ new \in Batches
  <2>1. new \in [fetchNext..top -> Blocks] /\ fetchNext..top \in SUBSET Heights
    BY <1>2, <1>3 DEF Heights, Answers
  <2> QED  BY <2>1 DEF Batches
<1> HIDE DEF top
<1>5. /\ fetched' \in Seq(Batches) /\ Len(fetched') = n + 1
      /\ \A i \in 1..n : fetched'[i] = fetched[i]
      /\ fetched'[n + 1] = new
  BY <1>1, <1>2, <1>4, AppendProperties
<1>6. LoopOK'
  BY <1>1, <1>2, <1>5 DEF IInv, LoopOK
<1>7. InLine'
  <2>1. PICK s \in [1..(n + 1) -> Levels] : InLineAt(s)
    BY <1>1 DEF IInv, InLine
  <2> DEFINE longer == [i \in 1..(n + 2) |-> IF i = n + 2 THEN top + 1 ELSE s[i]]
  <2> HIDE DEF n
  <2>0. /\ longer \in [1..((n + 1) + 1) -> Levels]
        /\ \A i \in 1..(n + 1) : longer[i] = s[i]
        /\ longer[n + 2] = top + 1
    BY <1>2, <1>3
  <2> HIDE DEF longer
  <2>2. PICK r \in [1..((n + 1) + 1) -> Levels] :
           (\A i \in 1..(n + 1) : r[i] = s[i]) /\ r[n + 2] = top + 1
    BY <2>0
  <2>3. DOMAIN db' = 0..(r[1] - 1) \/ (DOMAIN db' = {0} /\ r[1] = 0)
    <3>1. r[1] = s[1]
      BY <1>2, <2>2
    <3> QED  BY <1>1, <2>1, <3>1 DEF InLineAt
  <2>4. ASSUME NEW i \in 1..(n + 1)
        PROVE  /\ r[i] < r[i + 1] /\ r[i + 1] <= r[i] + BatchSize
               /\ DOMAIN fetched'[i] = r[i]..(r[i + 1] - 1)
    <3>1. CASE i = n + 1
      <4>1. s[n + 1] = fetchNext /\ r[i] = fetchNext /\ r[i + 1] = top + 1
        BY <1>1, <1>2, <2>1, <2>2, <3>1 DEF InLineAt, n
      <4> QED  BY <1>2, <1>3, <1>4, <1>5, <3>1, <4>1
    <3>2. CASE i # n + 1
      <4>1. i \in 1..n /\ i + 1 \in 1..(n + 1)
        BY <1>2, <3>2
      <4>2. r[i] = s[i] /\ r[i + 1] = s[i + 1] /\ fetched'[i] = fetched[i]
        BY <1>5, <2>2, <4>1
      <4> QED  BY <2>1, <4>1, <4>2 DEF InLineAt, n
    <3> QED  BY <3>1, <3>2
  <2>5. fetchNext' <= batchTo' => r[Len(fetched') + 1] = fetchNext'
    <3>1. Len(fetched') + 1 = n + 2
      BY <1>2, <1>5
    <3> QED  BY <1>1, <1>3, <2>2, <3>1
  <2>6. InLineAt(r)'
    BY <1>5, <2>3, <2>4, <2>5 DEF InLineAt
  <2> QED  BY <1>5, <2>2, <2>6 DEF InLine, Levels
<1>8. StoredOK'
  BY <1>1, TableStays DEF IInv, StoredOK
<1>9. AtTop' /\ Scanning'
  BY <1>1 DEF AtTop, Scanning
<1> QED  BY <1>6, <1>7, <1>8, <1>9 DEF IInv

\* The blocks of a chain at some of its heights.
LEMMA CutBlocks ==
    ASSUME NEW f, NEW n \in Nat, Segment(f, n), NEW S \in SUBSET DOMAIN f
    PROVE  DOMAIN Cut(f, S) = S /\ \A h \in S : Cut(f, S)[h] = f[h] /\ f[h] \in Blocks
BY DEF Cut, Segment

LEMMA FetchStep ==
    ASSUME IInv, Fetch
    PROVE  IInv'
<1>1. PICK n \in Levels \ {0} : Segment(chain, n)
  BY DEF IInv, NodeOK
<1> DEFINE new == Cut(chain, SubBatch)
<1>2. Answered(new)
  BY DEF Fetch, Answered, dbVars, loopVars
<1>3. DOMAIN new = SubBatch /\ \A h \in SubBatch : new[h] \in Blocks
  <2>1. n \in Nat /\ SubBatch \subseteq DOMAIN chain
    BY DEF Fetch, Levels
  <2> QED  BY <1>1, <2>1, CutBlocks
<1>4. new \in Answers
  <2>1. new = [h \in DOMAIN new |-> new[h]]
    BY DEF Cut
  <2> HIDE DEF new
  <2> QED  BY <1>3, <2>1 DEF Answers
<1>5. NodeOK'
  BY NodeStays DEF IInv, NodeOK, Fetch
<1> HIDE DEF new
<1> QED  BY <1>2, <1>4, <1>5, BatchFetched

LEMMA FetchAcrossStep ==
    ASSUME IInv, FetchAcross
    PROVE  IInv'
<1>1. NodeOK'
  BY ReorganiseStep DEF FetchAcross, IInv
<1>2. PICK n \in Levels \ {0} : Segment(chain, n)
  BY DEF IInv, NodeOK
<1>3. PICK m \in Levels \ {0} : Segment(chain', m)
  BY <1>1 DEF NodeOK, Segment, Blocks, Levels
<1>4. PICK h \in SubBatch :
         /\ fetchNext..(h - 1) \subseteq DOMAIN chain
         /\ SubBatch \ (fetchNext..(h - 1)) \subseteq DOMAIN chain'
         /\ fetched' = Append(fetched, Put(Cut(chain', SubBatch), Cut(chain, fetchNext..(h - 1))))
  BY DEF FetchAcross
<1> DEFINE low == fetchNext..(h - 1)
           new == Put(Cut(chain', SubBatch), Cut(chain, low))
<1>5. Answered(new)
  BY <1>4 DEF FetchAcross, Answered, dbVars, loopVars
<1>6. low \subseteq SubBatch
  <2>1. fetchNext \in Nat /\ batchTo \in -1..MaxHeight
    BY DEF IInv, LoopOK
  <2>2. Min(fetchNext + BatchSize - 1, batchTo) \in Int
    BY <2>1 DEF Min
  <2> DEFINE top == Min(fetchNext + BatchSize - 1, batchTo)
  <2> HIDE DEF top
  <2>3. h \in fetchNext..top /\ top \in Int
    BY <1>4, <2>2 DEF SubBatch, top
  <2>4. fetchNext..(h - 1) \subseteq fetchNext..top
    BY <2>1, <2>3
  <2> QED  BY <2>4 DEF SubBatch, top
<1> HIDE DEF low
<1>7. DOMAIN Cut(chain, low) = low /\ \A i \in low : Cut(chain, low)[i] \in Blocks
  <2>1. n \in Nat /\ low \subseteq DOMAIN chain
    BY <1>4 DEF low, Levels
  <2> QED  BY <1>2, <2>1, CutBlocks
<1>8. /\ DOMAIN Cut(chain', SubBatch) = DOMAIN chain' \cap SubBatch
      /\ \A i \in DOMAIN chain' \cap SubBatch : Cut(chain', SubBatch)[i] \in Blocks
  BY <1>3, CutIs DEF Segment
<1>9. SubBatch \ low \subseteq DOMAIN chain'
  BY <1>4 DEF low
<1>10. DOMAIN new = SubBatch /\ \A i \in SubBatch : new[i] \in Blocks
  <2> DEFINE f == Cut(chain', SubBatch)
             g == Cut(chain, low)
  <2>1. /\ DOMAIN g = low /\ \A i \in DOMAIN g : g[i] \in Blocks
        /\ DOMAIN f = DOMAIN chain' \cap SubBatch /\ \A i \in DOMAIN f : f[i] \in Blocks
    BY <1>7, <1>8
  <2> HIDE DEF f, g
  <2>2. /\ DOMAIN Put(f, g) = DOMAIN f \union DOMAIN g
        /\ \A i \in DOMAIN g : Put(f, g)[i] = g[i]
        /\ \A i \in DOMAIN f \ DOMAIN g : Put(f, g)[i] = f[i]
    BY PutIs
  <2>3. DOMAIN Put(f, g) = SubBatch /\ \A i \in SubBatch : Put(f, g)[i] \in Blocks
    BY <1>6, <1>9, <2>1, <2>2
  <2> QED  BY <2>3 DEF f, g
<1>11. new \in Answers
  <2>1. new = [i \in DOMAIN new |-> new[i]]
    BY DEF Put
  <2> HIDE DEF new
  <2> QED  BY <1>10, <2>1 DEF Answers
<1> HIDE DEF new
<1> QED  BY <1>1, <1>5, <1>11, BatchFetched

LEMMA FetchFailsStep ==
    ASSUME IInv, FetchFails
    PROVE  IInv'
<1>1. /\ phase = "run" /\ fetchNext <= batchTo /\ batchTo' = fetchNext - 1
      /\ UNCHANGED faults \/ Fault
      /\ UNCHANGED <<nodeVars, hashCache, db, syncHeight, disk, phase, current, target, progress,
                     scanAt, fetchNext, fetched>>
  BY DEF FetchFails, dbVars, loopVars
<1>2. fetchNext \in Nat /\ batchTo \in -1..MaxHeight /\ faults \in 0..MaxFaults
  BY DEF IInv, LoopOK
<1>3. batchTo' \in -1..MaxHeight /\ ~(fetchNext' <= batchTo')
  BY <1>1, <1>2
<1>4. faults' \in 0..MaxFaults
  BY <1>1, <1>2, FaultCounts
<1>5. LoopOK'
  BY <1>1, <1>3, <1>4 DEF IInv, LoopOK
<1>6. InLine'
  <2>1. PICK s \in [1..(Len(fetched) + 1) -> Levels] : InLineAt(s)
    BY <1>1 DEF IInv, InLine
  <2>2. InLineAt(s)'
    BY <1>1, <1>3, <2>1 DEF InLineAt
  <2> QED  BY <1>1, <2>2 DEF InLine, Levels
<1>7. NodeOK' /\ StoredOK'
  BY <1>1, NodeStays, TableStays DEF IInv, NodeOK, StoredOK
<1>8. AtTop' /\ Scanning'
  BY <1>1 DEF AtTop, Scanning
<1> QED  BY <1>5, <1>6, <1>7, <1>8 DEF IInv

\* What a COPY that is no duplicate adds: the next m blocks above the top.
Extends(n, m) == /\ n \in 0..MaxHeight /\ m \in 1..BatchSize /\ n + m \in Levels
                 /\ Segment(db, n) /\ Segment(Put(db, Head(fetched)), n + m)
                 /\ DOMAIN Head(fetched) = n..((n + m) - 1)

LEMMA CommitExtends ==
    ASSUME IInv, phase = "run", fetched # << >>, ~Duplicate(Head(fetched)),
           NEW s \in [1..(Len(fetched) + 1) -> Levels], InLineAt(s)
    PROVE  Extends(s[1], s[2] - s[1])
<1> DEFINE head == Head(fetched)
<1>1. fetched \in Seq(Batches) /\ Len(fetched) \in Nat \ {0} /\ head = fetched[1] /\ head \in Batches
  BY DEF IInv, LoopOK
<1>2. /\ s[1] \in Levels /\ s[2] \in Levels /\ s[1] < s[2] /\ s[2] <= s[1] + BatchSize
      /\ DOMAIN head = s[1]..(s[2] - 1)
  <2>1. 1 \in 1..Len(fetched) /\ 1 \in 1..(Len(fetched) + 1) /\ 1 + 1 = 2 /\ 2 \in 1..(Len(fetched) + 1)
    BY <1>1
  <2> QED  BY <1>1, <2>1 DEF InLineAt
<1> HIDE DEF head
<1>3. s[1] \in Nat /\ s[2] \in Nat /\ s[2] <= MaxHeight + 1
  BY <1>2 DEF Levels
<1>4. DOMAIN db = 0..(s[1] - 1)
  <2>1. CASE DOMAIN db = {0} /\ s[1] = 0
    <3>1. 0 \in DOMAIN head
      BY <1>2, <1>3, <2>1
    <3>2. Duplicate(head)
      BY <2>1, <3>1 DEF Duplicate
    <3> QED  BY <3>2 DEF head
  <2> QED  BY <2>1 DEF InLineAt
<1>5. Segment(db, s[1])
  BY <1>4 DEF IInv, StoredOK, Segment
<1>6. \A h \in DOMAIN head : head[h] \in Blocks
  <2> PICK S \in SUBSET Heights : head \in [S -> Blocks]
    BY <1>1 DEF Batches
  <2> QED  OBVIOUS
<1>7. Segment(Put(db, head), (s[2] - 1) + 1)
  <2>1. s[2] - 1 \in Nat /\ s[1] <= s[2] - 1
    BY <1>2, <1>3
  <2> QED  BY <1>2, <1>3, <1>5, <1>6, <2>1, PutSegment
<1>8. (s[2] - 1) + 1 = s[2] /\ s[1] + (s[2] - s[1]) = s[2]
  BY <1>3
<1>9. s[1] \in 0..MaxHeight /\ s[2] - s[1] \in 1..BatchSize
  BY <1>2, <1>3
<1> QED  BY <1>2, <1>5, <1>7, <1>8, <1>9 DEF Extends, head

LEMMA CommitStep ==
    ASSUME IInv, Commit
    PROVE  IInv'
<1>1. /\ phase = "run" /\ fetched # << >> /\ ~Duplicate(Head(fetched))
      /\ db' = Put(db, Head(fetched))
      /\ progress' = CHOOSE h \in DOMAIN Head(fetched) : \A k \in DOMAIN Head(fetched) : k <= h
      /\ fetched' = Tail(fetched)
      /\ UNCHANGED <<nodeVars, hashCache, syncHeight, disk, phase, current, target,
                     scanAt, fetchNext, batchTo, faults>>
  BY DEF Commit
<1> DEFINE n == Len(fetched)
<1>2. PICK s \in [1..(n + 1) -> Levels] : InLineAt(s)
  BY <1>1 DEF IInv, InLine
<1>3. fetched \in Seq(Batches) /\ n \in Nat \ {0} /\ n <= Prefetch
  BY <1>1 DEF IInv, LoopOK
<1>4. /\ fetched' \in Seq(Batches) /\ Len(fetched') = n - 1
      /\ \A i \in 1..(n - 1) : fetched'[i] = fetched[i + 1]
  BY <1>1, <1>3, HeadTailProperties
<1>5. Extends(s[1], s[2] - s[1])
  BY <1>1, <1>2, CommitExtends
<1> HIDE DEF n
<1>6. s[1] \in Nat /\ s[2] \in Nat
  <2>1. 1 \in 1..(n + 1) /\ 2 \in 1..(n + 1)
    BY <1>3
  <2> QED  BY <2>1 DEF Levels
<1>7. /\ s[1] < s[2] /\ s[2] <= MaxHeight + 1 /\ s[2] \in Levels
      /\ Segment(db', s[2]) /\ DOMAIN Head(fetched) = s[1]..(s[2] - 1)
  <2>1. s[1] + (s[2] - s[1]) = s[2]
    BY <1>6
  <2> QED  BY <1>1, <1>5, <1>6, <2>1 DEF Extends, Levels
<1>8. progress' \in Heights
  <2>1. s[2] - 1 \in Nat /\ s[1] <= s[2] - 1 /\ s[2] - 1 <= MaxHeight
    BY <1>6, <1>7
  <2>2. progress' = s[2] - 1
    BY <1>1, <1>6, <1>7, <2>1, MaxOfRange
  <2> QED  BY <2>1, <2>2 DEF Heights
<1>9. LoopOK'
  <2>1. Len(fetched') <= Prefetch
    BY <1>3, <1>4
  <2> QED  BY <1>1, <1>4, <1>8, <2>1 DEF IInv, LoopOK
<1>10. InLine'
  <2> DEFINE shorter == [i \in 1..n |-> s[i + 1]]
  <2>1. shorter \in [1..((n - 1) + 1) -> Levels] /\ \A i \in 1..n : shorter[i] = s[i + 1]
    BY <1>3
  <2> HIDE DEF shorter
  <2>2. PICK r \in [1..((n - 1) + 1) -> Levels] : \A i \in 1..n : r[i] = s[i + 1]
    BY <2>1
  <2>3. DOMAIN db' = 0..(r[1] - 1)
    BY <1>3, <1>7, <2>2 DEF Segment
  <2>4. ASSUME NEW i \in 1..(n - 1)
        PROVE  /\ r[i] < r[i + 1] /\ r[i + 1] <= r[i] + BatchSize
               /\ DOMAIN fetched'[i] = r[i]..(r[i + 1] - 1)
    <3>1. i \in 1..n /\ i + 1 \in 1..n /\ r[i] = s[i + 1] /\ r[i + 1] = s[(i + 1) + 1]
      BY <1>3, <2>2
    <3>2. fetched'[i] = fetched[i + 1]
      BY <1>4
    <3> QED  BY <1>2, <3>1, <3>2 DEF InLineAt, n
  <2>5. fetchNext' <= batchTo' => r[Len(fetched') + 1] = fetchNext'
    <3>1. Len(fetched') + 1 = n /\ r[n] = s[n + 1]
      BY <1>3, <1>4, <2>2
    <3> QED  BY <1>1, <1>2, <3>1 DEF InLineAt, n
  <2>6. InLineAt(r)'
    BY <1>4, <2>3, <2>4, <2>5 DEF InLineAt
  <2> QED  BY <1>4, <2>2, <2>6 DEF InLine, Levels
<1>11. StoredOK'
  <2>1. syncHeight' \in Heights
    BY <1>1 DEF IInv, StoredOK
  <2> QED  BY <1>1, <1>7, <2>1, TableBecomes DEF IInv
<1>12. NodeOK'
  BY <1>1, NodeStays DEF IInv, NodeOK
<1>13. AtTop' /\ Scanning'
  BY <1>1 DEF AtTop, Scanning
<1> QED  BY <1>9, <1>10, <1>11, <1>12, <1>13 DEF IInv

LEMMA CommitFailsStep ==
    ASSUME IInv, CommitFails
    PROVE  IInv'
<1>1. /\ phase = "run" /\ fetched # << >> /\ ~Duplicate(Head(fetched)) /\ Fault
      /\ UNCHANGED db \/ db' = Put(db, Head(fetched))
      /\ StatusAt(progress) /\ EndCycle
      /\ UNCHANGED <<nodeVars, hashCache, disk, progress>>
  BY DEF CommitFails
<1>2. progress \in Heights /\ syncHeight \in Heights /\ faults \in 0..MaxFaults
  BY DEF IInv, LoopOK, StoredOK
<1>3. syncHeight' \in Heights /\ faults' \in 0..MaxFaults
  BY <1>1, <1>2, StatusKeeps, FaultCounts
<1>4. StoredOK'
  <2>1. CASE UNCHANGED db
    BY <1>1, <1>3, <2>1, TableStays DEF IInv
  <2>2. CASE db' = Put(db, Head(fetched))
    <3>1. PICK s \in [1..(Len(fetched) + 1) -> Levels] : InLineAt(s)
      BY <1>1 DEF IInv, InLine
    <3>2. Extends(s[1], s[2] - s[1])
      BY <1>1, <3>1, CommitExtends
    <3> DEFINE k == s[1] + (s[2] - s[1])
    <3>3. k \in Levels /\ Segment(db', k)
      BY <2>2, <3>2 DEF Extends
    <3> HIDE DEF k
    <3> QED  BY <1>1, <1>3, <3>3, TableBecomes DEF IInv
  <2> QED  BY <1>1, <2>1, <2>2
<1>5. NodeOK'
  BY <1>1, NodeStays DEF IInv, NodeOK
<1>6. LoopOK' /\ AtTop' /\ Scanning' /\ InLine'
  BY <1>1, <1>2, <1>3, CycleEnds
<1> QED  BY <1>4, <1>5, <1>6 DEF IInv

-----------------------------------------------------------------------------
(* Crashes.                                                                *)

LEMMA ProcessCrashStep ==
    ASSUME IInv, ProcessCrash
    PROVE  IInv'
<1>1. /\ Fault /\ EndCycle /\ hashCache' = Empty /\ UNCHANGED <<nodeVars, db, disk>>
      /\ \/ /\ progress' = Max(MaxIndexed, syncHeight)
            /\ StatusAt(progress') \/ UNCHANGED syncHeight
         \/ progress' = 0 /\ UNCHANGED syncHeight
  BY DEF ProcessCrash
<1>2. syncHeight \in Heights /\ 0 \in Heights /\ faults \in 0..MaxFaults
  BY DEF IInv, StoredOK, LoopOK, Heights
<1>3. MaxIndexed \in Heights
  <2>1. PICK n \in Levels : Segment(db, n)
    BY DEF IInv, StoredOK
  <2>2. n \in Nat /\ n <= MaxHeight + 1
    BY DEF Levels
  <2>3. MaxIndexed = IF n = 0 THEN 0 ELSE n - 1
    BY <2>1, <2>2, MaxIndexedIs
  <2> QED  BY <2>2, <2>3 DEF Heights
<1>4. progress' \in Heights
  BY <1>1, <1>2, <1>3 DEF Max
<1>5. syncHeight' \in Heights
  <2>1. CASE StatusAt(progress')
    BY <1>2, <1>4, <2>1 DEF StatusAt
  <2> QED  BY <1>1, <1>2, <2>1
<1>6. faults' \in 0..MaxFaults
  BY <1>1, <1>2, FaultCounts
<1>7. StoredOK'
  BY <1>1, <1>5, TableStays DEF IInv
<1>8. NodeOK'
  BY <1>1, NodeStays, EmptySegment DEF IInv
<1>9. LoopOK' /\ AtTop' /\ Scanning' /\ InLine'
  BY <1>1, <1>4, <1>6, CycleEnds
<1> QED  BY <1>7, <1>8, <1>9 DEF IInv

LEMMA FlushStep ==
    ASSUME IInv, Flush
    PROVE  IInv'
<1>1. /\ disk'.db = db /\ disk'.syncHeight = syncHeight
      /\ UNCHANGED <<chain, forks, hashCache, db, syncHeight, phase, current, target, progress,
                     scanAt, fetchNext, batchTo, fetched, faults>>
  BY DEF Flush, nodeVars, dbVars, loopVars, batchVars
<1>2. NodeOK' /\ LoopOK' /\ AtTop' /\ Scanning'
  BY <1>1 DEF IInv, NodeOK, LoopOK, AtTop, Scanning, Segment
<1>3. StoredOK'
  BY <1>1 DEF IInv, StoredOK, Segment
<1>4. InLine'
  BY <1>1 DEF IInv, InLine, InLineAt
<1> QED  BY <1>2, <1>3, <1>4 DEF IInv

LEMMA DatabaseCrashStep ==
    ASSUME IInv, DatabaseCrash
    PROVE  IInv'
<1>1. /\ Fault /\ db' = disk.db /\ syncHeight' = disk.syncHeight /\ EndCycle
      /\ UNCHANGED <<nodeVars, hashCache, disk, progress>>
  BY DEF DatabaseCrash
<1>2. progress \in Heights /\ faults \in 0..MaxFaults /\ disk.syncHeight \in Heights
  BY DEF IInv, LoopOK, StoredOK
<1>3. faults' \in 0..MaxFaults
  BY <1>1, <1>2, FaultCounts
<1>4. StoredOK'
  <2>1. PICK n \in Levels : Segment(disk.db, n)
    BY DEF IInv, StoredOK
  <2> QED  BY <1>1, <1>2, <2>1, TableBecomes DEF IInv
<1>5. NodeOK'
  BY <1>1, NodeStays DEF IInv, NodeOK
<1>6. LoopOK' /\ AtTop' /\ Scanning' /\ InLine'
  BY <1>1, <1>2, <1>3, CycleEnds
<1> QED  BY <1>4, <1>5, <1>6 DEF IInv

-----------------------------------------------------------------------------
(* The inductive invariant.                                                *)

LEMMA InitIInv == Init => IInv
<1> SUFFICES ASSUME Init PROVE IInv
  OBVIOUS
<1>1. Segment(chain, 2) /\ 2 \in Levels \ {0}
  BY DEF Init, Segment, Levels, Genesis, Blocks
<1>2. Segment(db, 0) /\ Segment(disk.db, 0) /\ 0 \in Levels
  BY EmptySegment DEF Init, Levels
<1>3. 0 \in Heights /\ << >> \in Seq(Batches) /\ Len(<< >>) <= Prefetch
  BY DEF Heights
<1>4. NodeOK
  BY <1>1, EmptySegment DEF Init, NodeOK
<1>5. StoredOK
  BY <1>2, <1>3 DEF Init, StoredOK
<1>6. LoopOK
  BY <1>3 DEF Init, LoopOK
<1>7. AtTop /\ Scanning /\ InLine
  BY DEF Init, AtTop, Scanning, InLine
<1> QED  BY <1>4, <1>5, <1>6, <1>7 DEF IInv

LEMMA StepIInv == IInv /\ [Next]_vars => IInv'
<1> SUFFICES ASSUME IInv, [Next]_vars PROVE IInv'
  OBVIOUS
<1>1. CASE NodeMines \/ NodeReorganises \/ CacheExpires \/ ApiLookUp
  BY <1>1, EnvironmentStep
<1>2. CASE ReadHeights \/ DetectReorg \/ ScanForAncestor
  BY <1>2, ReadStep, DetectStep, ScanStep
<1>3. CASE RefuseRollback \/ CaughtUp \/ CommitDuplicate \/ BatchReturns
  BY <1>3, EndStep
<1>4. CASE Rollback \/ RollbackFails
  BY <1>4, RollbackStep, RollbackFailsStep
<1>5. CASE StartBatch \/ Fetch \/ FetchAcross \/ FetchFails
  BY <1>5, StartStep, FetchStep, FetchAcrossStep, FetchFailsStep
<1>6. CASE Commit \/ CommitFails
  BY <1>6, CommitStep, CommitFailsStep
<1>7. CASE ProcessCrash \/ Flush \/ DatabaseCrash
  BY <1>7, ProcessCrashStep, FlushStep, DatabaseCrashStep
<1>8. CASE UNCHANGED vars
  <2>1. UNCHANGED <<chain, forks, hashCache, db, syncHeight, disk, phase, current, target, progress,
                    scanAt, fetchNext, batchTo, fetched, faults>>
    BY <1>8 DEF vars, nodeVars, dbVars, loopVars, batchVars
  <2>2. NodeOK' /\ LoopOK' /\ AtTop' /\ Scanning' /\ StoredOK'
    BY <2>1 DEF IInv, NodeOK, LoopOK, AtTop, Scanning, StoredOK, Segment
  <2>3. InLine'
    BY <2>1 DEF IInv, InLine, InLineAt
  <2> QED  BY <2>2, <2>3 DEF IInv
<1> QED  BY <1>1, <1>2, <1>3, <1>4, <1>5, <1>6, <1>7, <1>8 DEF Next, Indexer

\* The inductive invariant holds throughout.
THEOREM Invariance == Spec => []IInv
<1>1. Init => IInv
  BY InitIInv
<1>2. IInv /\ [Next]_vars => IInv'
  BY StepIInv
<1> QED  BY <1>1, <1>2, PTL DEF Spec

-----------------------------------------------------------------------------
(* The theorems.                                                           *)

\* Type correctness of node, tables and loop.
THEOREM TypeCorrect == Spec => []TypeOK
<1>1. IInv => TypeOK
  <2> SUFFICES ASSUME IInv PROVE TypeOK
    OBVIOUS
  <2>1. /\ DOMAIN chain \subseteq Heights /\ \A h \in DOMAIN chain : chain[h] \in Blocks
        /\ DOMAIN db \subseteq Heights /\ \A h \in DOMAIN db : db[h] \in Blocks
    BY DEF IInv, NodeOK, StoredOK, Segment, Levels, Heights
  <2> QED  BY <2>1 DEF TypeOK, IInv, NodeOK, StoredOK, LoopOK
<1> QED  BY <1>1, Invariance, PTL

\* Whatever fails, crashes, lags or reorganises, and whenever it does, table blocks
\* has no gap below its top.
THEOREM TableHasNoGap == Spec => []NoGap
<1>1. IInv => NoGap
  <2> SUFFICES ASSUME IInv, NEW h \in DOMAIN db PROVE 0..h \subseteq DOMAIN db
    BY DEF NoGap
  <2> PICK n \in Levels : DOMAIN db = 0..(n - 1)
    BY DEF IInv, StoredOK, Segment
  <2> QED  BY DEF Levels
<1> QED  BY <1>1, Invariance, PTL

-----------------------------------------------------------------------------
(* BlockIndexer implements BlocksTable.                                    *)

TableStep == Table!Append \/ Table!Rollback \/ Table!Flush \/ Table!Lose

LEMMA CommitMaps ==
    ASSUME IInv, phase = "run", fetched # << >>, ~Duplicate(Head(fetched)),
           db' = Put(db, Head(fetched)), UNCHANGED disk
    PROVE  Table!Append
<1>1. PICK s \in [1..(Len(fetched) + 1) -> Levels] : InLineAt(s)
  BY DEF IInv, InLine
<1>2. Extends(s[1], s[2] - s[1])
  BY <1>1, CommitExtends
<1> DEFINE n == s[1]
           m == s[2] - s[1]
<1> HIDE DEF n, m
<1>3. n \in 0..MaxHeight /\ m \in 1..BatchSize
      /\ DOMAIN db = 0..(n - 1) /\ DOMAIN db' = 0..(n + m - 1)
  BY <1>2 DEF Extends, Segment, n, m
<1> QED  BY <1>3 DEF Table!Append, Table!Extend

LEMMA RollbackMaps ==
    ASSUME IInv, phase = "rollback", ~TooDeep, db' = Cut(db, Kept), UNCHANGED disk
    PROVE  Table!Rollback
<1> DEFINE n == current + 1
           m == current - scanAt
<1>1. /\ n \in 1..MaxHeight + 1 /\ m \in 1..MaxReorgDepth
      /\ DOMAIN db = 0..(n - 1) /\ DOMAIN db' = 0..(n - m - 1)
  <2>1. (scanAt + 1) - 1 = scanAt /\ n - m - 1 = scanAt /\ n \in 1..MaxHeight + 1
        /\ m \in 1..MaxReorgDepth
    BY AncestorBelow
  <2> QED  BY <2>1, AncestorBelow DEF Segment
<1> HIDE DEF n, m
<1> QED  BY <1>1 DEF Table!Rollback

\* Whatever the node, the cache and the crashes do, the table grows only at its top
\* and by at most a sub-batch, is cut by at most MAX_REORG_DEPTH blocks, or falls
\* back to what was flushed.
THEOREM ImplementsTable == Spec => TableSpec
<1>1. Init => Table!Init
  BY EmptySegment DEF Init, Table!Init
<1>2. IInv /\ [Next]_vars => [TableStep]_<<DOMAIN db, DOMAIN disk.db>>
  <2> SUFFICES ASSUME IInv, [Next]_vars
               PROVE  TableStep \/ (UNCHANGED DOMAIN db /\ UNCHANGED DOMAIN disk.db)
    OBVIOUS
  <2>1. CASE Commit
    BY <2>1, CommitMaps DEF Commit, TableStep
  <2>2. CASE CommitFails
    <3>1. UNCHANGED disk /\ (UNCHANGED db \/ Table!Append)
      BY <2>2, CommitMaps DEF CommitFails
    <3> QED  BY <3>1 DEF TableStep
  <2>3. CASE Rollback
    BY <2>3, RollbackMaps DEF Rollback, TableStep
  <2>4. CASE RollbackFails
    <3>1. UNCHANGED disk /\ (UNCHANGED db \/ Table!Rollback)
      BY <2>4, RollbackMaps DEF RollbackFails
    <3> QED  BY <3>1 DEF TableStep
  <2>5. CASE Flush
    BY <2>5 DEF Flush, dbVars, Table!Flush, TableStep
  <2>6. CASE DatabaseCrash
    BY <2>6 DEF DatabaseCrash, Table!Lose, TableStep
  <2>7. CASE \/ NodeMines \/ NodeReorganises \/ CacheExpires \/ ApiLookUp
             \/ ReadHeights \/ DetectReorg \/ ScanForAncestor \/ RefuseRollback \/ StartBatch
             \/ CaughtUp \/ Fetch \/ FetchAcross \/ FetchFails \/ CommitDuplicate \/ BatchReturns \/ ProcessCrash
             \/ UNCHANGED vars
    <3>1. UNCHANGED <<db, disk>>
      BY <2>7 DEF NodeMines, NodeReorganises, CacheExpires, ApiLookUp, ReadHeights, DetectReorg,
          ScanForAncestor, RefuseRollback, StartBatch, CaughtUp, Fetch, FetchAcross, FetchFails,
          CommitDuplicate, BatchReturns, ProcessCrash, vars, dbVars
    <3> QED  BY <3>1
  <2> QED  BY <2>1, <2>2, <2>3, <2>4, <2>5, <2>6, <2>7 DEF Next, Indexer
<1> QED  BY <1>1, <1>2, Invariance, PTL DEF Spec, TableSpec, Table!Spec, TableStep

(***************************************************************************)
(* The contents of table blocks: with a cache that is emptied              *)
(* when the tip changes, look-ups that are answered, and reorganisations   *)
(* between two cycles of the loop (Calm), the stored blocks form a chain   *)
(* and a rollback deletes abandoned blocks only, for every size of batches *)
(* and whatever else fails or crashes.                                     *)
(*                                                                         *)
(* The argument: within a cycle the node's chain only grows, so what was   *)
(* compared or fetched in the cycle stays true of it (CInv).               *)
(***************************************************************************)
Calm == ~LookupsFail /\ ~EventsLag /\ ~ReorgAnytime

\* Every block names the one below, down to genesis.
Chained(f) == /\ \A h \in DOMAIN f \ {0} : f[h].parent = f[h - 1].fork
              /\ 0 \in DOMAIN f => f[0] = Genesis

\* The block of the table is the node's.
OnChain(h) == h \in DOMAIN chain /\ db[h].fork = chain[h].fork

CacheTrue == \A h \in DOMAIN hashCache : h \in DOMAIN chain /\ hashCache[h] = chain[h].fork

\* What find_common_ancestor has passed is not the node's, and where it stops is.
Compared == /\ phase \in {"scan", "rollback"} =>
                   /\ current \in DOMAIN chain
                   /\ \A h \in (scanAt + 1)..current : db[h].fork # chain[h].fork
            /\ phase = "rollback" => OnChain(scanAt)

\* A call starts on a block of the node.
Resumes == /\ phase \in {"detect", "scan", "rollback", "index"} => target \in DOMAIN chain
           /\ phase = "index" /\ current < target /\ current > 0 => OnChain(current)

\* During the call the table's top is the node's, and so are the fetched blocks.
Continues ==
    phase = "run" =>
        /\ \A h \in DOMAIN db : h + 1 \notin DOMAIN db => OnChain(h)
        /\ \A i \in 1..Len(fetched) : \A h \in DOMAIN fetched[i] :
               h \in DOMAIN chain /\ fetched[i][h] = chain[h]

CInv == /\ IInv /\ Chained(chain) /\ Chained(db) /\ Chained(disk.db)
        /\ CacheTrue /\ Compared /\ Resumes /\ Continues

-----------------------------------------------------------------------------
(* Chains.                                                                 *)

LEMMA CutChained ==
    ASSUME NEW f, NEW n \in Nat, Segment(f, n), Chained(f), NEW k \in Nat, k < n
    PROVE  Chained(Cut(f, 0..k))
<1>1. DOMAIN f = 0..(n - 1) /\ DOMAIN f \cap (0..k) = 0..k
  BY DEF Segment
<1>2. DOMAIN Cut(f, 0..k) = 0..k /\ \A h \in 0..k : Cut(f, 0..k)[h] = f[h]
  BY <1>1 DEF Cut
<1>3. ASSUME NEW h \in (0..k) \ {0} PROVE Cut(f, 0..k)[h].parent = Cut(f, 0..k)[h - 1].fork
  <2>1. h - 1 \in 0..k /\ h \in DOMAIN f \ {0}
    BY <1>1
  <2> QED  BY <1>2, <2>1 DEF Chained
<1>4. 0 \in 0..k /\ 0 \in DOMAIN f
  BY <1>1
<1> QED  BY <1>2, <1>3, <1>4 DEF Chained

LEMMA PutChained ==
    ASSUME NEW f, NEW n \in Nat, Segment(f, n), Chained(f), NEW k \in Nat, n <= k,
           NEW g, DOMAIN g = n..k, \A h \in (n + 1)..k : g[h].parent = g[h - 1].fork,
           n > 0 => g[n].parent = f[n - 1].fork, n = 0 => g[0] = Genesis
    PROVE  Chained(Put(f, g))
<1>1. DOMAIN f = 0..(n - 1) /\ DOMAIN f \union DOMAIN g = 0..k
  BY DEF Segment
<1>2. /\ DOMAIN Put(f, g) = 0..k
      /\ \A h \in 0..(n - 1) : Put(f, g)[h] = f[h]
      /\ \A h \in n..k : Put(f, g)[h] = g[h]
  BY <1>1 DEF Put
<1> DEFINE r == Put(f, g)
<1> HIDE DEF r
<1>3. ASSUME NEW h \in (0..k) \ {0} PROVE r[h].parent = r[h - 1].fork
  <2>1. CASE h < n
    <3>1. h \in DOMAIN f \ {0} /\ h \in 0..(n - 1) /\ h - 1 \in 0..(n - 1)
      BY <1>1, <2>1
    <3> QED  BY <1>2, <3>1 DEF Chained, r
  <2>2. CASE h = n
    <3>1. h - 1 \in 0..(n - 1) /\ h \in n..k /\ n > 0
      BY <2>2
    <3> QED  BY <1>2, <2>2, <3>1 DEF r
  <2>3. CASE h > n
    <3>1. h \in (n + 1)..k /\ h \in n..k /\ h - 1 \in n..k
      BY <2>3
    <3> QED  BY <1>2, <3>1 DEF r
  <2> QED  BY <2>1, <2>2, <2>3
<1>4. r[0] = Genesis
  <2>1. CASE n = 0
    <3>1. 0 \in n..k
      BY <2>1
    <3> QED  BY <1>2, <2>1, <3>1 DEF r
  <2>2. CASE n > 0
    <3>1. 0 \in 0..(n - 1) /\ 0 \in DOMAIN f
      BY <1>1, <2>2
    <3> QED  BY <1>2, <3>1 DEF Chained, r
  <2> QED  BY <2>1, <2>2
<1> QED  BY <1>2, <1>3, <1>4 DEF Chained, r

-----------------------------------------------------------------------------
(* The node during a cycle.                                                *)

\* The node's chain keeps its blocks.
Grows == \A h \in DOMAIN chain : h \in DOMAIN chain' /\ chain'[h] = chain[h]

\* What the loop knows of the chain stays true while the chain grows.
LEMMA StillTrue ==
    ASSUME CInv, Grows, UNCHANGED <<db, phase, current, target, scanAt, fetched>>
    PROVE  Compared' /\ Resumes' /\ Continues'
<1>1. \A h : OnChain(h) => OnChain(h)'
  BY DEF Grows, OnChain
<1>2. PICK n \in Nat : DOMAIN chain = 0..(n - 1)
  BY DEF CInv, IInv, NodeOK, Segment, Levels
<1>3. scanAt \in Nat /\ current \in Nat
  BY DEF CInv, IInv, LoopOK, Heights
<1>4. current \in DOMAIN chain => (scanAt + 1)..current \subseteq DOMAIN chain
  BY <1>2, <1>3
<1>5. Compared'
  BY <1>1, <1>4 DEF CInv, Compared, Grows
<1>6. Resumes'
  BY <1>1 DEF CInv, Resumes, Grows
<1>7. Continues'
  BY <1>1 DEF CInv, Continues, Grows
<1> QED  BY <1>5, <1>6, <1>7

LEMMA GoesRound ==
    ASSUME phase' = "loop"
    PROVE  Compared' /\ Resumes' /\ Continues'
BY DEF Compared, Resumes, Continues

LEMMA StillChained ==
    ASSUME CInv
    PROVE  /\ UNCHANGED chain => Chained(chain)'
           /\ UNCHANGED db => Chained(db)'
           /\ UNCHANGED disk => Chained(disk.db)'
BY DEF CInv, Chained

LEMMA CacheStays ==
    ASSUME CInv, UNCHANGED chain, UNCHANGED hashCache \/ hashCache' = Empty
    PROVE  CacheTrue'
BY EmptySegment DEF CInv, CacheTrue

\* With Calm a look-up tells what the node says.
LEMMA LookUpTells ==
    ASSUME CInv, Calm, UNCHANGED chain, NEW h, NEW answer, LookUp(h, answer)
    PROVE  /\ CacheTrue'
           /\ \/ h \in DOMAIN chain /\ answer = chain[h].fork
              \/ h \notin DOMAIN chain /\ answer = NoHash
<1>1. CacheTrue
  BY DEF CInv
<1>2. CASE h \in DOMAIN hashCache /\ answer = hashCache[h] /\ UNCHANGED hashCache
  BY <1>1, <1>2 DEF CacheTrue
<1>3. CASE h \notin DOMAIN hashCache /\ h \in DOMAIN chain /\ answer = chain[h].fork
           /\ hashCache' = Put(hashCache, At(h, answer))
  <2>1. /\ DOMAIN hashCache' = DOMAIN hashCache \union {h}
        /\ hashCache'[h] = answer
        /\ \A k \in DOMAIN hashCache : hashCache'[k] = hashCache[k]
    BY <1>3 DEF Put, At
  <2> QED  BY <1>1, <1>3, <2>1 DEF CacheTrue
<1>4. CASE h \notin DOMAIN chain /\ answer = NoHash /\ UNCHANGED hashCache
  BY <1>1, <1>4 DEF CacheTrue
<1> QED  BY <1>2, <1>3, <1>4 DEF LookUp, Calm

LEMMA MineLinks ==
    ASSUME CInv, Calm, NodeMines
    PROVE  Chained(chain)' /\ CacheTrue' /\ Grows
<1>1. PICK n \in Nat \ {0}, b \in Blocks :
          /\ Segment(chain, n) /\ b.parent = chain[n - 1].fork
          /\ chain' = Put(chain, At(n, b))
  BY NewBlock DEF CInv, IInv
<1>2. DOMAIN At(n, b) = n..n /\ At(n, b)[n] = b
  BY DEF At
<1>3. Chained(Put(chain, At(n, b)))
  <2>1. n \in Nat /\ n <= n /\ n > 0 /\ (n + 1)..n = {}
    BY <1>1
  <2> QED  BY <1>1, <1>2, <2>1, PutChained DEF CInv
<1>4. Chained(chain)'
  BY <1>1, <1>3 DEF Chained, Genesis
<1>5. Grows
  <2>1. n \notin DOMAIN chain
    BY <1>1 DEF Segment
  <2> QED  BY <1>1, <1>2, <2>1 DEF Grows, Put, At
<1>6. CacheTrue'
  BY EmptySegment DEF NodeMines, TipChanged, Calm, CacheTrue
<1> QED  BY <1>4, <1>5, <1>6

LEMMA ReorganiseLinks ==
    ASSUME CInv, Calm, NodeReorganises
    PROVE  Chained(chain)' /\ CacheTrue' /\ phase' = "loop"
<1> PICK t \in Nat, k \in Nat, n \in Nat : \E g :
              /\ Segment(chain, t) /\ k < t /\ k + 1 <= n
              /\ DOMAIN g = (k + 1)..n
              /\ g[k + 1].parent = chain[k].fork
              /\ \A h \in (k + 2)..n : g[h].parent = g[h - 1].fork
              /\ chain' = Put(Cut(chain, 0..k), g)
  BY NewFork DEF CInv, IInv, NodeReorganises
<1>1. PICK g :
              /\ Segment(chain, t) /\ k < t /\ k + 1 <= n
              /\ DOMAIN g = (k + 1)..n
              /\ g[k + 1].parent = chain[k].fork
              /\ \A h \in (k + 2)..n : g[h].parent = g[h - 1].fork
              /\ chain' = Put(Cut(chain, 0..k), g)
  OBVIOUS
<1> DEFINE f == Cut(chain, 0..k)
<1>2. Segment(f, k + 1) /\ Chained(f)
  BY <1>1, CutSegment, CutChained DEF CInv
<1>3. f[k] = chain[k]
  BY <1>1 DEF Cut, Segment
<1> HIDE DEF f
<1>4. Chained(Put(f, g))
  <2>1. k + 1 \in Nat /\ (k + 1) + 1 = k + 2 /\ (k + 1) - 1 = k /\ k + 1 # 0 /\ k + 1 > 0
    BY <1>1
  <2> QED  BY <1>1, <1>2, <1>3, <2>1, PutChained
<1>5. Chained(chain)'
  BY <1>1, <1>4 DEF Chained, Genesis, f
<1>6. CacheTrue'
  BY EmptySegment DEF NodeReorganises, Reorganise, TipChanged, Calm, CacheTrue
<1>7. phase' = "loop"
  BY DEF NodeReorganises, Calm, loopVars
<1> QED  BY <1>5, <1>6, <1>7

-----------------------------------------------------------------------------
(* The main loop.                                                          *)

LEMMA ReadLinks ==
    ASSUME CInv, ReadHeights
    PROVE  Compared' /\ Resumes' /\ Continues'
<1>1. PICK t \in Levels \ {0} : Segment(chain, t)
  BY DEF CInv, IInv, NodeOK
<1>2. t \in Nat \ {0} /\ Tip = t - 1 /\ t - 1 \in DOMAIN chain
  BY <1>1, TipIs DEF Levels, Segment
<1>3. phase' = "detect" /\ target' = Tip /\ UNCHANGED chain
  BY DEF ReadHeights, nodeVars
<1> QED  BY <1>2, <1>3 DEF Compared, Resumes, Continues

LEMMA DetectLinks ==
    ASSUME CInv, Calm, DetectReorg
    PROVE  CacheTrue' /\ Compared' /\ Resumes' /\ Continues'
<1>1. phase = "detect" /\ UNCHANGED <<chain, db, current, target>>
  BY DEF DetectReorg, nodeVars, dbVars
<1>2. target \in DOMAIN chain /\ current \in Nat
  BY <1>1 DEF CInv, Resumes, IInv, LoopOK, Heights
<1>3. PICK n \in Nat : DOMAIN chain = 0..(n - 1)
  BY DEF CInv, IInv, NodeOK, Segment, Levels
<1>4. CASE current = 0 /\ phase' = "index" /\ UNCHANGED hashCache
  <2>1. CacheTrue'
    BY <1>1, <1>4, CacheStays
  <2> QED  BY <1>1, <1>2, <1>4, <2>1 DEF Compared, Resumes, Continues
<1>5. CASE \E answer :
              /\ LookUp(current, answer)
              /\ IF SeemsCurrent(answer) THEN phase' = "index"
                 ELSE phase' = "scan" /\ scanAt' = current - 1
  <2> PICK answer :
        /\ LookUp(current, answer)
        /\ IF SeemsCurrent(answer) THEN phase' = "index"
           ELSE phase' = "scan" /\ scanAt' = current - 1
    BY <1>5
  <2>1. /\ CacheTrue'
        /\ \/ current \in DOMAIN chain /\ answer = chain[current].fork
           \/ current \notin DOMAIN chain /\ answer = NoHash
    BY <1>1, LookUpTells
  <2>2. CASE SeemsCurrent(answer)
    <3>1. current < target => current \in DOMAIN chain
      BY <1>2, <1>3
    <3>2. current < target => OnChain(current)
      <4>1. ASSUME current \in DOMAIN chain PROVE db[current].fork = chain[current].fork
        <5>1. chain[current].fork # NoHash
          BY <4>1 DEF CInv, IInv, NodeOK, Segment, Blocks, NoHash
        <5> QED  BY <2>1, <2>2, <4>1, <5>1 DEF SeemsCurrent
      <4> QED  BY <3>1, <4>1 DEF OnChain
    <3>3. phase' = "index"
      BY <2>2
    <3> QED  BY <1>1, <1>2, <2>1, <3>2, <3>3 DEF Compared, Resumes, Continues, OnChain
  <2>3. CASE ~SeemsCurrent(answer)
    <3>1. current \in DOMAIN chain /\ db[current].fork # chain[current].fork
      BY <2>1, <2>3 DEF SeemsCurrent
    <3>2. phase' = "scan" /\ scanAt' = current - 1
      BY <2>3
    <3>3. (scanAt' + 1)..current' = {current}
      BY <1>1, <1>2, <3>2
    <3> QED  BY <1>1, <1>2, <2>1, <3>1, <3>2, <3>3 DEF Compared, Resumes, Continues
  <2> QED  BY <2>2, <2>3
<1> QED  BY <1>4, <1>5 DEF DetectReorg

LEMMA ScanLinks ==
    ASSUME CInv, Calm, ScanForAncestor
    PROVE  CacheTrue' /\ Compared' /\ Resumes' /\ Continues'
<1>1. phase = "scan" /\ UNCHANGED <<chain, db>>
  BY DEF ScanForAncestor, nodeVars
<1>2. /\ target \in DOMAIN chain /\ current \in DOMAIN chain
      /\ \A h \in (scanAt + 1)..current : db[h].fork # chain[h].fork
      /\ scanAt \in Nat /\ current \in Nat /\ scanAt < current
  BY <1>1 DEF CInv, Resumes, Compared, IInv, LoopOK, Scanning, Heights
<1>3. scanAt \in DOMAIN chain
  <2> PICK n \in Nat : DOMAIN chain = 0..(n - 1)
    BY DEF CInv, IInv, NodeOK, Segment, Levels
  <2> QED  BY <1>2
<1>4. PICK answer :
          /\ LookUp(scanAt, answer)
          /\ \/ /\ answer = db[scanAt].fork /\ phase' = "rollback"
                /\ UNCHANGED <<current, target, scanAt>>
             \/ /\ answer # db[scanAt].fork
                /\ scanAt' = scanAt - 1 /\ UNCHANGED <<phase, current, target>>
             \/ EndCycle
  BY DEF ScanForAncestor
<1>5. CacheTrue' /\ answer = chain[scanAt].fork
  BY <1>1, <1>3, <1>4, LookUpTells
<1>6. CASE EndCycle
  BY <1>5, <1>6, GoesRound DEF EndCycle
<1>7. CASE /\ answer = db[scanAt].fork /\ phase' = "rollback"
           /\ UNCHANGED <<current, target, scanAt>>
  <2>1. Compared'
    BY <1>1, <1>2, <1>3, <1>5, <1>7 DEF Compared, OnChain
  <2> QED  BY <1>1, <1>2, <1>5, <1>7, <2>1 DEF Resumes, Continues
<1>8. CASE /\ answer # db[scanAt].fork
           /\ scanAt' = scanAt - 1 /\ UNCHANGED <<phase, current, target>>
  <2>1. \A h \in (scanAt' + 1)..current : h = scanAt \/ h \in (scanAt + 1)..current
    BY <1>2, <1>8
  <2>2. Compared'
    BY <1>1, <1>2, <1>5, <1>8, <2>1 DEF Compared
  <2> QED  BY <1>1, <1>2, <1>5, <1>8, <2>2 DEF Resumes, Continues
<1> QED  BY <1>4, <1>6, <1>7, <1>8

LEMMA RollbackChained ==
    ASSUME CInv, phase = "rollback", ~TooDeep
    PROVE  Chained(Cut(db, Kept))
<1>1. current + 1 \in Nat /\ scanAt < current + 1
  BY AncestorBelow DEF CInv
<1> QED  BY <1>1, AncestorBelow, CutChained DEF CInv, Kept

LEMMA RollbackLinks ==
    ASSUME CInv, Rollback
    PROVE  Chained(db)' /\ Compared' /\ Resumes' /\ Continues'
<1>1. /\ phase = "rollback" /\ ~TooDeep /\ db' = Cut(db, Kept)
      /\ current' = scanAt /\ phase' = "index" /\ UNCHANGED <<chain, target>>
  BY DEF Rollback, nodeVars
<1>2. Chained(db)'
  <2>1. Chained(db')
    BY <1>1, RollbackChained
  <2> QED  BY <2>1 DEF Chained, Genesis
<1>3. OnChain(scanAt) /\ target \in DOMAIN chain
  BY <1>1 DEF CInv, Compared, Resumes
<1>4. db'[scanAt] = db[scanAt]
  <2>1. scanAt \in DOMAIN db \cap Kept
    BY <1>1, AncestorBelow DEF CInv, Kept, Segment
  <2> QED  BY <1>1, <2>1 DEF Cut
<1>5. Resumes'
  BY <1>1, <1>3, <1>4 DEF Resumes, OnChain
<1> QED  BY <1>1, <1>2, <1>5 DEF Compared, Continues

-----------------------------------------------------------------------------
(* The call.                                                               *)

LEMMA StartLinks ==
    ASSUME CInv, StartBatch
    PROVE  Compared' /\ Resumes' /\ Continues'
<1>1. /\ phase = "index" /\ current < target /\ fetched' = << >> /\ phase' = "run"
      /\ UNCHANGED <<chain, db>>
  BY DEF StartBatch, nodeVars, dbVars
<1>2. current \in Nat /\ (DOMAIN db = 0..current \/ DOMAIN db = {})
  BY <1>1 DEF CInv, IInv, LoopOK, AtTop, Heights
<1>3. ASSUME NEW h \in DOMAIN db, h + 1 \notin DOMAIN db
      PROVE  OnChain(h)
  <2>1. h = current
    BY <1>2, <1>3
  <2>2. CASE current > 0
    BY <1>1, <2>1, <2>2 DEF CInv, Resumes
  <2>3. CASE current = 0
    <3>1. 0 \in DOMAIN chain
      BY DEF CInv, IInv, NodeOK, Segment, Levels
    <3> QED  BY <1>3, <2>1, <2>3, <3>1 DEF CInv, Chained, OnChain
  <2> QED  BY <1>2, <2>2, <2>3
<1>4. Len(fetched') = 0
  BY <1>1
<1>5. Continues'
  BY <1>1, <1>3, <1>4 DEF Continues, OnChain
<1> QED  BY <1>1, <1>5 DEF Compared, Resumes

LEMMA FetchLinks ==
    ASSUME CInv, Fetch \/ FetchFails
    PROVE  Compared' /\ Resumes' /\ Continues'
<1>1. phase = "run" /\ UNCHANGED <<chain, db, phase>>
  BY DEF Fetch, FetchFails, nodeVars, dbVars, loopVars
<1>2. fetched \in Seq(Batches) /\ Len(fetched) \in Nat
  BY DEF CInv, IInv, LoopOK
<1>3. ASSUME NEW i \in 1..Len(fetched'), NEW h \in DOMAIN fetched'[i]
      PROVE  h \in DOMAIN chain /\ fetched'[i][h] = chain[h]
  <2>1. ASSUME NEW j \in 1..Len(fetched), fetched'[i] = fetched[j]
        PROVE  h \in DOMAIN chain /\ fetched'[i][h] = chain[h]
    BY <1>1, <2>1 DEF CInv, Continues
  <2>2. CASE FetchFails
    <3>1. fetched' = fetched
      BY <2>2 DEF FetchFails
    <3> QED  BY <2>1, <3>1
  <2>3. CASE Fetch
    <3> DEFINE new == Cut(chain, SubBatch)
    <3>1. SubBatch \subseteq DOMAIN chain /\ fetched' = Append(fetched, new)
      BY <2>3 DEF Fetch
    <3>2. DOMAIN new \subseteq DOMAIN chain /\ \A k \in DOMAIN new : new[k] = chain[k]
      BY DEF Cut
    <3> HIDE DEF new
    <3>3. /\ Len(fetched') = Len(fetched) + 1
          /\ \A j \in 1..Len(fetched) : fetched'[j] = fetched[j]
          /\ fetched'[Len(fetched) + 1] = new
      BY <1>2, <3>1
    <3>4. i \in 1..Len(fetched) \/ i = Len(fetched) + 1
      BY <1>2, <3>3
    <3> QED  BY <2>1, <3>2, <3>3, <3>4
  <2> QED  BY <2>2, <2>3
<1>4. \A h \in DOMAIN db : h + 1 \notin DOMAIN db => OnChain(h)
  BY <1>1 DEF CInv, Continues
<1>5. Continues'
  BY <1>1, <1>3, <1>4 DEF Continues, OnChain
<1> QED  BY <1>1, <1>5 DEF Compared, Resumes

\* What is committed follows the block below it.
LEMMA CommitChained ==
    ASSUME CInv, phase = "run", fetched # << >>, ~Duplicate(Head(fetched))
    PROVE  LET r == Put(db, Head(fetched))
           IN  /\ Chained(r)
               /\ \A h \in DOMAIN r : h + 1 \notin DOMAIN r =>
                      h \in DOMAIN chain /\ r[h].fork = chain[h].fork
<1>1. PICK s \in [1..(Len(fetched) + 1) -> Levels] : InLineAt(s)
  BY DEF CInv, IInv, InLine
<1> DEFINE n == s[1]
           m == s[2] - s[1]
           k == (n + m) - 1
           head == Head(fetched)
           r == Put(db, head)
<1>2. Extends(n, m)
  BY <1>1, CommitExtends DEF CInv
<1>3. /\ n \in Nat /\ m \in Nat \ {0} /\ k \in Nat /\ n <= k
      /\ Segment(db, n) /\ Segment(r, k + 1) /\ DOMAIN head = n..k
  <2> HIDE DEF n, m
  <2>1. n \in 0..MaxHeight /\ m \in 1..BatchSize
    BY <1>2 DEF Extends
  <2>2. n + m = k + 1 /\ n \in Nat /\ m \in Nat \ {0} /\ k \in Nat /\ n <= k
    BY <2>1
  <2> QED  BY <1>2, <2>2 DEF Extends
<1> HIDE DEF n, m, k
<1>4. \A h \in n..k : h \in DOMAIN chain /\ head[h] = chain[h]
  <2>1. Len(fetched) \in Nat \ {0} /\ head = fetched[1]
    BY DEF CInv, IInv, LoopOK
  <2>2. 1 \in 1..Len(fetched)
    BY <2>1
  <2> QED  BY <1>3, <2>1, <2>2 DEF CInv, Continues
<1>5. \A h \in (n + 1)..k : head[h].parent = head[h - 1].fork
  <2> SUFFICES ASSUME NEW h \in (n + 1)..k PROVE head[h].parent = head[h - 1].fork
    OBVIOUS
  <2>1. h \in n..k /\ h - 1 \in n..k /\ h # 0
    BY <1>3
  <2> QED  BY <1>4, <2>1 DEF CInv, Chained
<1>6. n > 0 => head[n].parent = db[n - 1].fork
  <2> SUFFICES ASSUME n > 0 PROVE head[n].parent = db[n - 1].fork
    OBVIOUS
  <2>1. n \in n..k /\ n # 0 /\ n - 1 \in DOMAIN db /\ (n - 1) + 1 \notin DOMAIN db
    BY <1>3 DEF Segment
  <2>2. OnChain(n - 1)
    BY <2>1 DEF CInv, Continues
  <2>3. head[n].parent = chain[n - 1].fork
    BY <1>4, <2>1 DEF CInv, Chained
  <2> QED  BY <2>2, <2>3 DEF OnChain
<1>7. n = 0 => head[0] = Genesis
  <2> SUFFICES ASSUME n = 0 PROVE head[0] = Genesis
    OBVIOUS
  <2>1. 0 \in n..k
    BY <1>3
  <2> QED  BY <1>4, <2>1 DEF CInv, Chained
<1>8. Chained(r)
  BY <1>3, <1>5, <1>6, <1>7, PutChained DEF CInv
<1>9. ASSUME NEW h \in DOMAIN r, h + 1 \notin DOMAIN r
      PROVE  h \in DOMAIN chain /\ r[h].fork = chain[h].fork
  <2>1. h = k /\ k \in n..k
    BY <1>3, <1>9 DEF Segment
  <2>2. r[k] = head[k]
    BY <1>3, <2>1 DEF Put
  <2> QED  BY <1>4, <2>1, <2>2
<1> QED  BY <1>8, <1>9

LEMMA CommitLinks ==
    ASSUME CInv, Commit
    PROVE  Chained(db)' /\ Compared' /\ Resumes' /\ Continues'
<1>1. /\ phase = "run" /\ fetched # << >> /\ ~Duplicate(Head(fetched))
      /\ db' = Put(db, Head(fetched)) /\ fetched' = Tail(fetched)
      /\ UNCHANGED <<chain, phase>>
  BY DEF Commit, nodeVars
<1>2. /\ Chained(db')
      /\ \A h \in DOMAIN db' : h + 1 \notin DOMAIN db' =>
             h \in DOMAIN chain /\ db'[h].fork = chain[h].fork
  BY <1>1, CommitChained
<1>3. /\ fetched \in Seq(Batches) /\ Len(fetched) \in Nat \ {0}
      /\ Len(fetched') = Len(fetched) - 1
      /\ \A i \in 1..(Len(fetched) - 1) : fetched'[i] = fetched[i + 1]
  <2>1. fetched \in Seq(Batches) /\ Len(fetched) \in Nat \ {0}
    BY <1>1 DEF CInv, IInv, LoopOK
  <2> QED  BY <1>1, <2>1, HeadTailProperties
<1>4. ASSUME NEW i \in 1..Len(fetched'), NEW h \in DOMAIN fetched'[i]
      PROVE  h \in DOMAIN chain /\ fetched'[i][h] = chain[h]
  <2>1. i + 1 \in 1..Len(fetched) /\ fetched'[i] = fetched[i + 1]
    BY <1>3
  <2> QED  BY <1>1, <2>1 DEF CInv, Continues
<1>5. Continues'
  BY <1>1, <1>2, <1>4 DEF Continues, OnChain
<1>6. Chained(db)'
  BY <1>2 DEF Chained, Genesis
<1> QED  BY <1>1, <1>5, <1>6 DEF Compared, Resumes

-----------------------------------------------------------------------------
(* The inductive invariant.                                                *)

LEMMA InitCInv == Init => CInv
<1> SUFFICES ASSUME Init PROVE CInv
  OBVIOUS
<1>1. IInv
  BY InitIInv
<1>2. Chained(chain)
  BY DEF Init, Chained, Genesis
<1>3. Chained(db) /\ Chained(disk.db) /\ CacheTrue
  BY EmptySegment DEF Init, Chained, CacheTrue
<1>4. Compared /\ Resumes /\ Continues
  BY DEF Init, Compared, Resumes, Continues
<1> QED  BY <1>1, <1>2, <1>3, <1>4 DEF CInv

\* The steps that end a cycle, and crashes.
LEMMA EndLinks ==
    ASSUME CInv, \/ RefuseRollback \/ CaughtUp \/ CommitDuplicate \/ BatchReturns
                 \/ RollbackFails \/ CommitFails \/ ProcessCrash \/ DatabaseCrash
    PROVE  /\ Chained(chain)' /\ Chained(db)' /\ Chained(disk.db)'
           /\ CacheTrue' /\ Compared' /\ Resumes' /\ Continues'
<1>1. UNCHANGED chain /\ EndCycle /\ UNCHANGED disk /\ (UNCHANGED hashCache \/ hashCache' = Empty)
  BY DEF RefuseRollback, CaughtUp, CommitDuplicate, BatchReturns, RollbackFails, CommitFails,
         ProcessCrash, DatabaseCrash, nodeVars, dbVars
<1>2. Chained(db)'
  <2>1. UNCHANGED db \/ Chained(db')
    <3>1. CASE RollbackFails
      BY <3>1, RollbackChained DEF RollbackFails
    <3>2. CASE CommitFails
      BY <3>2, CommitChained DEF CommitFails
    <3>3. CASE DatabaseCrash
      BY <3>3 DEF DatabaseCrash, CInv
    <3> QED  BY <3>1, <3>2, <3>3 DEF RefuseRollback, CaughtUp, CommitDuplicate, BatchReturns,
                                     ProcessCrash, dbVars
  <2> QED  BY <2>1, StillChained DEF Chained, Genesis
<1>3. phase' = "loop"
  BY <1>1 DEF EndCycle
<1> QED  BY <1>1, <1>2, <1>3, GoesRound, StillChained, CacheStays

LEMMA StepCInv ==
    ASSUME Calm, CInv, [Next]_vars
    PROVE  CInv'
<1>1. IInv'
  BY StepIInv DEF CInv
<1> SUFFICES /\ Chained(chain)' /\ Chained(db)' /\ Chained(disk.db)'
             /\ CacheTrue' /\ Compared' /\ Resumes' /\ Continues'
  BY <1>1 DEF CInv
<1>2. UNCHANGED chain => Grows
  BY DEF Grows
<1>3. CASE NodeMines
  <2>1. UNCHANGED <<db, disk, phase, current, target, scanAt, fetched>>
    BY <1>3 DEF NodeMines, dbVars, loopVars, batchVars
  <2> QED  BY <1>3, <2>1, MineLinks, StillTrue, StillChained
<1>4. CASE NodeReorganises
  <2>1. UNCHANGED <<db, disk>>
    BY <1>4 DEF NodeReorganises, dbVars
  <2> QED  BY <1>4, <2>1, ReorganiseLinks, GoesRound, StillChained
<1>5. CASE CacheExpires \/ Flush \/ UNCHANGED vars
  <2>1. /\ UNCHANGED <<chain, db, phase, current, target, scanAt, fetched>>
        /\ UNCHANGED hashCache \/ hashCache' = Empty
        /\ UNCHANGED disk \/ disk'.db = db
    BY <1>5 DEF CacheExpires, Flush, vars, nodeVars, dbVars, loopVars, batchVars
  <2>2. Chained(disk.db)'
    BY <2>1, StillChained DEF CInv, Chained, Genesis
  <2> QED  BY <1>2, <2>1, <2>2, StillTrue, StillChained, CacheStays
<1>6. CASE ApiLookUp \/ FetchAcross
  BY <1>6 DEF ApiLookUp, FetchAcross, Calm
<1>7. CASE ReadHeights \/ StartBatch \/ Fetch \/ FetchFails
  <2>1. UNCHANGED <<chain, hashCache, db, disk>>
    BY <1>7 DEF ReadHeights, StartBatch, Fetch, FetchFails, nodeVars, dbVars
  <2> QED  BY <1>7, <2>1, ReadLinks, StartLinks, FetchLinks, StillChained, CacheStays
<1>8. CASE DetectReorg \/ ScanForAncestor
  <2>1. UNCHANGED <<chain, db, disk>>
    BY <1>8 DEF DetectReorg, ScanForAncestor, nodeVars, dbVars
  <2> QED  BY <1>8, <2>1, DetectLinks, ScanLinks, StillChained
<1>9. CASE Rollback \/ Commit
  <2>1. UNCHANGED <<chain, hashCache, disk>>
    BY <1>9 DEF Rollback, Commit, nodeVars
  <2> QED  BY <1>9, <2>1, RollbackLinks, CommitLinks, StillChained, CacheStays
<1>10. CASE \/ RefuseRollback \/ CaughtUp \/ CommitDuplicate \/ BatchReturns
            \/ RollbackFails \/ CommitFails \/ ProcessCrash \/ DatabaseCrash
  BY <1>10, EndLinks
<1> QED  BY <1>3, <1>4, <1>5, <1>6, <1>7, <1>8, <1>9, <1>10 DEF Next, Indexer

\* The inductive invariant holds throughout.
THEOREM CalmInvariance == ASSUME Calm PROVE Spec => []CInv
<1>1. Init => CInv
  BY InitCInv
<1>2. CInv /\ [Next]_vars => CInv'
  BY StepCInv
<1> QED  BY <1>1, <1>2, PTL DEF Spec

-----------------------------------------------------------------------------
(* The theorems.                                                           *)

\* Without a lagging cache, failing look-ups and reorganisations within a cycle,
\* every stored block names the one below it, although calls fail, processes crash
\* and transactions are lost.
THEOREM StoredIsLinked == ASSUME Calm PROVE Spec => []Linked
<1>1. CInv => Linked
  BY DEF CInv, Chained, Linked
<1> QED  BY <1>1, CalmInvariance, PTL

\* Under the same conditions a rollback deletes no block of the node's chain.
THEOREM DeletesOnlyStale == ASSUME Calm PROVE Spec => OnlyStaleDeleted
<1>1. ASSUME CInv, Rollback, NEW h \in DOMAIN db \ DOMAIN db', h \in DOMAIN chain
      PROVE  chain[h].fork # db[h].fork
  <2>1. phase = "rollback" /\ ~TooDeep /\ db' = Cut(db, Kept)
    BY <1>1 DEF Rollback
  <2>2. DOMAIN db = 0..((current + 1) - 1) /\ current \in Nat /\ scanAt \in Nat
    BY <1>1, <2>1, AncestorBelow DEF CInv, Segment
  <2>3. h \in DOMAIN db /\ h \notin Kept
    BY <1>1, <2>1, CutIs
  <2>4. h \in (scanAt + 1)..current
    BY <2>2, <2>3 DEF Kept
  <2> QED  BY <1>1, <2>1, <2>4 DEF CInv, Compared
<1>2. CInv /\ [Next]_vars =>
          [Rollback => \A h \in DOMAIN db \ DOMAIN db' :
                           h \in DOMAIN chain => chain[h].fork # db[h].fork]_vars
  BY <1>1
<1> QED  BY <1>2, CalmInvariance, PTL DEF OnlyStaleDeleted, Spec
=============================================================================
