----------------------------- MODULE BlocksTable -----------------------------
(***************************************************************************)
(* What the indexer promises of table blocks, seen as the set of heights   *)
(* it holds: always an initial segment of the chain, extended by whole     *)
(* sub-batches just above its top and cut back only by a reorganisation of *)
(* bounded depth.  A crash of PostgreSQL (synchronous_commit is off) takes *)
(* the table back to what was last flushed, and that includes rows which a *)
(* rollback had deleted since.                                             *)
(*                                                                         *)
(* IndexPipeline implements AppendOnly, BlockIndexer implements Spec.      *)
(***************************************************************************)
EXTENDS Integers

CONSTANTS Limit,       \* bound: the highest height
          MaxAppend,   \* blocks in one transaction, at most
          MaxRollback  \* blocks one rollback deletes, at most

VARIABLES rows,        \* the heights in the table
          flushed      \* the heights in it when it was last flushed

\* A transaction adds the next m heights.
Extend == \E n \in 0..Limit, m \in 1..MaxAppend :
              /\ rows = 0..(n - 1)
              /\ rows' = 0..(n + m - 1)

Append == Extend /\ UNCHANGED flushed

\* A rollback deletes the top m heights.
Rollback == /\ \E n \in 1..Limit + 1, m \in 1..MaxRollback :
                  /\ rows = 0..(n - 1)
                  /\ rows' = 0..(n - m - 1)
            /\ UNCHANGED flushed

Flush == flushed' = rows /\ UNCHANGED rows

\* Transactions the server had not flushed are lost with it.
Lose == rows' = flushed /\ UNCHANGED flushed

AppendOnly == rows = {} /\ [][Extend]_rows

Init == rows = {} /\ flushed = {}

Spec == Init /\ [][Append \/ Rollback \/ Flush \/ Lose]_<<rows, flushed>>
=============================================================================
