-------------------------- MODULE MCRpcResponseCache --------------------------
(* An instance of RpcResponseCache: a look-up of each class, one of them raw,  *)
(* and a value that exceeds the budget alone.                                  *)
EXTENDS RpcResponseCache

CONSTANTS blk, mem, sub, huge

MCSizeOf == [k \in Keys |-> CASE k \in {blk, mem} -> 2 [] k = huge -> 4 [] OTHER -> 1]
=============================================================================
