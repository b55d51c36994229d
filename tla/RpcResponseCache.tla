--------------------------- MODULE RpcResponseCache ---------------------------
(***************************************************************************)
(* RpcResponseCache and the look-ups YcashRpcClient makes through it.      *)
(* Every thread of the server gets, fetches and puts in three steps, the   *)
(* cache's mutex held only in the first and the last; EventProcessor       *)
(* invalidates by advancing a generation, some time after the node has     *)
(* changed.                                                                *)
(*                                                                         *)
(* An answer is the version of the node's data it was computed from.  The  *)
(* field "late" of an entry is not in the code: it says that the           *)
(* generation put stamped is not the one the node answered in.             *)
(***************************************************************************)
EXTENDS Integers, FiniteSets

CONSTANTS Keys,        \* method and parameters of a request
          BlockKeys,   \* those of Class::BlockDependent
          MempoolKeys, \* those of Class::MempoolDependent, the rest is Immutable
          RawKeys,     \* look-ups by get_block_raw_json, get_transaction_raw_json
          SizeOf,      \* bytes of the answer to each
          MaxEntries,  \* kMaxEntries
          MaxBytes,    \* kMaxBytes
          MaxAge,      \* kMaxAge, in ticks of the clock
          Clients,     \* threads of the server
          MaxTip,      \* bound: blocks mined
          MaxTxs       \* bound: transactions that reach the mempool

ASSUME CacheAssumption ==
    /\ IsFiniteSet(Keys) /\ BlockKeys \cup MempoolKeys \cup RawKeys \subseteq Keys
    /\ BlockKeys \cap MempoolKeys = {} /\ RawKeys \subseteq BlockKeys
    /\ SizeOf \in [Keys -> Nat]
    /\ MaxEntries \in Nat \ {0} /\ MaxBytes \in Nat /\ MaxAge \in Nat
    /\ MaxTip \in Nat /\ MaxTxs \in Nat

VARIABLES
    tip, pool,          \* versions of the node's chain and mempool
    unseen, unseenTxs,  \* block and transaction events not yet handled
    entries,            \* from cached keys to entries
    usage,              \* the order of last_used: pairs of a cached key and one used after it
    total_bytes, block_generation, mempool_generation,
    pc, key, answer     \* where each client is, what it asks for, what it got

nodeVars  == <<tip, pool, unseen, unseenTxs>>
cacheVars == <<entries, usage, total_bytes>>
genVars   == <<block_generation, mempool_generation>>
clientVars == <<pc, key, answer>>
vars == <<nodeVars, cacheVars, genVars, clientVars>>

Null     == -1                  \* the result in an error answer
AnyKey   == CHOOSE k \in Keys : TRUE   \* of a client that asks for nothing
NoAnswer == [version |-> Null, asked |-> 0]

\* What the node would answer now.
Current(k) == IF k \in BlockKeys THEN tip
              ELSE IF k \in MempoolKeys THEN tip + pool ELSE 0

\* The generation a key's entries are stamped with.
Generation(k) == IF k \in MempoolKeys THEN mempool_generation ELSE block_generation

Init == /\ tip = 0 /\ pool = 0 /\ unseen = 0 /\ unseenTxs = 0
        /\ entries = [k \in {} |-> NoAnswer] /\ usage = {} /\ total_bytes = 0
        /\ block_generation = 0 /\ mempool_generation = 0
        /\ pc = [c \in Clients |-> "idle"]
        /\ key = [c \in Clients |-> AnyKey]
        /\ answer = [c \in Clients |-> NoAnswer]

-----------------------------------------------------------------------------
(* The node and the events about it.                                       *)

NodeMines == /\ tip < MaxTip
             /\ tip' = tip + 1 /\ unseen' = unseen + 1
             /\ UNCHANGED <<pool, unseenTxs, cacheVars, genVars, clientVars>>

NodeAddsTx == /\ pool < MaxTxs
              /\ pool' = pool + 1 /\ unseenTxs' = unseenTxs + 1
              /\ UNCHANGED <<tip, unseen, cacheVars, genVars, clientVars>>

\* Mutant: a block leaves the mempool's answers alone.
AfterBlock == mempool_generation

AdvancedMempool == mempool_generation + 1

OnBlockEvent == /\ unseen > 0
                /\ unseen' = unseen - 1
                /\ block_generation' = block_generation + 1
                /\ mempool_generation' = AdvancedMempool
                /\ UNCHANGED <<tip, pool, unseenTxs, cacheVars, clientVars>>

\* One call for a whole batch of transactions.  A batch that comes while the indexer
\* is syncing is dropped without the call: its transactions stay among the unseen,
\* like those whose event is yet to come.
OnTransactionEvent ==
    /\ unseenTxs > 0
    /\ unseenTxs' \in 0..(unseenTxs - 1)
    /\ mempool_generation' = mempool_generation + 1
    /\ UNCHANGED <<tip, pool, unseen, block_generation, cacheVars, clientVars>>

-----------------------------------------------------------------------------
(* The cache.                                                              *)

\* Mutant: only the generation counts.
Outdated(k) == k \in BlockKeys \cup MempoolKeys
               /\ entries[k].generation # Generation(k)

IsStale(k) == /\ k \in BlockKeys \cup MempoolKeys
              /\ \/ entries[k].generation # Generation(k)
                 \/ entries[k].age > MaxAge

\* The sizes of the answers to S added up: their bytes, counted.
Bytes(S) == Cardinality(UNION {{k} \X (1..SizeOf[k]) : k \in S})

Only(S) == [k \in S |-> entries[k]]

InUse(S) == usage \cap (S \X S)

\* The order when k, not in S, has just been used.
UsedLast(S, k) == InUse(S) \cup (S \X {k})

\* Mutant: the value to come is not counted.
Over(S, n) == \/ Cardinality(S) >= MaxEntries
              \/ total_bytes - Bytes(DOMAIN entries \ S) > MaxBytes

\* over_budget() when S is what is left of the entries, for a value of n bytes.
OverBudget(S, n) ==
    \/ Cardinality(S) >= MaxEntries
    \/ total_bytes - Bytes(DOMAIN entries \ S) + n > MaxBytes

\* Mutant: the most recently used entry goes first.
UsedUntil(S, k) == {x \in S : x = k \/ <<x, k>> \in usage}

UsedSince(S, k) == {x \in S : x = k \/ <<k, x>> \in usage}

\* evict_for: the keys of S that stay when n bytes are to come.  Stale entries
\* go first, and then the least recently used one as long as there is no room:
\* the loop leaves the keys that fit together with every one used since.
Stays(S, n) ==
    LET fresh == {k \in S : ~IsStale(k)}
    IN  IF OverBudget(S, n) THEN {k \in fresh : ~OverBudget(UsedSince(fresh, k), n)}
                            ELSE S

\* put, which replaces an entry of the same key.
Put(k, a) ==
    LET kept == Stays(DOMAIN entries \ {k}, SizeOf[k])
    IN  /\ entries' = [x \in kept \cup {k} |->
                          IF x = k THEN [version    |-> a.version,
                                         late       |-> a.asked # Generation(k),
                                         generation |-> Generation(k),
                                         age        |-> 0]
                          ELSE entries[x]]
        /\ usage' = UsedLast(kept, k)
        /\ total_bytes' = total_bytes - Bytes(DOMAIN entries \ kept) + SizeOf[k]

\* The steady clock.  Only the age of entries that can expire is told apart, up
\* to kMaxAge.
Ageing == {k \in DOMAIN entries \cap (BlockKeys \cup MempoolKeys) :
              entries[k].age <= MaxAge}

Tick == /\ Ageing # {}
        /\ entries' = [k \in DOMAIN entries |->
                          IF k \in Ageing THEN [entries[k] EXCEPT !.age = @ + 1]
                          ELSE entries[k]]
        /\ UNCHANGED <<nodeVars, usage, total_bytes, genVars, clientVars>>

-----------------------------------------------------------------------------
(* make_json_rpc_request and the two raw look-ups.                         *)

Fresh(k) == k \in DOMAIN entries /\ ~IsStale(k)

\* get returns the entry and marks it as used.
Hit(c) == /\ pc[c] = "idle"
          /\ \E k \in Keys :
                /\ Fresh(k)
                /\ usage' = UsedLast(DOMAIN entries \ {k}, k)
          /\ UNCHANGED <<nodeVars, entries, total_bytes, genVars, clientVars>>

\* get finds nothing, or removes an entry that is stale; the node is asked.
Miss(c) == /\ pc[c] = "idle"
           /\ \E k \in Keys :
                 /\ ~Fresh(k)
                 /\ LET S == DOMAIN entries \ {k}
                    IN  /\ entries' = Only(S) /\ usage' = InUse(S)
                        /\ total_bytes' = total_bytes - Bytes(DOMAIN entries \ S)
                 /\ key' = [key EXCEPT ![c] = k]
           /\ pc' = [pc EXCEPT ![c] = "asked"]
           /\ UNCHANGED <<nodeVars, genVars, answer>>

NodeAnswers(c) ==
    /\ pc[c] = "asked"
    /\ answer' = [answer EXCEPT ![c] = [version |-> Current(key[c]),
                                        asked   |-> Generation(key[c])]]
    /\ pc' = [pc EXCEPT ![c] = "answered"]
    /\ UNCHANGED <<nodeVars, cacheVars, genVars, key>>

Return(c) == /\ pc' = [pc EXCEPT ![c] = "idle"]
             /\ key' = [key EXCEPT ![c] = AnyKey]
             /\ answer' = [answer EXCEPT ![c] = NoAnswer]

\* An error answer is not cached, except that the raw look-ups take its "result",
\* which is null, for the value.
ErrorAnswer(c) ==
    /\ pc[c] = "asked"
    /\ \/ /\ key[c] \in RawKeys
          /\ pc' = [pc EXCEPT ![c] = "answered"]
          /\ answer' = [answer EXCEPT ![c] = [version |-> Null,
                                              asked   |-> Generation(key[c])]]
          /\ UNCHANGED key
       \/ key[c] \notin RawKeys /\ Return(c)
    /\ UNCHANGED <<nodeVars, cacheVars, genVars>>

\* The call fails, or its answer is no JSON: nothing is cached either.
CallFails(c) == /\ pc[c] = "asked"
                /\ Return(c)
                /\ UNCHANGED <<nodeVars, cacheVars, genVars>>

Fill(c) == /\ pc[c] = "answered" /\ SizeOf[key[c]] <= MaxBytes
           /\ Put(key[c], answer[c])
           /\ Return(c)
           /\ UNCHANGED <<nodeVars, genVars>>

TooBig(c) == /\ pc[c] = "answered" /\ SizeOf[key[c]] > MaxBytes
             /\ Return(c)
             /\ UNCHANGED <<nodeVars, cacheVars, genVars>>

-----------------------------------------------------------------------------
Ask(c) == NodeAnswers(c) \/ ErrorAnswer(c) \/ CallFails(c) \/ Fill(c) \/ TooBig(c)

Next == \/ NodeMines \/ NodeAddsTx \/ OnBlockEvent \/ OnTransactionEvent
        \/ Tick
        \/ \E c \in Clients : Hit(c) \/ Miss(c) \/ Ask(c)

Spec == Init /\ [][Next]_vars

\* Time passes.  Nothing makes the events about the node arrive, or calls return.
FairSpec == Spec /\ WF_vars(Tick)

-----------------------------------------------------------------------------
(* What the cache promises.                                                *)

\* total_bytes, which is kept up to date by every erasure, replacement and
\* insertion of get, put and evict_for, is the size of what is cached, and
\* neither budget is ever exceeded.
WithinBudget == /\ total_bytes = Bytes(DOMAIN entries)
                /\ total_bytes <= MaxBytes
                /\ Cardinality(DOMAIN entries) <= MaxEntries

\* What get would serve is what the node would answer now, but for three
\* reasons: the event about the change is still to be handled; the node
\* answered before an event that was handled before put, which stamps the
\* generation of the moment; an error was taken for a raw value.
FreshUnlessLate ==
    \A k \in DOMAIN entries :
        \/ IsStale(k) \/ entries[k].version = Current(k)
        \/ unseen > 0 \/ (k \in MempoolKeys /\ unseenTxs > 0)
        \/ entries[k].late
        \/ k \in RawKeys /\ entries[k].version = Null

NoRoom(S, n) == Cardinality(S) >= MaxEntries \/ Bytes(S) + n > MaxBytes

Younger(x, y) == <<y, x>> \in usage

AsNeeded(c) ==
    LET before == DOMAIN entries \ {key[c]}
        after  == DOMAIN entries' \ {key[c]}
        fresh  == {k \in before \ after : ~IsStale(k)}
        n      == SizeOf[key[c]]
    IN  /\ before # after => NoRoom(before, n)
        /\ fresh # {} => /\ \A k \in after : ~IsStale(k)
                         /\ \A x \in after, y \in fresh : Younger(x, y)
                         /\ \E y \in fresh : NoRoom(after \cup {y}, n)

\* put evicts only for want of room; entries that could still be served only when
\* no stale one is left, the least recently used ones, and none too many.
EvictsNoMore ==
    [][\A c \in Clients : pc[c] = "answered" /\ pc'[c] = "idle" => AsNeeded(c)]_vars

\* kMaxAge as a safety net: when the node stops changing, what is served becomes
\* what the node would answer (or an error's null), though no event may ever be
\* handled.
ServesCurrentAtLast ==
    <>[](\A k \in DOMAIN entries : IsStale(k) \/ entries[k].version \in {Current(k), Null})
=============================================================================
