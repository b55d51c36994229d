# Inzyght: a verification project in TLA+

Inzyght is a block explorer for Ycash. A C++ server follows a `ycashd` node, copies the
node's chain into PostgreSQL and serves it over HTTP and WebSockets. What can go wrong in it is
the copying: four threads, a node that changes its mind, a database that forgets its last
transactions in a crash, and caches in between. That, the way news of the node reaches the server
and the pages that browsers show, and the filters in front of it are what is modelled here.

Paths below are relative to the repository (`src/services/BlockIndexer.cc` and so on).

## The system

| Component | State it keeps | Operations | Hard behaviour |
|---|---|---|---|
| **BlockIndexer, main loop** (`services/BlockIndexer.cc`, `thread_func_indexer`) | `progress_current_height`, row `headers` of `sync_progress`, tables `blocks` and `transactions` | read both heights, `detect_reorg`, `find_common_ancestor`, `rollback_to_height`, one call of `index_chain_data_batch`, `update_sync_progress`, `perform_startup_check` | reorganisations at any time, failing RPC and SQL calls, commits whose answer is lost, restarts, `synchronous_commit = off` |
| **BlockIndexer, pipeline** (`index_chain_data_batch`, `thread_func_rpc_producer`, `thread_func_db_consumer`, `stop`) | `data_queue`, `pending_batch_count`, three flags, two condition variables, three stop tokens | fetch a sub-batch with retries, wait for room, queue it; take one, COPY and commit it; stop and join | atomics changed and condition variables notified outside the mutex |
| **RpcResponseCache** | entries with class, generation, age; two generations | `get`, `put`, eviction, two invalidations | stale fill, invalidation later than the event it is about |
| **YcashRpcClient** | curl handles, batch size | single and batched JSON-RPC calls | answers short, late or straddling a reorganisation |
| **CopyConnectionPool, CopyTxn** (`orm/PostgresCopy.cc`), **QueryConnectionPool** (`orm/PostgresPool.cc`) | queue of connections | acquire, verify or reset, release, shutdown | pool shrinks on failed resets, release racing shutdown |
| **ZeroMQListener** | event queue (1000), fallback mode, last event time | receive, inject, wait for a block event | lost and dropped events, reconnection |
| **EventProcessor** | retry flag, time of the last retry | block and transaction events, retry, heartbeat | invalidation order, refresh failing |
| **PollingFallback** | last tip hash | poll and inject | active only in fallback mode |
| **BlockchainState** | snapshot of five RPC answers, its age and failure flag, the cached network info | refresh, confirm, mark unreachable | partial update, two writers of the network info |
| **EventBroadcaster, WebSocketController** | set of connections | register, unregister, broadcast; new connection, message, closed connection | connections close in an order of their own, dead ones not yet closed |
| **Front page** (`public/js/websocket-client.js`, `main.js`) | the socket, status, attempts, channels, polling timer | connect, reconnect, subscribe, poll, fetch, display | timers that check a status others set, answers that overtake each other |
| **RateLimiter** (`filters/`) | timestamps per address | check, sweep | timestamps read before the lock |
| **main** | none | first refresh, start and stop of the services | services that are stopped still use each other |
| **Controllers, GeoLocation, Config, Logger, other pages** | none, but for the network info | translate requests | see BlockchainState |

How they interact. `main` creates the pools, fills `BlockchainState` and starts the other
services in parallel. The listener (or the polling fallback) puts events in its queue and
wakes the indexer through `block_event_cv`; the event processor takes the events, advances the
cache's generation, refreshes the snapshot and broadcasts. The indexer does not wait for the
event processor: it reads the node's height, compares the hash of its own top block with the
node's (through the cache), rolls back if they differ, and runs one call of the pipeline for
up to `HEADERS_BATCH_SIZE` blocks. At the end `main` stops the services one after the other, the
indexer last.

What makes each component correct:

- pipeline: table `blocks` has no gap, no block is copied twice, the queue is bounded, nobody
  sleeps for ever while there is work or after the other side has gone, success is reported only
  for what is committed, nothing is reported that is not committed;
- main loop: whatever fails or crashes, the table stays an initial segment of heights; rollbacks
  are bounded and delete only abandoned blocks; the table converges to the node's chain; the
  persisted pointer does not pass the existing blocks;
- cache: an answer is served only while the chain state it came from lasts;
- pools: a connection has one user, none is lost open, none is put into a pool that was shut down, and every acquire ends;
- events: every change of the tip is noticed in the end, by event, by polling or by heartbeat; a
  failed refresh is retried, and an outage of the node is shown;
- rate limiter: no client that is subject to it gets more than the limit through in a window, and none is refused
  without cause;
- pages: one that does not poll is told of blocks, over every connection anew, and one that has lost its
  connection connects again, gives up, or polls to the same effect.

## Modules

| Module | What it is |
|---|---|
| `BlocksTable` | abstract specification of table `blocks`: a set of heights that grows at its top and is cut by bounded rollbacks or a crash |
| `IndexPipeline` | the four threads of one or more calls of `index_chain_data_batch`, and `stop()` |
| `IndexPipelineProofs` | inductive invariant of `IndexPipeline` and the theorems |
| `ConnectionPool` | both connection pools, `CopyTxn` and the guard, against an unreliable server |
| `ConnectionPoolProofs` | its inductive invariant and theorems |
| `CopyCommits` | the commits of a call on pooled connections, above a server that loses unflushed ones |
| `BlockIndexer` | the indexer thread against a node that mines and reorganises, failures and crashes |
| `BlockIndexerProofs` | its inductive invariant, no gap, the refinement of `BlocksTable`, and what holds of the stored blocks while the node, the cache and the look-ups are calm |
| `RpcResponseCache`, `MCRpcResponseCache` | the response cache and the look-ups of `YcashRpcClient` around it |
| `RpcResponseCacheProofs` | its inductive invariant and theorems |
| `ZeroMQListener` | listener, polling fallback, the indexer's wait, and the order of shutdown |
| `ZeroMQListenerProofs` | its inductive invariant and theorems |
| `ChainState` | the snapshot of the node and the event processor that keeps it fresh |
| `ChainStateProofs` | its inductive invariant and theorems |
| `RateLimiter`, `MCRateLimiter` | the sliding window behind the request filters |
| `RateLimiterProofs` | its inductive invariant and theorems |
| `LiveUpdates` | broadcasts, the registry of connections, and the front page at the other end |
| `LiveUpdatesProofs` | its inductive invariant and theorems |

How they compose. `IndexPipeline` and `BlockIndexer` both implement `BlocksTable`; `BlockIndexer` uses the
pipeline as `IndexPipeline` shows it to behave, and `CopyCommits` extends `ConnectionPool`. The three
modules about events meet at their edges: `ZeroMQListener` ends where an event is popped (`PopEvent`),
`ChainState` begins there (`PopBlock`, `PopTxs`) and takes from it only that an event may be lost, and the invalidations
its handlers begin with are the environment of `RpcResponseCache` (`OnBlockEvent`, `OnTransactionEvent`). `LiveUpdates` begins where the event processor
broadcasts (`BlockEvent`, `OtherUpdate`) and knows the indexer as a table that comes to hold the tip (`Index`).
The MC modules give the constants that are functions or symmetric sets.

### IndexPipeline

Each thread has a program counter (`ipc`, `ppc`, `cpc`, `spc` for the indexer, producer, consumer and
the caller of `stop()`); one action is one access to shared state, or a stretch of code that touches
none. `queue`, `pending`, `producerStopped`, `consumerFailed`, `reorgSuspected` and `stop` are the members
of the same meaning. A wait on a condition variable is not atomic in the code, since what it waits for
changes outside the mutex, and it is three steps here: the predicate is found true (`PRoom`,
`CTake`, `CNoMore`) or false (`PFull`, `CEmpty`, which keep the mutex), the thread goes to sleep and
frees the mutex (`PSleep`, `CSleep`), and it is woken by `Notified` or by `SpuriousWakeup` and tests
again. A critical section without a wait is one action that needs the mutex free.

A block is its height and a sub-batch a range of heights; `db` is the set of heights in the table. A
COPY either commits and is heard of, commits and is not (`CCommit`), meets a duplicate key
(`CDuplicate`, always possible because of the unique transaction hash) or aborts (`CAbort`). Header fetches
are retried `MaxRetries` times; the coinbase fetch ends in success, stop or an exception, because a
short answer after its last retry is not treated as a failure by the code. `get_recommended_batch_size()`
is the constant `BatchSize`; the theorems hold for every value of it.

### BlockIndexer

`chain` is the node's active chain, `db` the stored one, both functions from height to
`[fork, parent, tx]`: which fork mined the block, the fork of the block below, and whether it holds one
transaction whose hash must stay unique. Two blocks of a height are the same block iff their forks
are. `hashCache` holds the `getblockhash` answers still served; with `EventsLag` they outlive a change of
the tip until `CacheExpires`. `phase` is where the loop stands; `current`, `target`, `scanAt`, `fetchNext`,
`batchTo` are the locals of the loop and the call, `progress` is `progress_current_height`.

`Fetch` takes a sub-batch from the chain as it is; in `FetchAcross` the node reorganises while it answers the requests of one JSON-RPC
batch, so the upper blocks are of the new chain, and the transaction may be in it twice, which `Duplicate` refuses.

The pipeline is used as what `IndexPipeline` shows of it: sub-batches are fetched ahead
of their commits, and committed in order, each in one transaction. Any failure ends the cycle.
`ProcessCrash` is a restart with `perform_startup_check`; `DatabaseCrash` takes the tables back to what was
flushed (`disk`), and `Flush` may happen at any time.

Three switches of the environment keep the runs about one question each: `LookupsFail` (a failed
`getblockhash` is among the faults), `EventsLag`, and `ReorgAnytime` (otherwise the node reorganises only
between two cycles).

### ConnectionPool and CopyCommits

`CopyConnectionPool` and `QueryConnectionPool` have the same acquire, release and shutdown, so there is one
model for both; its borrowers are `Txns` (through `CopyTxn`) and `Guards`. A COPY pool has both kinds in the code
(`execute_copy` borrows like a guard, though nothing calls it), the query pool only guards. `queue`, `initialized` and
`shuttingDown` are the pool's members, `link` what libpq knows of each connection: the server may have dropped it (`cut`)
long before a command fails on it (`bad`). acquire is one action under the mutex except for its wait, which is `Sleep`
and ends in a wake-up or in `Timeout`; `CheckFlag` reads the shutdown flag before `ReturnToPool` or `ReleaseLate` take the
mutex. A spurious wake-up is no step of its own: it leads where a wake-up that comes too late leads. PQreset succeeds
iff the server is up. `CopyCommits` extends it by table `blocks` and the place of the running call in it; a sub-batch is
one block, `Commit` writes it, `ServerCrashes` takes back what was not flushed.

### RpcResponseCache

`entries`, `total_bytes` and the two generations are the cache's members; `usage` is the order of the cached keys by
`last_used`, pairs of a key and one used after it, since only that order is read. The hash map's `CacheKey` is a member of `Keys`, which the constants divide into the
three classes. A client is a thread in one of the look-up functions: `Hit`, or `Miss`, the node's answer
(`NodeAnswers`, `ErrorAnswer`, `CallFails`) and the fill (`Fill`, `TooBig`). The cache's mutex is held only in the first and the last of
these, so block and transaction events come in between. `put` is `Put` with the whole eviction, whose outcome is `Stays`: `evict_for` erases stale
entries when the budget is exceeded, and then the least recently used one until there is room, so what stays are the keys that
fit together with all used since (`UsedSince`). `Bytes` of a set of keys is their sizes added up. An answer is the version of the data it was made from, which
is what the properties compare.

### ZeroMQListener

`lpc` is where `listener_thread_func` stands, `ppc` the polling thread, `epc` the event processor's, `wpc` the indexer's, `stage`
which service `main` is stopping. Pushing an event, setting `block_event_received` and resetting
the timer are separate steps, as they are without a common lock; a block's event is the height of the tip, anything
else is 0. `Start` takes every way `initialize` and `start` can go. A slice of the wait is `BeginSlice` (which clears the
flag), then `WakeUp` or `SliceEnds`; a notification missed between test and sleep is made good at the end of the slice, and
is no step of its own. The retries of a failed connection every 5 seconds change nothing and are no steps either.

The event processor takes events in rounds (`PopEvent`): a stop is looked at between rounds, and a round goes on until the queue is
empty. The indexer is its calls and its waits: while blocks are missing it begins a call (`BeginCall`), which sets `flag_syncing`
(`syncing`, false at the start) and commits some of them, none or all; the call ends (`EndCall`) or never does; when no block is missing the flag is
cleared and the wait begins (`CallWait`). So the flag rises again with every block, as long as it is missing. What a call does is the matter of `IndexPipeline`,
and reorganisations that of `BlockIndexer`. `StopNext` is the join of a service: it needs the end of that service's thread.

### ChainState

`chain` is the tip the snapshot shows, `torn` that its parts are of different refreshes, `age` and `failed` the
members behind `get_snapshot_age_seconds` and `is_snapshot_stale`. A refresh ends in one of three ways (`RefreshWhole`,
`RefreshFails`, `RefreshPartly`). `pc` is the event processor's place in its round: draining, a block event, the batch of
transactions, the retry, the heartbeat and the sleep, in the order of `processor_thread_func`. A call of the node may take
one tick. `WebReads` and `WebStores` are `NetworkController::get_network_info`, the only request that writes to the state. What the indexer
answers to `is_syncing()` and `blocks_behind()` is a choice at each place it is asked (`ProcessTxs`, `Recovery`), since it may be behind at any
time. What is undefined behaviour in the code (the value pools of a snapshot that has none) ends the process: `pc = "dead"`.

### RateLimiter

`LetThrough` is a request whose TCP peer is the host itself: both filters pass it on without `check`, before they read
`X-Forwarded-For`. `Enter` is any other request up to the reading of the clock, with the address `get_client_ip` finds; `Check` is `check`
under its mutex, with sweep, `pop_front` and the record. Two ghosts remember what really happened: `admitted` when each request of a client that `check` let
through was received and passed, `exempted` the clients that had a request let through without it.

### LiveUpdates

A socket is a WebSocket connection seen from both ends: `link` is what lies between (`asked`, `up`, `broken`), `server` where
`WebSocketController` is with it, `alive` its `connected()`. Each end learns of a broken link for itself (`Notice`, `Error`, `Close`),
so the controller may close an old connection after the page's new one is registered. A page has two sockets, the second for the time its first
is not yet closed by the server. `inbox` is what the page has sent, `wire` what the server has, without the messages no page acts on.
`clients` is `connected_clients`. `ws`, `phase`, `status`, `attempts`, `timer` and `subscribed` are the members of the page's client, `polling` its polling timer;
`due` are the fetches that `onBlockUpdate` has put off by a second, `waiting` and `answers` those under way, which come back in any order, and `shown`
is the first row displayed, 0 for an empty table. `Serve` is `get_latest_blocks`, with its empty answer while `flag_syncing` is set.
`Opened` sends the subscriptions of `handleOpen`'s loop (`OldChannels`) and those that `subscribe()` finds new (`NewChannels`).
The limit of 2 blocks behind the tip (`Near`, `EventProcessor.cc:134`) is scaled to 0 and `maxReconnectAttempts` to 2. Left out: the exception of `new WebSocket`,
and `disconnect` and `unsubscribe`, which nothing calls.

### BlocksTable

`AppendOnly` (only `Extend` steps) is implemented by `IndexPipeline`, where nothing is deleted; `Spec` (append,
rollback of at most `MaxRollback`, flush, loss) by `BlockIndexer`. The refinement mappings are
`rows <- db` and `rows <- DOMAIN db, flushed <- DOMAIN disk.db`.

## Runs

| Run | Shows | Bounds |
|---|---|---|
| `pipeline` | `QueueBounded`, `NoGap`, `NoReCopy`, `NoLostDataWakeup`, `ProgressCommitted`, `SuccessMeansCommitted`, refinement of the table, `QueueServed`, `BackpressureReleased` | tip up to 5, sub-batches of 2, so three sub-batches and a partial one; depth 2, so the third has to wait; 2 attempts per fetch; calls, failures and restarts of the pipeline without bound |
| `pipeline_wakeups` | **fails**: the notifications of the two ends and of `stop()` can be missed | as `pipeline`, 1 attempt |
| `indexer_faults` | `TypeOK`, `NoGap`, refinement of `BlocksTable!Spec` with everything that can go wrong | tip up to 3, 1 reorganisation at any time, 1 fault, rollback bound 2, sub-batches of 2, 2 in flight |
| `indexer_converges` | `Linked`, `OnlyStaleDeleted`, `Converges` | tip up to 3, 2 reorganisations between cycles, 1 fault, cache without lag |
| `indexer_stale_hash` | **fails**: a cached hash hides a reorganisation and blocks are stored above a stale tip | tip up to 4, no fault needed |
| `connection_pool` | `NoSharing`, `NoLeak`, `StaysShut`, `NoneSleepsBeside`, `AcquireEnds` | 2 connections (or 1, if the other failed to open), a `CopyTxn` and 2 guards, so that one has to wait; 2 outages or severed connections; shutdown at any point |
| `copy_gap` | **fails**: a connection reset by `acquire` hides a crash, and a gap remains | 2 connections, 1 consumer, heights up to 3, 2 faults (with 1 there is no gap) |
| `rpc_cache` | `WithinBudget`, `FreshUnlessLate`, `EvictsNoMore`, `ServesCurrentAtLast` | 4 keys (a raw block look-up and a mempool one of 2 bytes, an immutable one of 1, one of 4 that fits no budget), 2 entries or 3 bytes, so that each budget is met first in some state; 2 clients, 1 block and 1 transaction |
| `zmq_listener` | `NoStaleWake`, `TipNoticed`, `SleeperReturns`, `StopEnds` | a queue of 1, so that events are dropped; 2 heights, 1 other message, 2 faults (a lost message and a poll error, or two of one kind), 2 slices, every set-up, an indexer that is a block behind at the start or is not |
| `chain_state` | `AgeMeansFailure`, `FailureIsRetried`, `SnapshotCatchesUp`, `OutageShown`, `NetworkInfoCatchesUp` | retry 1, heartbeat 3, stale 6 ticks (10, 60, 150 seconds in their order); 2 blocks, 2 batches of transactions, 2 outages, 2 lost events or partial refreshes, a node that is up or down at the start |
| `rate_limiter` | `NeverTooMany`, `RefusesOnlyFull`, `IdleClientsGo` | 2 threads, a trusted proxy elsewhere and one on the host, each of which may name either address, 2 requests in a window of 2, clock read up to 1 tick early, 4 ticks (two windows, so that a sweep falls after the first and requests of the first fall out of the second) |
| `live_updates` | `StaysInformed`, `SubscribedOnce`, `ComesBack`, `PollingShowsTip` | one page with two sockets (a page shares nothing with another but the registry, whose entries are sockets), 2 reconnection attempts, so that they can be used up; 2 blocks, 1 restart of the server, broken link or lost answer, 1 other message, 2 requests of a page under way, so that one can overtake the other |

The bounds are small but reach what matters: in `pipeline` the queue is full while a sub-batch is
fetched and another is being copied, and the next call resumes in the middle of the chain; in
`indexer_faults` a call has a committed, a fetched and an unfetched sub-batch when the node reorganises or
the database falls back, and the rollback bound is smaller than the chain so that it can be exceeded.
Deadlock is checked in the indexer and the cache runs. It is not in the others, where `stop()`, shutdown, the death
of the process, the bound of the clock or, in `live_updates`, the last block and a page that is up to date ends what there is to do. In `rate_limiter` the threads
are interchangeable, and so are the two addresses in spite of their roles: both are trusted proxies and may name either address, so either
can be what `Enter` or `LetThrough` makes of a request. No liveness is checked there.

### Fairness

`IndexPipeline!FairSpec`: weak fairness of each thread (the operating system schedules them, RPC and SQL
calls return, by timeouts if not otherwise), no endless spurious wake-ups, and a `stop()` that has begun
goes on. Nothing obliges the node to mine or anyone to call `stop()`. Each thread has a single enabled
action or a choice of outcomes at any program counter, so weak fairness of the disjunction is that of the
thread. `BlockIndexer!FairSpec`: weak fairness of the indexer thread, whose loop never waits longer than
30 seconds, and of the cache's expiry (`kMaxAge`, 300 seconds). Faults and reorganisations are finite in
number, so "once the node leaves its chain alone" needs no further assumption.

`RpcResponseCache!FairSpec`: time passes, nothing else; in particular no event need ever be handled, which is the case
`kMaxAge` is there for. `ZeroMQListener!FairSpec`: each thread runs, its sleeps and polls have time-outs, time passes, `main`
starts the listener and, once stopping, goes on; messages may be lost as often as the bound allows, and nobody
need stop the server. The indexer's thread is fair but for the end of a call: `index_chain_data_batch` need not return (`EndCall`), since run
`pipeline_wakeups` shows that it may not. `ChainState!FairSpec`: the event processor runs, its calls of the node end (by the curl time-out), and a
request that is about to store the network info ends. The node need not come back: `SnapshotCatchesUp` and
`NetworkInfoCatchesUp` speak of a node that is up in the end, `OutageShown` of one that is down.

`LiveUpdates!FairSpec`: the indexer and the event processor run, the server's event loop gets to every socket, the browser delivers its events
and runs its timers, and a request ends, by its time-out of 5 seconds if not otherwise. The server need not come back and
nobody need send anything; what is sent at once by `Opened` is part of the page's step.

`ConnectionPool!FairSpec`: threads run, deadlines of `wait_for` pass (a deadline is fixed when the wait begins, so
`Timeout` stays enabled while the thread is woken in vain), and commands on a connection end, by keepalives and
`statement_timeout`. The server need not come back.

### What fails and why

The three failing runs check what the code's own comments promise (quoted in `PROJECT.json`):

1. `pipeline_wakeups`. The producer's last `notify_all` is sent without `queue_mutex`. Between the consumer's predicate and
   its wait both the flag and the notification are missed, and nothing else wakes the consumer: indexing
   stops until the process is stopped. `WakeUpsArrive` has two more parts, `ProducerSeesConsumerEnd` and `StopCompletes`, which
   fail in the same way (checked alone with the same constants): a full queue and a consumer that fails; and a `stop()` in the
   same window, or before a thread is created with a new stop token. Holding `queue_mutex` while the flag or the stop request is
   set would be enough for all but the last.
2. `indexer_stale_hash`. `detect_reorg` reads the node's hash through the cache, which a slower thread invalidates.
3. `copy_gap`. The running call does not learn of a crash if its next connection was broken already: that one is reset,
   not failed on, so the call goes on above commits that are lost.

### What the passing runs except

A property that holds only with an exception says so in its formula, and each exception is a thing the code does:

- `FreshUnlessLate`: an answer fetched before a block event and put after it is stamped with the new generation
  (`ycash_rpc_client.cc:466`) and served until the next one; the raw look-ups cache the `null` of an error answer
  as if it were a value (`extract_result_raw`). Transaction events that the event processor drops while the indexer is syncing
  (`EventProcessor.cc:219-223`) advance no generation: they stay among the events nobody has handled, until the next block.
- `TipNoticed`: with ZeroMQ disabled, failed to initialise, or an endpoint `zmq_connect` rejects, `is_fallback` never
  becomes true and `PollingFallback` never polls, although `main.cc:195` says "using polling fallback only". A block event
  thrown away by a full queue is not injected again. While `flag_syncing` is set the fallback does not poll, so nothing is promised if a
  call of the indexer never returns. `TypeCorrect` proves that
  `reconnect_attempts` never exceeds 1, so the exponential backoff and the fallback after `MAX_RECONNECT_ATTEMPTS` are
  dead code; silence alone starts the fallback.
- `NoStaleWake` has its price: the flag is cleared at every slice, so an event between two slices is forgotten and the
  indexer waits out its time (`SleeperReturns`).
- `StopEnds`: listener, fallback, event processor and the indexer's wait are stopped and joined. The indexer's join comes last and waits for the call it may be in,
  with the joins of producer and consumer (`BlockIndexer.cc:184`, `527-545`); if that call hangs, as `pipeline_wakeups` shows it can, so does the stop.
- `SnapshotCatchesUp`: when the first refresh at the start fails or is partial, its retry fails or is partial too, and an
  answer about the mempool comes then, that answer confirms the snapshot as fresh although `state_refresh_needed` is not set:
  nothing retries it until the next block (`BlockchainState.cc:270`, while `main.cc:174` says "EventProcessor
  retries until ycashd answers").
- `pc = "dead"`: `get_cached_info_extended` reads `valuePools[0]` to `[2]`, which are not there until the chain's part was fetched
  once (`BlockchainState.cc:65`); a block event, a recovery or a request can come before.
- `NetworkInfoCatchesUp`: `get_network_info` may put an older network info over a newer one (`NetworkController.cc:26-51`),
  a recovery while the indexer is behind stores none (`EventProcessor.cc:190`), and what was stored from a snapshot that has never been whole lasts as long as that
  snapshot does (the item before last).
- `BlockIndexer`: after a rollback `progress_current_height` keeps the old tip, and a call that then fails before its first
  commit writes it to `sync_progress`, past every block that exists, although `BlockIndexer.cc:986-988` promises
  otherwise. No decision reads the row in between, and no property is about it.
- `NoLeak` counts a connection that was closed as gone for good, and so it is: a failed reset in `acquire` closes it
  (`PostgresPool.cc:132`, `PostgresCopy.cc:110`) and nothing opens another, so an outage can leave either pool empty until the process
  restarts. `AcquireEnds` then ends in an exception. No comment or test promises that a pool recovers.
- `PollingShowsTip` is about pages that poll. A connected page may go on showing the table of the block before until the next one: it
  fetches a second after the broadcast, which may be before the indexer's commit; the answer is empty while the indexer is at
  work; an older answer may come last; and `onConnected` stops the polling without a fetch of its own. Pages that have used up
  their ten attempts only poll (`GaveUp` in `ComesBack`).
- `NeverTooMany` leaves out the clients with a request that came over loopback. `doFilter` exempts the TCP peer (`RateLimiter.cc:139`, 171) before it
  reads `X-Forwarded-For`; with a trusted proxy on the same host (`trusted_proxies` is `127.0.0.1,::1` by default) that is every client behind it, and no limit
  holds for any. This disagrees with `RateLimiter.cc:10-19`, "we only honour it when the *real* TCP peer is a configured trusted proxy", and with
  `inzyght.conf.example:219-228`, "honour X-Forwarded-For, but ONLY when the immediate TCP peer is listed in trusted_proxies" and "front with a local
  proxy and keep 127.0.0.1 here": such a header is not looked at for limiting. With `LetThrough` counted as admitted the property fails at once.
- `NeverTooMany` counts a request as one of a window if it was received and let through in it. The clock is read before the mutex is taken, so a request that waits long between the
  two may pass in a window in which it was not received; `check` does not count it there.
- `IdleClientsGo` gives two windows. `RateLimiter.cc:113-114` says "an idle IP doesn't linger past one window" and `RateLimiter.h:15-16` "a record is dropped
  as soon as its last request falls outside the window"; the code does neither: the sweep runs at most once per window, so a client whose last request came just after one
  sweep survives the next, and goes with the one after it. With no requests at all nothing is swept. The map stays bounded all the same, and that is what the property says.

## Proofs

`IndexPipelineProofs` proves, for every `ChainHeight`, `HeadersBatchSize`, `BatchSize`, `MaxQueueDepth` and
`MaxRetries` of at least 1 (`PipelineAssumption`; the code's values are 100000 for the second, 3 for the
last, and configuration for the others):

- `TypeCorrect`, `QueueIsBounded`, `TableHasNoGap`, `NoWakeupLostForData`, `ReportsOnlyCommitted`,
  `SuccessIsCommitted`: six invariants of run `pipeline`;
- `OnlyGenesisIsCopiedTwice`, and for sub-batches and calls of two or more blocks `NothingIsCopiedTwice`, a seventh invariant of the run;
- `ImplementsTable`: the refinement of `BlocksTable!AppendOnly`.

All rest on one inductive invariant `IInv`, because none of the properties is inductive. Its parts:

- who runs when (`ThreadsIdle`), and who holds the mutex (`MutexHeld`);
- the count is the queue's length, give or take the sub-batch just pushed or popped (`Counted`), and the
  room the producer found is still there when it pushes (`RoomFound`); together they give the bound;
- a sleeping consumer sleeps beside an empty queue, or beside a single sub-batch whose producer has
  not yet decided whether to notify (`SleepsOnEmpty`); with `Counted` it will see a count of 1;
- the sub-batch taken, those queued and the one being fetched are consecutive pieces of the call's range
  (`QueueInOrder`, `TakenInOrder`), and the table reaches exactly up to the first of them as long as the
  consumer has not failed (`Frontier`); so a commit extends the table without a gap (`Prefix`);
- how a consumer leaves its loop (`Ending`), which gives `SuccessMeansCommitted`;
- what is reported is committed (`ReportedCommitted`).

`Frontier` contains the one irregularity of the code: at height 0 the table may be empty or hold genesis
alone, which `BlockIndexer.cc:301` does not tell apart. `OnlyGenesisIsCopiedTwice` proves, for every size of sub-batches, that this is
the only height ever copied again. With sub-batches of 1 it does happen: a first call that ends after its first sub-batch
leaves genesis alone, and this is then copied again by every later call (`NoReCopy` fails with `BatchSize = 1` and the other constants of `pipeline`). With
sub-batches of two or more (`block_headers_batch_size` is 100 by default) genesis is never alone (`NotGenesisAlone`), and `NothingIsCopiedTwice` proves
`NoReCopy`. Each `...Step` lemma proves that one
part survives every action. The invariant itself was model-checked before it was proved.

`ChainStateProofs` proves, for every `Retry`, `Heartbeat`, `Stale` with `Retry <= Stale` and `Heartbeat < Stale`
(`StaleAssumption`; 10, 60 and 150 seconds in the code) and every bound, `TypeCorrect`, `FailuresAreRetried` and `StaleMeansFailed`. The
last needs to know why a snapshot that has not failed cannot grow old: either a retry is due, then its age is at
most the time since the last retry (`RetryComes`), or none is, then the heartbeat comes first (`HeartbeatComes`);
both say how much at which place of the round, which makes them inductive.

`ZeroMQListenerProofs` proves, for every queue size, time-out and number of slices, `TypeCorrect` (with the bound of the queue and of
`reconnect_attempts`) and `WakesForNews`. It needs that a connected listener has no attempts behind it (`ConnectedAfresh`), and
that a flag set in a slice was set during the call (`FlagIsNews`).

`ConnectionPoolProofs` proves, for any number of connections and borrowers (`PoolAssumption` asks for at least one connection, finitely many threads, and that no thread is both
a `CopyTxn` and a guard), `TypeCorrect`, `NeverShared`, `NeverLeaked`, `ShutStaysShut` and `SleepersAreNeeded`. The
invariant says where in its program a borrower has a connection (`Holding`) and how the two flags follow `shutdown()` (`FlagsFollow`).
`NoSharing` and `NoLeak` together say that the connections that are not closed are exactly those in the queue or with a borrower, once each;
each lemma shows one way a connection moves (`HeadTaken`, `HeadClosed`, `HeldClosed`, `HeldReturned`, `QueueClosed`) to keep that.
`NoneSleepsBeside` is inductive beside these: the head of the queue goes to a contender, who leaves (`OneServed`), and a connection that
comes back wakes a new one (`OneWoken`).

`LiveUpdatesProofs` proves, for any number of pages, blocks, restarts and messages, `TypeCorrect` (without the contents of queues),
`PagesStayInformed` and `SubscriptionsAreMadeOnce`. For `PagesStayInformed` the invariant is about a page and its two sockets, since what a server does with other pages' connections does not concern them:
a link that is up has a controller that has registered it or is about to (`Served`), and the page that does not poll has a link that was
opened (`LinkKept`). `SubscriptionsAreMadeOnce` has an invariant of its own, one socket at a time (`SocketInv`): from the opening of the socket on there is one
subscription, and it is either on its way to the server, or acknowledged on the way back, or known to the page. Messages are counted with `Cardinality` of the
places that hold one, which takes lemmas on what sending and receiving do to those places but no induction.

`BlockIndexerProofs` proves, for all constants of `IndexerAssumption` (every bound, and every setting of the three switches), `TypeCorrect`,
`TableHasNoGap` and `ImplementsTable`, the refinement of `BlocksTable!Spec`. None is inductive: that a commit is at the top of the table
needs that the loop knows the top until the call begins (`AtTop`) and that the fetched sub-batches lie in line above it (`InLine`, with the
levels between them as the witness of an existential); that a rollback is bounded needs that `progress` is the top while the
ancestor is sought (`Scanning`). Its second part proves `StoredIsLinked` and `DeletesOnlyStale` under the assumption `Calm`: the cache is
emptied when the tip changes, look-ups do not fail, and reorganisations fall between cycles; those are the settings of run
`indexer_converges`, and without them `Linked` is false (`indexer_stale_hash`). All other failures and crashes are still there. The
invariant is that a cycle's comparisons and fetches stay true of a chain that only grows (`Compared`, `Resumes`, `Continues`).

`RateLimiterProofs` proves, for any limit, window, threads and addresses, and a clock that is read at most `MaxDelay` before the mutex is taken (`RateAssumption`),
`TypeCorrect`, `CheckLimits`, `LimitHolds` (`NeverTooMany`), `RefusalsAreDue` (`RefusesOnlyFull`) and `IdleClientsAreDropped` (`IdleClientsGo`). A client's deque is the last of the stamps
of what `check` let through. What it has lost was out of the window of the request that removed it, or was let through before a request that was: this is the invariant
(`Aligned`), and it holds for every delay up to a whole window. So of the last `MaxRequests` requests one is missing from the deque when another is let through, and hence one
of them was received more than a window before. `CheckLimits` says this of every client's requests that `check` has seen, `LimitHolds` of all the requests of a client that is not exempt.
That `pop_front` leaves a suffix (`InWindowIsSuffix`) needs a least element (`Least`), which follows
from the well-foundedness of inclusion of finite sets.

`RpcResponseCacheProofs` proves, for any finite set of keys of any sizes, any budgets, clients, blocks and transactions (`CacheAssumption`),
`TypeCorrect`, `BudgetHolds` (`WithinBudget`), `FreshAnswers` (`FreshUnlessLate`) and `NoNeedlessEviction` (`EvictsNoMore`).

- The bytes of a set of answers are the number of the pairs of a key and one of its bytes. So sizes add up as cardinalities of
  disjoint sets do (`BytesAdd`, `BytesWith`), without an induction over the entries, and the account of every insertion, replacement and erasure is balanced (`PutCounts`, `ErasureCounts`).
- `usage` is a strict linear order of the cached keys. A finite, not empty set of them has a first and a last (`FirstAndLast`, by well-foundedness again), so the keys
  that stay are those used since some key, they fit, and one more would not (`StaysFits`).
- An answer of the current generation lacks no more than the changes whose event is not handled yet, unless it was put late or is the null of an error
  (`AnswersStay`, `EntriesStay`, for a client's answer and for an entry); when no event is outstanding it is what the node would answer.

Where type correctness is a theorem it is not part of a run, but for `BlockIndexer`.

Model-checked only: the liveness properties, since the provers know nothing of fairness and `ENABLED`. Every invariant and every action property of a passing
run is a theorem. The induction theorems of the library, which take an operator as a parameter, cannot be used here; where a proof is by
nature an induction over data it takes a least counterexample instead (`Least`, `FirstAndLast`). The invariants of
the proofs were model-checked before they were proved. Assumptions built into
the models and not proved: the mutex excludes, a COPY with its COMMIT is atomic, and the node answers a
request from one state of its chain.

## Not modelled

- What happens to tables that mix forks below their top. `indexer_faults` reaches them (by `FetchAcross`, by failed look-ups, or by a
  reorganisation between two fetches of a call) and checks that even then the table has no gap; `Linked` does not hold there,
  since the code compares only the top block, and nothing repairs such a table.
- In `BlockIndexer`, a pooled connection that was already broken when PostgreSQL crashed: `DatabaseCrash` takes
  every connection to fail at its first use. `CopyCommits` shows what happens otherwise.
- `queue_depth` of 0 or 1: not rejected by `ConfigManager`. With 1 the only backpressure notification can be
  lost although the consumer lives.
- The columns of a block, `record_reorg_event`, speed statistics, and the components listed as such in
  `PROJECT.json`.

- In `ZeroMQListener`: a stop while `main`'s detached thread is still inside `start()`; a second frame that never
  comes, on which `zmq_recv` would block (`ZeroMQListener.cc:298`); reading `silent` and `fallback` by two threads, which are
  atomics.
- In `RpcResponseCache`: the bytes of a key, and the node answering from two versions at once.
- In `ChainState`: the broadcast itself, which `LiveUpdates` has, and the parts of the snapshot beyond the tip they show.
- In `LiveUpdates`: the contents of messages, rendering, and the badge of `node-status.js`.
- The encoders and parsers, address and page controllers, the other pages, `GeoLocationService`, configuration and logging: pure translation,
  without state of their own.

## Plan

Done: 1. `BlocksTable`, `IndexPipeline` (the heart of the system), its proofs; 2. `BlockIndexer`;
3. `ConnectionPool` and `CopyCommits`; 4. `RpcResponseCache`; 5. `ZeroMQListener` and `ChainState` with their proofs;
6. `RateLimiter`; 7. `LiveUpdates`; 8. reorganisations within a JSON-RPC batch; 9. proofs about the pools, about `BlockIndexer` and about `LiveUpdates`;
10. proofs about the cache and the rate limiter, `SubscribedOnce` and `NoReCopy`.

Left: liveness stays with TLC; of the components, those without state of their own are not modelled.
