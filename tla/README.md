# Redis 3.2.8: a TLA+ verification project

TLA+ models of the parts of the annotated Redis 3.2.8 server where several
actors meet: the background threads, the append only file, replication and the
cluster bus. All source references are to `src/redis-3.2.8/src/`; the `.c` and
`.h` files at the top of the repository are annotated copies of the same code.

- [The system](#the-system): parts, state, how they interact
- [Modules](#modules): which module models what
- [Runs](#runs): what TLC checks, on which instances
- [Theorems](#theorems): what TLAPS proves, and along which argument
- [What the checks showed](#what-the-checks-showed): where code and comments differ
- [Not modelled](#not-modelled) and [plan](#plan)

## The system

A Redis server is one thread going round an event loop (`ae.c`): read commands,
execute them, write replies. What makes it hard is everything that is *not* in
that thread, and the state that thread keeps about it.

| Part | State | Operations | Meets |
|---|---|---|---|
| Background I/O (`bio.c`) | per job type: list, counter, mutex, condition variable, thread | create a job, count the pending ones, run one, kill the threads | AOF (fsync), crash handler |
| Append only file (`aof.c`, `server.c`, `config.c`) | `aof_buf`, fd, size, state, selected db, rewrite buffer, child pid, pipes, the files | feed, flush, fsync by policy, rewrite (fork, diff over a pipe, stop handshake, rename), switch off and on, load | bio, RDB child, the disk, crashes |
| RDB (`rdb.c`, `rio.c`) | child pid and type, dump file | save, background save, save to slave sockets, load | AOF, replication |
| Replication (`replication.c`, `networking.c`) | backlog, offsets, run id, a state per slave client; on the slave the state, the master client and the cached master | feed, PSYNC, SYNC, send the payload, ACK, WAIT, cron, reconnect, resize | RDB, AOF child, networking |
| Cluster bus (`cluster.c`) | currentEpoch, lastVoteEpoch, node table, slot table, election, nodes.conf | packets (PING, PONG, UPDATE, vote request, vote), election timer, takeover, save, restart | replication, keyspace |
| Sentinel (`sentinel.c`) | per master: slaves, sentinels, down flags, failover state, leader and epoch | ping, INFO, ask for votes, elect, promote, reconfigure | masters and slaves, other sentinels |
| Keyspace (`db.c`, `object.c`, `multi.c`, `blocked.c`, `pubsub.c`, `notify.c`) | dictionaries, expires, watched keys, blocked clients, subscriptions | read, write, expire, watch, exec, block, publish | replication, AOF |
| Networking and event loop (`networking.c`, `ae.c`) | query and output buffers, client lists, file and time events | accept, read, write, free (now or later), timers | everything |
| Containers (`dict.c`, `adlist.c`, `quicklist.c`, `ziplist.c`, `intset.c`, `t_zset.c`, `sds.c`) | in-memory encodings | insert, delete, iterate, rehash, convert | keyspace, RDB |
| Memory limit (`server.c`) | eviction pool, LRU clock | evict before a command | keyspace, replication |
| Scripting (`scripting.c`) | Lua interpreter, script cache | EVAL, EVALSHA, SCRIPT | replication, keyspace |

`PROJECT.json` lists the same parts file by file with their status, and under
`hazards` the places where an ordinary test would hardly reach the problem.

## Modules

| Module | Models | Kind |
|---|---|---|
| `Bio` | `bio.c` at the granularity of locks and signals | component |
| `BioQueue` | the FIFO queue `bio.c` promises | abstract specification |
| `AOF` | the append only file, its rewrite child and the disk | component |
| `Cluster` | epochs, elections, slots, UPDATE packets, nodes.conf | component |
| `Backlog` | the circular replication backlog, as operators | pure functions |
| `Replication` | master, slaves and connections on top of `Backlog` | composition |
| `BioProofs`, `ClusterProofs`, `BacklogProofs`, `ReplicationProofs` | theorems | proofs |
| `MCBio`, `MCAOF`, `MCCluster`, `MCReplication` | instances | model checking |

In every component module an operator whose comment starts with "Mutant" is a
plausible mistake in the operator that follows it. No specification uses it; it
is there to show that a property would notice the mistake.

### Bio

`jobs`, `pending`, `mutex` and the control point of each thread are the arrays
of `bio.c`. Every `pthread_mutex_lock` is a step, what is done up to the unlock
is the next one, and a job runs in a step of its own without the lock, as in the
code. `pthread_cond_wait` may return spuriously; a signal that finds nobody
waiting is lost. `KillThread` is one turn of the loop of `bioKillThreads`, called by
the crash handler: threads are cancelled one after the other, and those not yet
cancelled go on.
`created` and `executed` are histories.

### AOF

Four actors: the main thread at the points of its loop where files, children or
buffers change (`loop`), the rewrite child, the fsync thread (two steps a job,
as `BioQueue` promises) and the machine. A write appends its own number to a key
of its database, so that a dataset says which writes it holds and in what order.
Files and buffers are sequences of units; a write is two units, so that a short
write or a crash can cut it. A file has a durable prefix; `PowerLossImages` are
the contents a loss of power may leave: any prefix at least as long as the
durable one, of either file if a rename is not yet durable.

`Holds(bytes, n)` is what `loadAppendOnlyFile` makes of a file: SELECTs are
followed, a truncated last command is dropped (`aof-load-truncated yes`), and
commands are executed as they are read, so that a transaction cut short is
applied as far as it goes.

| Action | Code |
|---|---|
| `ProcessWrite`, `ProcessExec` | `call`, `propagate`, `feedAppendOnlyFile`, `execCommand` |
| `beforeSleep`, `CronPostponed`, `CronRetry` | `flushAppendOnlyFile` and its three callers |
| `CronBegin`, `bgrewriteaofCommand` | `serverCron`, `rewriteAppendOnlyFileBackground` |
| `aofChildWriteDiffData`, `aofChildPipeReadable`, `aofReadDiffFromParent`, `ChildAsk`, `ChildFinish`, `ChildAckTimeout` | the three pipes and the stop handshake |
| `RewriteFailed`, `RewriteRename`, `RewriteSwitch` | `backgroundRewriteDoneHandler`, cut at the rename because a crash there leaves other files |
| `startAppendOnly`, `stopAppendOnly`, `prepareForShutdown` | the same functions |
| `Kill`, `PowerLoss`, `Restart` | a crash, and the start-up load |

Times are differences with `server.unixtime`, kept as far as the code tells them
apart. Any system call the code checks may fail, within a bound.

### Cluster

Each node has its own table (`cfg`, `own`, `slaveof`), `currentEpoch`,
`lastVoteEpoch` and election. `net` is the set of packets in flight, delivered in
any order, or never. A handler and the save `clusterBeforeSleep` makes for it
are one step: replies are queued by the handler and leave after the save. What
`clusterBuildMessageHdr` puts into a header is a field of the packet. `disk` is
nodes.conf and `Restart` loads it.

Failure detection is a parameter: a master in `MayFail` may be seen as failing
by any node at any time. Timers may expire at any time, so that requests and votes
of one election may still be in flight when its slave holds the next one. Such a
late vote is counted when the code counts it (`cluster.c:2401`). `InitViews` gives
the node tables to start from; nodes may know different masters and slots, and
`Links` says who can reach whom.

### Backlog and Replication

`Backlog` has the operations of the circular buffer as functions on a record.
Its field `stream` is a ghost: all the units ever counted in
`master_repl_offset`. `createReplicationBacklog` adds 1 to the offset to keep
old slaves out; the ghost gets a `Skipped` unit for it. `feedReplicationBacklog` takes a
sequence of units. `CopyPiece` is a turn of its loop, which copies up to the end of
the buffer and rewinds the index, and `CopyLoop` its turns: a feed may cross the end,
or go around the buffer several times before `histlen` is cut down.

`Replication` is a master, its slaves and their connections. The two ends of a
connection close separately, so the master may still hold a client of a slave
that has come back on another connection. A write is a header and an argument of
`arglen` units, fed by two calls, so that a read, or a broken connection, can leave a
part of a command in the query buffer. `BgsaveDone` chooses the slaves that can go on:
a save may fail for all of them, a transfer by the child or the opening of the
file for some. The state of a client at the master follows `replstate`:

`conn` → `start` (WAIT_BGSAVE_START) → `end` (WAIT_BGSAVE_END) → `bulk`
(SEND_BULK) → `online`, or straight to `online` after a partial resynchronisation.

| Action | Code |
|---|---|
| `Write`, `PingSlaves` | `replicationFeedSlaves` |
| `syncCommand` | `syncCommand`, `masterTryPartialResynchronization`, `startBgsaveForReplication` |
| `ChildStreams`, `BgsaveDone`, `UserBgsave`, `AofChildDone` | `rdbSaveToSlavesSockets`, `updateSlavesWaitingBgsave`, the children |
| `sendBulkToSlave`, `replconfAck`, `MasterReadsEof` | the same, `replconfCommand`, `freeClient` |
| `CronBgsave`, `CronFreeBacklog`, `ConfigSetBacklog` | `replicationCron`, `resizeReplicationBacklog` |
| `waitCommand`, `WaitTimeout` | `waitCommand`, `processClientsWaitingReplicas` |
| `SlaveConnects`, `SlaveReads`, `replicationSendAck`, `SlaveReadsEof` | `syncWithMaster`, `slaveTryPartialResynchronization`, `readSyncBulkPayload`, `readQueryFromClient`, `replicationCacheMaster` |
| `MasterDrops`, `SlaveDrops`, `MasterRestarts` | timeouts, broken connections, a restart with a new run id |

## Runs

Each run asks one question. `expect: pass` runs finish without an error; the
five `find` runs end with a counterexample to a sentence of the repository.

| Run | Properties | Instance |
|---|---|---|
| `bio` | `IndInv`, `ZeroPendingMeansAllRun`, `RunInOrderOnce`, `EveryJobRuns`, `QueueSpec` | both job types, 3 jobs |
| `aof` | `TypeOK`, `LogComplete`, `RewriteComplete`, `SizeTracksFile`, `CrashLeavesPrefix`, `AckedSurvivesCrash`, `WaitHasRewrite` | six cases, see below, one rewrite |
| `aof_live` | `FlushReachesFile`, `WaitRewriteEnds`, `RewriteEnds` | one write, one failure, two switches, two rewrites |
| `cluster_election` | `TypeOK`, `VoteOncePerEpoch`, `CountIsVotes`, `WinnersOutnumber`, `EpochsOrdered` | 3 masters, one dead, 2 slaves: both its slaves and two epochs, or one of them and three |
| `cluster_views` | `WinnersOutnumber`, `RebindsToNewer` | 5 masters, one dead, its 2 slaves, each of which knows two of the live ones |
| `cluster_heal` | `EpochsOrdered`, `SlaveServesNothing`, `Converges`, `EpochsDiffer` | 3 nodes, a takeover or equal epochs, one restart |
| `replication` | `TypeOK`, `InSync`, `BacklogHoldsTail`, `PsyncSendsMissing`, `SlavesHaveBacklog`, `WaitCountsHolders`, `Converges` | ten cases, see below |
| `aof_find_everysec`, `aof_find_misconf`, `cluster_find_vote_lost`, `cluster_find_late_vote`, `repl_find_wait` | `EverysecSyncs`, `WritesAcceptedAgain`, `OneWinnerPerEpoch` (twice), `WaitCountsReplicas` | the smallest that shows it |

### Cases instead of one large instance

`AOF` and `Replication` have many independent disturbances, and all of them at
once are out of reach. Their initial states choose a *case*: a configuration and
a bound for each disturbance. A case turns on the disturbances that meet in one
part of the code.

- `AOF`: `Crash` (a failing write, a rewrite, a crash, policy always), `Toggle`
  (off and on, everysec), `Saves` (the same around RDB children), `Rewrite` (three
  writes with MULTI/EXEC around a rewrite), `NoFsync` (no-appendfsync-on-rewrite
  and a crash), `Kernel` (policy no and a crash).
- `Replication`: `Partial` (two reconnections, a backlog of 2 units that an
  argument of 2 units crosses), `Laps` (an argument of 5 units, which goes around a
  backlog of 2 units more than twice), `Recreate` (a backlog freed and created by another slave),
  `Attach` (joining a running BGSAVE), `Diskless`, `Failing` (a save that fails for
  all slaves or for some, an AOF child in the way), `Restart`, `Resize`, `Waits` and `Stale` (WAIT with two
  slaves, with one that has reconnected).

### Why the bounds are enough to be interesting

- Three jobs fill a queue while one runs and one is retired.
- Two writes to two databases make the selected database matter; a third one
  can fall on each side of a rewrite. A write of two units can be cut. One
  rewrite has all its handshakes; two are needed only for retries.
- Backlogs of 2 and 3 units are shorter than one write with its SELECT, so that
  old offsets are really overwritten; with an argument of 2 units a single call
  crosses the end of the buffer, with one of 5 it makes several laps.
- Five nodes are the smallest cluster in which two slaves compete; the live
  masters have exactly the quorum. Two more epochs allow a second election after a
  lost one, and three a vote that is two elections late. Seven nodes are needed
  for two slaves whose majorities are of different masters. The heal run gives epochs up to 5 so that collisions settle below the bound.

No symmetry is used: node names are ordered by `memcmp`, and the runs that have
symmetric slaves check liveness.

Deadlock is not checked where bounded disturbances let the system stop. It is
checked in `cluster_heal`, where nodes ping for ever.

### Fairness

- `bio`: the main thread gives back a lock it holds (weak), a thread that asks
  again and again for a mutex gets it (strong, the scheduler), and a running
  thread goes on (weak). The main thread is not obliged to create jobs.
- `aof_live`: the event loop goes round and its timer fires (`serverCron` is a
  timer event, strong because other events come in between), a readable pipe is
  reported, the child runs. A flush that writes to a file whose fsync is running may
  block in `write(2)`, as the comment of `flushAppendOnlyFile` says: in a `Blocked` state
  the main thread is not obliged to go on. `FsyncsReturn` is the premise that the
  fsync thread runs. `FlushReachesFile` says that a postponed flush gets as far as `write(2)`
  without that premise, and to the file with it; the other two properties have it
  as a premise, and `RewriteEnds` fails without it. `aof_find_everysec` and `aof_find_misconf`
  assume it too, so that their counterexamples are not about a thread that never runs.
- `cluster_heal`: nodes ping along `PingPairs` for ever (`clusterCron`) and a packet
  of each type on each link is delivered eventually (TCP, reconnected by
  `clusterCron`). `PingPairs` is a ring: no node hears of everybody directly by
  its own pings.
- `replication`: the master and the slaves go on working. Disturbances are
  bounded, so weak fairness of the two disjunctions is enough.

### Mutants

For every property of every passing run `PROJECT.json` names a mutant: a mapped
definition, replaced by the operator that precedes it, under which TLC finds the
property violated.

## Theorems

TLAPS checks 12 theorems, for every value of the constants that the named
assumptions of the modules allow.

**`BioProofs`.** `IndInv` says who holds each mutex (`LockInv`) and that the list is the
rest of the created jobs, its length is the counter, and the jobs run are those
retired, plus one while a thread is between running a job and taking the lock
again (`QueueInvOf`). The property `ZeroPendingMeansAllRun` alone is not inductive:
it needs the counter to be the length of a list that still contains the running
job. The same invariant gives `RunInOrderOnce` and, step by step, the refinement
`Spec => QueueSpec`.

**`ClusterProofs`.** `ElectionInv`: `currentEpoch` bounds the epochs of requests, votes and
elections; a request in flight carries the epoch of the election its slave is
in; a vote in flight was granted, is unique and has not been counted; the count
is the number of counted voters. Without the clauses about packets in flight
`CountIsVotes` is not inductive. The theorems assume `MaxCrashes = 0` and nothing of clocks,
of the order of packets or of the views of the nodes; `cluster_find_vote_lost` shows
that the assumption is needed. A late vote is part of the statements. A count is
that of distinct votes cast for the slave, all of its epoch but those of one earlier
election. `WinnersOutnumber` is what the majority argument really gives: two winners of an
epoch have no vote in common, and one of them counted a late vote, or their voters
together are more than the masters one of them counts. It yields `OneWinnerPerEpoch`
when no vote is late and the two count the same masters, who alone vote.

**`BacklogProofs`, `ReplicationProofs`.** The first holds the lemmas on the circular
buffer alone. `IInv` is `BacklogOK(bl)`, the shape of the client table, and
`ListHasBacklog`. The work is in two places. `FeedOK` shows that a feed of any length
keeps the last `histlen` units of the stream in their cells. It is an induction over
the turns of the loop: `LoopOK` says what a turn finds, `PieceOK` that a turn keeps it
and copies a unit if there is one left, `LoopEnds` that everything is copied in the end.
A turn is followed through the cell of a unit seen from the write index (`CellOf`,
`CellsMove`). The induction is over a set of numbers (`Induct`), from the
well-foundedness of `<` on the naturals.
`ReplyIsTail` shows that the modular arithmetic of `addReplyReplicationBacklog`,
which starts from the oldest byte, reads the same cells. The rest is one lemma
for each handler: no client enters the list of slaves without a backlog, and
the backlog is freed only while the list is empty. Nothing is assumed of the
number of slaves, connections, databases or sizes, but that sizes are positive.

Only model-checked: liveness (under fairness, which the prover does not
handle), everything about `AOF`, `InSync`, the convergence of `Cluster`, and
`WaitCountsHolders`.

## What the checks showed

Five runs find a behaviour that a comment or the documentation excludes; each is
a `finding` of `PROJECT.json` with the quotation.

- With `appendfsync everysec`, data written in the second of the last fsync stays
  unsynced until the next write (`aof_find_everysec`).
- A rewrite that completes after a failed write empties `aof_buf` and leaves
  `aof_last_write_status` at `C_ERR`: writes are refused for good (`aof_find_misconf`).
- `lastVoteEpoch` is not saved when a vote is cast, so a restarted master votes
  again and two slaves may win an epoch (`cluster_find_vote_lost`).
- A vote of an earlier election that arrives when its slave has set up the next one,
  and not yet asked for votes, is counted for the next: two slaves win epoch 2, one
  of them with votes of epoch 1, without a crash (`cluster_find_late_vote`).
- WAIT counts a slave that has not processed the write, or one slave twice
  (`repl_find_wait`).

Noticed while modelling, without a run of their own:

- The rename of a rewritten AOF is not preceded by an fsync of what the parent
  appended (`aof.c:1837`, `aof.c:1864`). `AckedSurvivesCrash` excludes the window.
- An AOF that ends inside a transaction is applied up to there when it is loaded
  (`aof.c:919`), although a transaction is otherwise all or nothing.
- `aof.c:1458` speaks of a timeout of 10 seconds, the code waits 5000 ms.
- `resizeReplicationBacklog` flushes the backlog; its comment says that recent
  data is kept when the size grows (`replication.c:106-111`).
- The error for a slave whose BGSAVE failed is dropped by `prepareClientToWrite`
  because its state is still WAIT_BGSAVE_START (`replication.c:653-669`,
  `networking.c:249-252`); the slave recovers by its timeout.
- SLAVEOF keeps the run id while a promoted slave's offset starts again
  (`replication.c:2188-2213`).

## Not modelled

- In the modelled parts: the texts of commands and files, the conversion of
  relative expiry times in the AOF; SLAVEOF and chained slaves, min-slaves, the
  replicated script cache and the intermediate states of the replication
  handshake; in the cluster failure reports and gossip, manual failover with a
  paused master, slave migration, CLUSTER RESET, importing and migrating slots.
- Scripting (a Lua interpreter), configuration files, INFO, latency monitor, slow log,
  the command line tools, the allocator: no protocol of their own.
- Data type commands: sequential functions of one key. The containers below
  them are in the plan.

## Plan

1. `Sentinel`: subjective and objective down, leader election with expiring
   votes, the failover state machine, reconfiguration of slaves and of the old
   master when it returns. Properties: one leader per epoch, votes not changed
   within an epoch, an old configuration never replaces a newer one, a failover
   ends. Theorem: one vote per epoch.
2. `Keyspace`: lookups and expiration on master and slave, WATCH and EXEC,
   blocked clients and the ready list, subscriptions. Properties: EXEC never runs
   on a changed key, no client sleeps on a non-empty list, a slave never expires
   on its own. Theorem: the dirty flag.
3. `Dict` and the containers: rehashing against SCAN cursors and iterators;
   intset, ziplist, quicklist and skip list against sequences and sets.
4. `Cluster`: failure reports and FAIL packets, manual failover, slot migration.
5. `Replication`: SLAVEOF and chained slaves.
6. Proofs: `SizeTracksFile` and `WaitHasRewrite` of `AOF`, `EpochsOrdered`,
   `RebindsToNewer` and `SlaveServesNothing` of `Cluster`.
