----------------------------- MODULE Replication -----------------------------
(***************************************************************************)
(* Master/slave replication (replication.c, with the parts of networking.c *)
(* and rdb.c it relies on): full resynchronisation through a BGSAVE to     *)
(* disk or to the sockets, partial resynchronisation from the backlog, the *)
(* incremental stream, acknowledgements and the WAIT command.              *)
(*                                                                         *)
(* One master and a set of slaves.  A slave opens one connection at a time *)
(* and each end closes it on its own: the master may go on feeding a       *)
(* client whose slave has already reconnected on another connection.       *)
(*                                                                         *)
(* The dataset is the sequence of the writes it is the result of: a write  *)
(* is <<id, db>>.  On the wire a write is a header and an argument of one  *)
(* or more units, so that a read can end in the middle of a command and an *)
(* argument can be longer than what is left of the backlog, or all of it.  *)
(***************************************************************************)
EXTENDS Backlog, FiniteSets

CONSTANTS
  Slaves,    \* the slave instances
  Dbs,       \* database numbers clients write to
  Conns,     \* connection identifiers, reused once both ends are closed
  Sizes,     \* values of repl-backlog-size
  Cases      \* configurations and bounds, see Environments

ASSUME SizesAssumption == Sizes \subseteq Nat \ {0}

(* Which slaves take part, which of them accept a payload with an EOF mark *)
(* (repl-diskless-sync needs that of all), the configuration of the        *)
(* master, how long the argument of a write is, and how often each         *)
(* disturbance may happen.                                                 *)
Environments ==
  [slaves : SUBSET Slaves, eof : SUBSET Slaves, diskless : BOOLEAN, aof : BOOLEAN,
   size : Sizes, arglen : Nat \ {0}, acks : Nat, writes : Nat, pings : Nat, waits : Nat, bgsaves : Nat,
   fails : Nat, breaks : Nat, restarts : Nat, resizes : Nat]

ASSUME CasesAssumption == Cases \subseteq Environments

VARIABLES
  bl,    \* the backlog and master_repl_offset
  m,     \* the master: run id, dataset, slaveseldb, RDB child, AOF child
  cl,    \* cl[c]: the master's client structure for connection c
  net,   \* net[c]: bytes on their way to the slave (wire), to the master (up)
  sl,    \* sl[s]: the slave's replication state and dataset
  wait,  \* a client that writes and calls WAIT
  env    \* the configuration, and how many disturbances are left

vars == <<bl, m, cl, net, sl, wait, env>>

Nobody == "nobody"
NoConn == 0

(* Messages and stream units. *)
Select(d)          == <<"select", d>>
WriteUnits(id, n)  == [i \in 1 .. n + 1 |-> CASE i = 1     -> <<"head">>
                                             [] i = n + 1 -> <<"body", id>>
                                             [] OTHER     -> <<"arg">>]
PingUnits          == << <<"ping">> >>
GetAckUnits        == << <<"getack">> >>
FullResync(run, o) == <<"fullresync", run, o>>
Continue           == <<"continue">>
Rdb(data)          == <<"rdb", data>>
Psync(run, o)      == <<"psync", run, o>>
AckMsg(o)          == <<"ack", o>>
Kind(msg)          == msg[1]

NoChild == [type |-> "none", snap |-> <<>>, fds |-> {}, sent |-> FALSE]

ClosedClient ==
  [owner |-> Nobody, st |-> "closed", open |-> FALSE, out |-> <<>>, init |-> 0,
   onack |-> FALSE, ack |-> 0, snap |-> <<>>]

IdleWait == [st |-> "idle", woff |-> 0, id |-> 0, n |-> 0, by |-> {}]

NewSlave ==
  [st |-> "connect", conn |-> NoConn, mc |-> "none", runid |-> 0, reploff |-> 0,
   seldb |-> 0, query |-> <<>>, init |-> 0, data |-> <<>>, seen |-> {}]

Init ==
  /\ env \in Cases
  /\ bl = NoBacklog(env.size)
  /\ m = [runid |-> 1, data |-> <<>>, slaveseldb |-> -1, child |-> NoChild,
          aof |-> env.aof, nextid |-> 1]
  /\ cl = [c \in Conns |-> ClosedClient]
  /\ net = [c \in Conns |-> [wire |-> <<>>, up |-> <<>>]]
  /\ sl = [s \in Slaves |-> NewSlave]
  /\ wait = IdleWait

Spend(what) == env' = [env EXCEPT ![what] = @ - 1]

(* The part of the state the master's handlers work on, passed from one    *)
(* function of the code to the next.                                       *)
Now == [m |-> m, cl |-> cl, net |-> net]
Become(S) == m' = S.m /\ cl' = S.cl /\ net' = S.net

-----------------------------------------------------------------------------
(*                                 Master                                  *)

(* server.slaves *)
SlaveList(S) == {c \in Conns : S.cl[c].st \in {"start", "end", "bulk", "online"}}
Waiting(S) == {c \in Conns : S.cl[c].st = "start"}
Capa(S, c) == S.cl[c].owner \in env.eof

(* Bytes written to a socket the slave has closed are lost. *)
Sent(S, c, msgs) ==
  IF S.cl[c].open THEN [S EXCEPT !.net[c].wire = @ \o msgs] ELSE S

(* freeClient of a slave's client *)
Freed(S, C) ==
  [S EXCEPT
     !.cl = [c \in Conns |->
               IF c \notin C THEN S.cl[c]
               ELSE IF S.cl[c].open
               THEN [ClosedClient EXCEPT !.owner = S.cl[c].owner, !.open = TRUE]
               ELSE ClosedClient],
     !.net = [c \in Conns |->
                IF c \in C THEN [S.net[c] EXCEPT !.up = <<>>] ELSE S.net[c]]]

(* What replicationFeedSlaves emits for a command on database d. *)
Emitted(d, units) ==
  IF m.slaveseldb = d THEN units ELSE <<Select(d)>> \o units

(* addReply to every slave but the ones waiting for a BGSAVE to start:     *)
(* prepareClientToWrite schedules the write only for the ones that are     *)
(* online, the others accumulate it.                                       *)
Fed(S, units) ==
  LET Direct(c) == S.cl[c].st = "online" /\ ~S.cl[c].onack
      Held(c)   == S.cl[c].st \in {"end", "bulk"}
                     \/ (S.cl[c].st = "online" /\ S.cl[c].onack)
  IN  [S EXCEPT
         !.cl = [c \in Conns |-> IF Held(c) THEN [S.cl[c] EXCEPT !.out = @ \o units]
                                 ELSE S.cl[c]],
         !.net = [c \in Conns |-> IF Direct(c) /\ S.cl[c].open
                                  THEN [S.net[c] EXCEPT !.wire = @ \o units]
                                  ELSE S.net[c]]]

FeedSelect(b, d) ==
  IF m.slaveseldb = d THEN b ELSE feedReplicationBacklog(b, <<Select(d)>>)

(* The header of a command is fed by a call of its own. *)
FeedCommand(b, units) ==
  IF Len(units) = 1 THEN feedReplicationBacklog(b, units)
  ELSE feedReplicationBacklog(feedReplicationBacklog(b, <<Head(units)>>), Tail(units))

(* Nothing is fed, and no offset is given, without a backlog. *)
replicationFeedSlaves(S, d, units) ==
  IF bl.on
  THEN /\ bl' = FeedCommand(FeedSelect(bl, d), units)
       /\ Become([Fed(S, Emitted(d, units)) EXCEPT !.m.slaveseldb = d])
  ELSE bl' = bl /\ Become(S)

(* A client changes a key of database d.  The client that later calls WAIT *)
(* remembers the offset its command ended at.                              *)
Write(d) ==
  /\ env.writes > 0 /\ Spend("writes")
  /\ replicationFeedSlaves([Now EXCEPT !.m.data = Append(@, <<m.nextid, d>>),
                                       !.m.nextid = @ + 1],
                           d, WriteUnits(m.nextid, env.arglen))
  /\ wait' = IF wait.st = "blocked" THEN wait
             ELSE [IdleWait EXCEPT !.woff = bl'.offset, !.id = m.nextid]
  /\ UNCHANGED sl

(* replicationCron: the periodic PING, fed with the selected database.     *)
PingSlaves ==
  /\ env.pings > 0 /\ Spend("pings")
  /\ bl.on
  /\ replicationFeedSlaves(Now, m.slaveseldb, PingUnits)
  /\ UNCHANGED <<sl, wait>>

getPsyncInitialOffset == IF bl.on THEN bl.offset ELSE bl.offset + 1

(* replicationSetupSlaveForFullResync, for every client of C. *)
SetupForFullResync(S, C, offset) ==
  [m |-> IF C = {} THEN S.m ELSE [S.m EXCEPT !.slaveseldb = -1],
   cl |-> [c \in Conns |->
             IF c \in C THEN [S.cl[c] EXCEPT !.st = "end", !.init = offset]
             ELSE S.cl[c]],
   net |-> [c \in Conns |->
              IF c \in C /\ S.cl[c].open
              THEN [S.net[c] EXCEPT
                      !.wire = Append(@, FullResync(S.m.runid, offset))]
              ELSE S.net[c]]]

SocketTarget(mincapa) == env.diskless /\ mincapa

(* The fork worked: the child sees the dataset of this moment. *)
BgsaveStarted(S, mincapa) ==
  [SetupForFullResync(S, Waiting(S), getPsyncInitialOffset)
     EXCEPT !.m.child = [type |-> IF SocketTarget(mincapa) THEN "socket" ELSE "disk",
                         snap |-> S.m.data,
                         fds  |-> IF SocketTarget(mincapa) THEN Waiting(S) ELSE {},
                         sent |-> FALSE]]

(* The save could not start: the waiting slaves leave the list of slaves.  *)
(* The error added to their reply buffer is never written, because         *)
(* prepareClientToWrite does not schedule a client whose replstate is      *)
(* WAIT_BGSAVE_START, and with it the close that should follow.  A socket  *)
(* save whose fork fails has already sent them +FULLRESYNC.                *)
BgsaveFailed(S, mincapa, forkfails) ==
  LET R == IF SocketTarget(mincapa) /\ forkfails
           THEN SetupForFullResync(S, Waiting(S), getPsyncInitialOffset) ELSE S
  IN  [R EXCEPT !.cl = [c \in Conns |->
                          IF c \in Waiting(S) THEN [R.cl[c] EXCEPT !.st = "dropped"]
                          ELSE R.cl[c]]]

startBgsaveForReplication(S, mincapa) ==
  {BgsaveStarted(S, mincapa)}
    \cup (IF env.fails = 0 THEN {}
          ELSE {BgsaveFailed(S, mincapa, f) : f \in BOOLEAN})

(* Every result but the successful one costs one of the failures left. *)
ChargeFailure(failed) == env' = IF failed THEN [env EXCEPT !.fails = @ - 1] ELSE env

TakeRequest(S, c) == [S EXCEPT !.net[c].up = Tail(@)]

(* PSYNC, first case: +CONTINUE and the tail of the stream. *)
PartialResync(c) ==
  LET req == Head(net[c].up)
      S   == [TakeRequest(Now, c) EXCEPT !.cl[c].st = "online", !.cl[c].onack = FALSE]
  IN  /\ req[2] = m.runid
      /\ StillHeld(bl, req[3])
      /\ Become(Sent(S, c, <<Continue>> \o addReplyReplicationBacklog(bl, req[3])))
      /\ UNCHANGED <<bl, env>>

(* PSYNC, second case: the client waits for a BGSAVE, attaches to the one  *)
(* in progress, or starts one.                                             *)
FullSync(c) ==
  LET req == Head(net[c].up)
      S == [TakeRequest(Now, c) EXCEPT !.cl[c].st = "start"]
      Donors == {d \in Conns : cl[d].st = "end"}
      Attached(d) ==
        SetupForFullResync([S EXCEPT !.cl[c].out = cl[d].out], {c}, cl[d].init)
      Result(R) == Become(R) /\ bl' = IF SlaveList(R) = {c} /\ ~bl.on
                                      THEN createReplicationBacklog(bl) ELSE bl
  IN  /\ ~(req[2] = m.runid /\ StillHeld(bl, req[3]))
      /\ \/ /\ m.child.type = "disk"
            /\ \/ Donors = {} /\ Result(S)
               \/ \E d \in Donors :   \* the first of the list
                    Result(IF Capa(S, d) => Capa(S, c) THEN Attached(d) ELSE S)
            /\ UNCHANGED env
         \/ /\ m.child.type = "socket"
            /\ Result(S)
            /\ UNCHANGED env
         \/ /\ m.child.type = "none"
            /\ SocketTarget(Capa(S, c)) \/ m.aof
            /\ Result(S)
            /\ UNCHANGED env
         \/ /\ m.child.type = "none"
            /\ ~SocketTarget(Capa(S, c)) /\ ~m.aof
            /\ \E R \in startBgsaveForReplication(S, Capa(S, c)) :
                 Result(R) /\ ChargeFailure(R.m.child.type = "none")

syncCommand(c) ==
  /\ cl[c].st = "conn"
  /\ net[c].up # <<>> /\ Kind(Head(net[c].up)) = "psync"
  /\ PartialResync(c) \/ FullSync(c)
  /\ UNCHANGED <<sl, wait>>

(* putSlaveOnline: what accumulated in the output buffer is written. *)
putSlaveOnline(S, c) ==
  Sent([S EXCEPT !.cl[c].st = "online", !.cl[c].onack = FALSE,
                 !.cl[c].out = <<>>, !.cl[c].snap = <<>>],
       c, S.cl[c].out)

(* Mutant: an acknowledgement that ends one byte short is counted. *)
AckedOneShort(S, offset) ==
  {c \in Conns : S.cl[c].st = "online" /\ S.cl[c].ack + 1 >= offset}

(* replicationCountAcksByOffset *)
Acked(S, offset) ==
  {c \in Conns : S.cl[c].st = "online" /\ S.cl[c].ack >= offset}

(* processClientsWaitingReplicas, called by beforeSleep. *)
ServeWait(S) ==
  wait' = IF wait.st = "blocked" /\ Cardinality(Acked(S, wait.woff)) >= wait.n
          THEN [wait EXCEPT !.st = "replied", !.by = Acked(S, wait.woff)]
          ELSE wait

(* Mutant: the slave is never really put online after a socket transfer.   *)
replconfAckNotOnline(c) ==
  LET offset == Head(net[c].up)[2]
      S == TakeRequest(Now, c)
      R == [S EXCEPT !.cl[c].ack = IF offset > @ THEN offset ELSE @]
  IN  /\ cl[c].st \notin {"closed", "dropped"}
      /\ net[c].up # <<>> /\ Kind(Head(net[c].up)) = "ack"
      /\ IF c \in SlaveList(Now) THEN Become(R) /\ ServeWait(R)
         ELSE Become(S) /\ UNCHANGED wait
      /\ UNCHANGED <<bl, sl, env>>

(* REPLCONF ACK *)
replconfAck(c) ==
  LET offset == Head(net[c].up)[2]
      S == TakeRequest(Now, c)
      R == [S EXCEPT !.cl[c].ack = IF offset > @ THEN offset ELSE @]
      T == IF cl[c].onack /\ cl[c].st = "online" THEN putSlaveOnline(R, c) ELSE R
  IN  /\ cl[c].st \notin {"closed", "dropped"}
      /\ net[c].up # <<>> /\ Kind(Head(net[c].up)) = "ack"
      /\ IF c \in SlaveList(Now) THEN Become(T) /\ ServeWait(T)
         ELSE Become(S) /\ UNCHANGED wait
      /\ UNCHANGED <<bl, sl, env>>

(* WAIT n: reply at once, or block and have beforeSleep ask the slaves for *)
(* an acknowledgement.                                                     *)
waitCommand(n) ==
  /\ env.waits > 0 /\ Spend("waits")
  /\ wait.st # "blocked" /\ wait.id # 0
  /\ LET by == Acked(Now, wait.woff)
     IN  \/ /\ Cardinality(by) >= n
            /\ wait' = [wait EXCEPT !.st = "replied", !.n = n, !.by = by]
            /\ UNCHANGED <<bl, m, cl, net>>
         \/ /\ Cardinality(by) < n
            /\ wait' = [wait EXCEPT !.st = "blocked", !.n = n, !.by = {}]
            /\ replicationFeedSlaves(Now, m.slaveseldb, GetAckUnits)
  /\ UNCHANGED sl

(* The timeout of a blocked WAIT: the reply is the count so far. *)
WaitTimeout ==
  /\ wait.st = "blocked"
  /\ wait' = [wait EXCEPT !.st = "replied", !.by = Acked(Now, wait.woff)]
  /\ UNCHANGED <<bl, m, cl, net, sl, env>>

(* BGSAVE from a client or from a save point: not one for the slaves. *)
UserBgsave ==
  /\ env.bgsaves > 0 /\ Spend("bgsaves")
  /\ m.child.type = "none" /\ ~m.aof
  /\ m' = [m EXCEPT !.child = [NoChild EXCEPT !.type = "disk", !.snap = m.data]]
  /\ UNCHANGED <<bl, cl, net, sl, wait>>

AofChildDone ==
  /\ m.aof
  /\ m' = [m EXCEPT !.aof = FALSE]
  /\ UNCHANGED <<bl, cl, net, sl, wait, env>>

(* rdbSaveToSlavesSockets, the child: it writes the payload to its copies  *)
(* of the sockets, whether or not the parent has closed its own.           *)
ChildStreams ==
  /\ m.child.type = "socket" /\ ~m.child.sent
  /\ m' = [m EXCEPT !.child.sent = TRUE]
  /\ net' = [c \in Conns |->
               IF c \in m.child.fds /\ cl[c].open
               THEN [net[c] EXCEPT !.wire = Append(@, Rdb(m.child.snap))] ELSE net[c]]
  /\ UNCHANGED <<bl, cl, sl, wait, env>>

(* updateSlavesWaitingBgsave, when every slave that cannot continue has    *)
(* been freed: the others are sent the file, or wait for an ACK after a    *)
(* transfer by the child; slaves that came too late get a new BGSAVE.      *)
updateSlavesWaitingBgsave(S, type) ==
  LET R == [S EXCEPT !.m.child = NoChild, !.cl = [c \in Conns |->
              CASE S.cl[c].st = "end" /\ type = "socket" ->
                     [S.cl[c] EXCEPT !.st = "online", !.onack = TRUE]
                [] S.cl[c].st = "end" /\ type = "disk" ->
                     [S.cl[c] EXCEPT !.st = "bulk", !.snap = S.m.child.snap]
                [] OTHER -> S.cl[c]]]
      mincapa == \A c \in Waiting(R) : Capa(R, c)
  IN  IF Waiting(R) = {} THEN {R} ELSE startBgsaveForReplication(R, mincapa)

(* The slaves whose payload was being saved, and those of them for whom    *)
(* nothing has gone wrong: a child that writes to the sockets answers only *)
(* for the ones it was started for.                                        *)
WaitingEnd == {c \in Conns : cl[c].st = "end"}
MayContinue == IF m.child.type = "socket" THEN WaitingEnd \cap m.child.fds ELSE WaitingEnd

(* backgroundSaveDoneHandlerDisk and backgroundSaveDoneHandlerSocket: the  *)
(* slaves of `ok' can continue.  The save may have failed for all; a       *)
(* transfer by the child may have failed for some; and open or fstat of    *)
(* the file may fail for some of those it is to be sent to.                *)
BgsaveDone ==
  /\ m.child.type # "none"
  /\ \E ok \in SUBSET MayContinue :
       /\ ok # {} /\ m.child.type = "socket" => m.child.sent
       /\ \E R \in updateSlavesWaitingBgsave(Freed(Now, WaitingEnd \ ok), m.child.type) :
            /\ Become(R)
            /\ LET spent == (IF ok # MayContinue THEN 1 ELSE 0)
                    + (IF \E c \in Conns : R.cl[c].st = "dropped" /\ cl[c].st # "dropped"
                       THEN 1 ELSE 0)
               IN  env.fails >= spent /\ env' = [env EXCEPT !.fails = @ - spent]
  /\ UNCHANGED <<bl, sl, wait>>

(* sendBulkToSlave, from the preamble to the last byte of the file. *)
sendBulkToSlave(c) ==
  /\ cl[c].st = "bulk"
  /\ Become(putSlaveOnline(Sent(Now, c, <<Rdb(cl[c].snap)>>), c))
  /\ UNCHANGED <<bl, sl, wait, env>>

(* replicationCron: start a BGSAVE for the slaves that wait for one. *)
CronBgsave ==
  /\ m.child.type = "none" /\ ~m.aof
  /\ Waiting(Now) # {}
  /\ \E R \in startBgsaveForReplication(Now, \A c \in Waiting(Now) : Capa(Now, c)) :
       Become(R) /\ ChargeFailure(R.m.child.type = "none")
  /\ UNCHANGED <<bl, sl, wait>>

(* Mutant: only the slaves that are online keep the backlog alive. *)
CronFreeBacklogNoneOnline ==
  /\ bl.on /\ \A c \in Conns : cl[c].st # "online"
  /\ bl' = freeReplicationBacklog(bl)
  /\ UNCHANGED <<m, cl, net, sl, wait, env>>

(* replicationCron: no slaves for repl-backlog-ttl seconds. *)
CronFreeBacklog ==
  /\ bl.on /\ SlaveList(Now) = {}
  /\ bl' = freeReplicationBacklog(bl)
  /\ UNCHANGED <<m, cl, net, sl, wait, env>>

(* CONFIG SET repl-backlog-size *)
ConfigSetBacklog(size) ==
  /\ env.resizes > 0 /\ Spend("resizes")
  /\ size # bl.size
  /\ bl' = resizeReplicationBacklog(bl, size)
  /\ UNCHANGED <<m, cl, net, sl, wait>>

(* The master reads the end of file of a connection the slave has closed,  *)
(* or drops it for a timeout or an output buffer limit.                    *)
MasterReadsEof(c) ==
  /\ cl[c].st # "closed" /\ ~cl[c].open
  /\ Become(Freed(Now, {c}))
  /\ UNCHANGED <<bl, sl, wait, env>>

MasterDrops(c) ==
  /\ env.breaks > 0 /\ Spend("breaks")
  /\ cl[c].st # "closed" /\ cl[c].open
  /\ Become(Freed(Now, {c}))
  /\ UNCHANGED <<bl, sl, wait>>

(* The master is restarted with what it had saved: a new run id, no        *)
(* clients, no backlog, offset 0.                                          *)
MasterRestarts ==
  /\ env.restarts > 0 /\ Spend("restarts")
  /\ \E n \in 0 .. Len(m.data) :
       Become([Freed(Now, Conns) EXCEPT
                 !.m = [m EXCEPT !.runid = @ + 1, !.data = SubSeq(@, 1, n),
                                 !.slaveseldb = -1, !.child = NoChild, !.aof = FALSE]])
  /\ bl' = NoBacklog(env.size)
  /\ wait' = IdleWait
  /\ UNCHANGED sl

-----------------------------------------------------------------------------
(*                                 Slave                                   *)

FreeConns ==
  {c \in Conns : cl[c].st = "closed" /\ ~cl[c].open /\ c \notin m.child.fds}

(* Connection, handshake and PSYNC: nothing but the connection changes     *)
(* until the master gets the request.                                      *)
SlaveConnects(s, c) ==
  /\ sl[s].st = "connect" /\ s \in env.slaves
  /\ c \in FreeConns /\ \A d \in FreeConns : c <= d
  /\ sl' = [sl EXCEPT ![s].st = "psync", ![s].conn = c, ![s].init = -1]
  /\ cl' = [cl EXCEPT ![c] = [ClosedClient EXCEPT !.owner = s, !.st = "conn",
                                                 !.open = TRUE]]
  /\ net' = [net EXCEPT ![c] =
               [wire |-> <<>>,
                up |-> <<IF sl[s].mc = "cached"
                         THEN Psync(sl[s].runid, sl[s].reploff + 1)
                         ELSE Psync(0, -1)>>]]
  /\ UNCHANGED <<bl, m, wait, env>>

Ids(data) == {data[i][1] : i \in DOMAIN data}

(* Mutant: a resurrected master stays the cached one as well. *)
ResurrectedKeepsCached(slave) == [slave EXCEPT !.st = "connected"]

(* replicationResurrectCachedMaster *)
Resurrected(slave) == [slave EXCEPT !.st = "connected", !.mc = "master"]

(* slaveTryPartialResynchronization, the reading half: +FULLRESYNC drops   *)
(* the cached master, +CONTINUE makes it the master again.                 *)
PsyncReply(slave, reply) ==
  IF Kind(reply) = "fullresync"
  THEN [slave EXCEPT !.st = "transfer", !.mc = "none", !.runid = reply[2],
                     !.init = reply[3], !.reploff = 0, !.seldb = 0, !.query = <<>>]
  ELSE Resurrected(slave)

(* readSyncBulkPayload and replicationCreateMasterClient *)
Loaded(slave, data) ==
  [slave EXCEPT !.st = "connected", !.mc = "master", !.data = data,
                !.seen = @ \cup Ids(data), !.reploff = slave.init]

(* readQueryFromClient on the master's client: what was read counts at     *)
(* once, a command is executed when it is complete.                        *)
Executed(slave, unit) ==
  LET read == [slave EXCEPT !.reploff = @ + 1]
  IN  CASE Kind(unit) = "select" -> [read EXCEPT !.seldb = unit[2]]
        [] Kind(unit) \in {"head", "arg"} -> [read EXCEPT !.query = Append(@, unit)]
        [] Kind(unit) = "body"   ->
             [read EXCEPT !.query = <<>>, !.data = Append(@, <<unit[2], slave.seldb>>),
                          !.seen = @ \cup {unit[2]}]
        [] OTHER                 -> read

Received(slave, msg) ==
  CASE slave.st = "psync"    -> PsyncReply(slave, msg)
    [] slave.st = "transfer" -> Loaded(slave, msg[2])
    [] OTHER                 -> Executed(slave, msg)

(* The slave reads one message; GETACK is answered at once. *)
SlaveReads(s) ==
  LET c == sl[s].conn
      msg == Head(net[c].wire)
      acks == IF Kind(msg) = "getack" /\ cl[c].st # "closed"
              THEN <<AckMsg(sl[s].reploff + 1)>> ELSE <<>>
  IN  /\ sl[s].st # "connect" /\ net[c].wire # <<>>
      /\ sl' = [sl EXCEPT ![s] = Received(@, msg)]
      /\ net' = [net EXCEPT ![c] = [wire |-> Tail(@.wire), up |-> @.up \o acks]]
      /\ UNCHANGED <<bl, m, cl, wait, env>>

(* replicationCron: the periodic acknowledgement.  One that puts a slave   *)
(* online is always sent in the end, of the others a bounded number.       *)
replicationSendAck(s) ==
  LET c == sl[s].conn
  IN  /\ sl[s].st = "connected"
      /\ cl[c].st # "closed"
      /\ net[c].up = <<>>   \* the next one is sent when this one was read
      /\ IF cl[c].onack THEN UNCHANGED env ELSE env.acks > 0 /\ Spend("acks")
      /\ net' = [net EXCEPT ![c].up = Append(@, AckMsg(sl[s].reploff))]
      /\ UNCHANGED <<bl, m, cl, sl, wait>>

(* The slave gives its connection up.  A connected master is cached with   *)
(* its offset, its database and a half-read command.                       *)
Disconnected(s) ==
  LET c == sl[s].conn
  IN  /\ sl' = [sl EXCEPT ![s].st = "connect", ![s].conn = NoConn, ![s].init = 0,
                          ![s].mc = IF @ = "master" THEN "cached" ELSE @,
                          ![s].runid = IF sl[s].mc = "none" THEN 0 ELSE @]
      /\ cl' = [cl EXCEPT ![c] = IF @.st = "closed" THEN ClosedClient
                                 ELSE [@ EXCEPT !.open = FALSE]]
      /\ net' = [net EXCEPT ![c].wire = <<>>]

(* The master has closed the connection, or left it without an answer and  *)
(* repl-timeout has passed.                                                *)
SlaveReadsEof(s) ==
  LET c == sl[s].conn
  IN  /\ sl[s].st # "connect"
      /\ cl[c].st \in {"closed", "dropped"} /\ net[c].wire = <<>> /\ c \notin m.child.fds
      /\ Disconnected(s)
      /\ UNCHANGED <<bl, m, wait, env>>

SlaveDrops(s) ==
  /\ env.breaks > 0 /\ Spend("breaks")
  /\ sl[s].st # "connect"
  /\ Disconnected(s)
  /\ UNCHANGED <<bl, m, wait>>

-----------------------------------------------------------------------------
MasterStep ==
  \/ \E c \in Conns : \/ syncCommand(c) \/ replconfAck(c)
                      \/ sendBulkToSlave(c) \/ MasterReadsEof(c)
  \/ AofChildDone \/ ChildStreams \/ BgsaveDone \/ CronBgsave

SlaveStep ==
  \E s \in Slaves : \/ \E c \in Conns : SlaveConnects(s, c)
                    \/ SlaveReads(s) \/ replicationSendAck(s) \/ SlaveReadsEof(s)

Disturbance ==
  \/ \E d \in Dbs : Write(d)
  \/ \E n \in 1 .. Cardinality(Slaves) : waitCommand(n)
  \/ \E size \in Sizes : ConfigSetBacklog(size)
  \/ \E c \in Conns : MasterDrops(c)
  \/ \E s \in Slaves : SlaveDrops(s)
  \/ PingSlaves \/ WaitTimeout \/ UserBgsave \/ CronFreeBacklog \/ MasterRestarts

Next == MasterStep \/ SlaveStep \/ Disturbance

Spec == Init /\ [][Next]_vars

(* The event loops run, children terminate, cron functions are called and  *)
(* dead connections are noticed.  Every behaviour of the model has finitely *)
(* many disturbances, so fairness of the two disjunctions is enough.       *)
FairSpec == Spec /\ WF_vars(MasterStep) /\ WF_vars(SlaveStep)

-----------------------------------------------------------------------------
(*                               Properties                                *)

DataOK(data) == \A i \in DOMAIN data : data[i][1] \in Nat /\ data[i][2] \in Dbs

(* The variables have the shape the code gives them; a client that the     *)
(* master has closed holds no state, a slave has a connection exactly when *)
(* it is not about to connect, and a master client is cached only then.    *)
TypeOK ==
  /\ env \in Environments
  /\ bl.on \in BOOLEAN /\ bl.size \in Sizes /\ bl.offset \in Nat
  /\ DOMAIN bl.buf = 0 .. bl.size - 1
  /\ bl.on => bl.idx \in 0 .. bl.size - 1 /\ bl.histlen \in 0 .. bl.size
  /\ m.slaveseldb \in Dbs \cup {-1} /\ DataOK(m.data)
  /\ m.child.type \in {"none", "disk", "socket"} /\ m.child.fds \subseteq Conns
  /\ \A c \in Conns :
       /\ cl[c].owner \in Slaves \cup {Nobody}
       /\ cl[c].st \in {"closed", "conn", "start", "end", "bulk", "online", "dropped"}
       /\ cl[c].st = "closed" => cl[c].out = <<>> /\ net[c].up = <<>>
       /\ cl[c].open <=> \E s \in Slaves : sl[s].conn = c /\ cl[c].owner = s
  /\ \A s \in Slaves :
       /\ sl[s].st \in {"connect", "psync", "transfer", "connected"}
       /\ sl[s].conn = NoConn <=> sl[s].st = "connect"
       /\ sl[s].mc \in {"none", "master", "cached"}
       /\ sl[s].mc = "master" <=> sl[s].st = "connected"
       /\ DataOK(sl[s].data)

(* What is still to reach the slave on connection c: the bytes on the      *)
(* wire, the snapshot if it has not been sent, the output buffer.          *)
InFlight(c) ==
  LET unsent == CASE cl[c].st = "bulk" -> <<Rdb(cl[c].snap)>>
                  [] cl[c].st = "end" /\ ~m.child.sent -> <<Rdb(m.child.snap)>>
                  [] OTHER -> <<>>
  IN  net[c].wire \o unsent \o cl[c].out

(* A slave on a live connection converges to the master's dataset: when it *)
(* has received what is in flight it holds the master's writes, each one   *)
(* in its database and in the same order, and is at master_repl_offset.    *)
(* This is what the check against the backlog, the output buffer copied    *)
(* for an attached slave, the SELECT forced by slaveseldb = -1, the half-  *)
(* read command kept in the cached master and the skipped offset of a new  *)
(* backlog all serve.                                                      *)
InSync ==
  \A s \in Slaves :
    LET c     == sl[s].conn
        q     == InFlight(c)
        after[n \in 0 .. Len(q)] ==
          IF n = 0 THEN sl[s] ELSE Received(after[n - 1], q[n])
        final == after[Len(q)]
    IN  sl[s].st # "connect" /\ cl[c].st \in {"end", "bulk", "online"}
          => final.data = m.data /\ final.reploff = bl.offset

(* The circular buffer holds the last histlen units of the stream,         *)
(* wherever feedReplicationBacklog has wrapped its index.                  *)
BacklogHoldsTail == BacklogOK(bl)

(* Whatever offset the master accepts for a partial resynchronisation, it  *)
(* sends exactly the bytes of the stream from that offset to its end.      *)
PsyncSendsMissing ==
  \A offset \in bl.off .. bl.off + bl.histlen :
    StillHeld(bl, offset)
      => addReplyReplicationBacklog(bl, offset) = SubSeq(bl.stream, offset, bl.offset)

(* The assertions of replicationFeedSlaves and freeReplicationBacklog:     *)
(* there are no slaves without a backlog.                                  *)
SlavesHaveBacklog == SlaveList(Now) # {} => bl.on

(* WAIT counts a slave only if it has executed the client's last write,    *)
(* provided the write was given an offset.                                 *)
WaitCountsHolders ==
  [][wait'.st = "replied" /\ wait.st # "replied" /\ wait.woff > 0
       => \A c \in wait'.by : wait.id \in sl[cl[c].owner].seen]_vars

(* What the description of WAIT in replication.c says: the reply is the    *)
(* number of replicas that processed the query.  A replica is counted once *)
(* for every connection the master still has of it, and one that has not   *)
(* acknowledged anything is counted for a write that was given offset 0.   *)
WaitCountsReplicas ==
  [][wait'.st = "replied" /\ wait.st # "replied"
       => Cardinality(wait'.by)
            <= Cardinality({s \in Slaves : wait.id \in sl[s].seen})]_vars

(* Once the disturbances stop, every slave ends connected and with the     *)
(* master's dataset: no slave is left waiting for a BGSAVE nobody starts,  *)
(* for an ACK nobody sends or on a connection nobody serves.               *)
Converges ==
  <>[](\A s \in env.slaves : sl[s].st = "connected" /\ sl[s].data = m.data)
=============================================================================
