------------------------------ MODULE Cluster ------------------------------
(***************************************************************************)
(* Epochs, hash slots and failover elections of Redis Cluster (cluster.c). *)
(*                                                                         *)
(* Every node keeps its own view of the cluster: who serves each slot, the *)
(* configEpoch and the master it believes each node has.  Views are        *)
(* changed by packets of the cluster bus and by elections; nothing else is *)
(* shared.  A handler runs to its end together with the save that          *)
(* clusterBeforeSleep makes for it: packets it queued leave the node after *)
(* that save, so a crash in between only loses the packet.                 *)
(*                                                                         *)
(* Left to other parts: failure detection (a FAIL flag may be set or clear *)
(* at any time), the handshake (all nodes know each other), slot migration *)
(* and clocks (a timer may expire at any moment).                          *)
(***************************************************************************)
EXTENDS Integers, FiniteSets

CONSTANTS
    Nodes,        \* node names, positive integers: memcmp() orders them
    Slots,        \* hash slots (a range of slots that moves together)
    InitViews,    \* the node tables, one for each node, a run may start with
    Dead,         \* nodes that are down for the whole run
    MayFail,      \* masters that failure detection may flag FAIL, or clear
    Links,        \* pairs <<n, m>> such that n has a link to m
    PingPairs,    \* the links on which n pings m periodically
    MayForce,     \* CLUSTER FAILOVER FORCE may be given
    MaxTakeovers, \* CLUSTER FAILOVER TAKEOVER given at most so many times
    MaxEpoch,     \* bound on currentEpoch
    MayRestart,   \* nodes that may be killed and started again
    MaxCrashes    \* bound on restarts

None == 0

ASSUME ClusterAssumption ==
    /\ Nodes \subseteq Nat \ {0} /\ IsFiniteSet(Nodes)
    /\ Slots \subseteq Nat /\ IsFiniteSet(Slots)
    /\ InitViews \subseteq
         [Nodes -> [cfg : [Nodes -> 0..MaxEpoch],
                    own : [Slots -> Nodes \cup {None}],
                    slaveof : [Nodes -> Nodes \cup {None}]]]
    /\ \A v \in InitViews, n \in Nodes, s \in Slots :
         v[n].own[s] # None => v[n].slaveof[v[n].own[s]] = None
    /\ UNION {Dead, MayFail, MayRestart} \subseteq Nodes
    /\ Links \subseteq Nodes \X Nodes /\ PingPairs \subseteq Links
    /\ MayForce \in BOOLEAN
    /\ MaxTakeovers \in Nat /\ MaxEpoch \in Nat /\ MaxCrashes \in Nat

VARIABLES
    cur,      \* server.cluster->currentEpoch of each node
    lastVote, \* server.cluster->lastVoteEpoch of each node
    table,    \* view of each node: cfg (configEpochs), own (slots), slaveof
    auth,     \* failover_auth_epoch, _count and the phase of the election
    disk,     \* nodes.conf of each node: cur, lastVote, table
    net,      \* packets in flight
    used,     \* restarts and takeovers so far
    voted,    \* history: <<voter, epoch, candidate>> of every vote granted
    got,      \* history: <<voter, epoch>> counted since the count was reset
    wins      \* history: elections won

vars == <<cur, lastVote, table, auth, disk, net, used, voted, got, wins>>
history == <<voted, got, wins>>
Alive == Nodes \ Dead
Peers(n) == {m \in Alive \ {n} : <<n, m>> \in Links}
MaxOf(a, b) == IF a > b THEN a ELSE b
-----------------------------------------------------------------------------
(* The node table *)

IsMaster(t, m) == t.slaveof[m] = None
Served(t, m) == {s \in Slots : t.own[s] = m}

\* cluster->size: masters that serve at least one slot.
Size(t) == Cardinality({m \in Nodes : IsMaster(t, m) /\ Served(t, m) # {}})

\* The node whose slots and configEpoch the packets of n carry.
HdrMaster(t, n) == IF IsMaster(t, n) THEN n ELSE t.slaveof[n]

\* clusterBuildMessageHdr(), x is the part after the header.
Hdr(type, n, d, c, t, x) ==
    [type |-> type, src |-> n, dst |-> d, cur |-> c,
     cfg |-> t.cfg[HdrMaster(t, n)], slots |-> Served(t, HdrMaster(t, n)),
     slaveof |-> t.slaveof[n], x |-> x]

Unicast(h) == {m \in {h} : m.dst \in Peers(m.src)}
Broadcast(type, n, c, t, x) ==
    {Hdr(type, n, d, c, t, x) : d \in Peers(n)}

\* First lines of clusterProcessPacket(): epochs are learnt from any packet.
SeenEpoch(n, h) == MaxOf(cur[n], h.cur)
Learn(t, h) == [t EXCEPT !.cfg[h.src] = MaxOf(@, h.cfg)]

SetNodeAsMaster(t, m) == [t EXCEPT !.slaveof[m] = None]

\* Mutant: the slots of a node that has become a slave are left with it.
RoleSwitchKeepsSlots(t, h) == [t EXCEPT !.slaveof[h.src] = h.slaveof]

\* Role switch of the sender of a PING or PONG.
RoleSwitch(t, h) ==
    IF h.slaveof = None THEN SetNodeAsMaster(t, h.src)
    ELSE [t EXCEPT !.slaveof[h.src] = h.slaveof,
                   !.own = [s \in Slots |->
                              IF IsMaster(t, h.src) /\ t.own[s] = h.src
                              THEN None ELSE t.own[s]]]

\* Mutant: the epochs are not compared.
UpdateSlotsAnyEpoch(t, me, x, ep, claimed) ==
    LET own == [s \in Slots |-> IF s \in claimed THEN x ELSE t.own[s]]
        curmaster == HdrMaster(t, me)
    IN  IF x = me THEN t
        ELSE [t EXCEPT !.own = own,
                       !.slaveof[me] = IF \A s \in Slots : own[s] # curmaster
                                       THEN x ELSE @]

\* Mutant: only slots without an owner are taken.
UpdateSlotsUnbound(t, me, x, ep, claimed) ==
    [t EXCEPT !.own = [s \in Slots |-> IF s \in claimed /\ t.own[s] = None
                                       THEN x ELSE t.own[s]]]

\* clusterUpdateSlotsConfigWith(): node x claims slots with epoch ep.
UpdateSlots(t, me, x, ep, claimed) ==
    LET curmaster == HdrMaster(t, me)
        taken == {s \in claimed :
                    /\ t.own[s] # x
                    /\ t.own[s] = None \/ t.cfg[t.own[s]] < ep}
        own == [s \in Slots |-> IF s \in taken THEN x ELSE t.own[s]]
        newmaster == \E s \in taken : t.own[s] = curmaster
        bare == \A s \in Slots : own[s] # curmaster
    IN  IF x = me THEN t
        ELSE [t EXCEPT !.own = own,
                       !.slaveof[me] = IF newmaster /\ bare THEN x ELSE @]
-----------------------------------------------------------------------------
TypeOK ==
    LET Epochs == 0..MaxEpoch
        Tables == [cfg : [Nodes -> Epochs], own : [Slots -> Nodes \cup {None}],
                   slaveof : [Nodes -> Nodes \cup {None}]]
    IN  /\ cur \in [Nodes -> Epochs]
        /\ lastVote \in [Nodes -> Epochs]
        /\ \A n \in Nodes : table[n] \in Tables
        /\ \A n \in Nodes : /\ disk[n].cur \in Epochs
                            /\ disk[n].lastVote \in Epochs
                            /\ disk[n].table \in Tables
        /\ auth \in [Nodes -> [epoch : Epochs, count : 0..2 * Cardinality(Nodes),
                               phase : {"none", "delay", "sent"}]]
        /\ \A m \in net : /\ m.type \in {"ping", "pong", "req", "ack", "update"}
                          /\ m.src \in Nodes /\ m.dst \in Alive
                          /\ m.cur \in Epochs /\ m.cfg \in Epochs
                          /\ m.slots \subseteq Slots
                          /\ m.slaveof \in Nodes \cup {None}
        /\ voted \subseteq Nodes \X Epochs \X Nodes
        /\ got \in [Nodes -> SUBSET (Nodes \X Epochs)]

NoElection == [epoch |-> 0, count |-> 0, phase |-> "none"]

\* A new cluster whose nodes have met and whose slots are assigned, though a
\* node may not have heard of all of them; epochs are 0 or were given with
\* CLUSTER SET-CONFIG-EPOCH.
Init ==
    /\ \E v \in InitViews, c \in 0..MaxEpoch :
         /\ \A n, m \in Nodes : v[n].cfg[m] <= c
         /\ \E n, m \in Nodes : v[n].cfg[m] = c
         /\ cur = [n \in Nodes |-> c]
         /\ table = v
         /\ disk = [n \in Nodes |->
                     [cur |-> c, lastVote |-> 0, table |-> v[n]]]
    /\ lastVote = [n \in Nodes |-> 0]
    /\ auth = [n \in Nodes |-> NoElection]
    /\ net = {}
    /\ used = [crashes |-> 0, takeovers |-> 0]
    /\ voted = {}
    /\ got = [n \in Nodes |-> {}]
    /\ wins = {}
-----------------------------------------------------------------------------
(* Persistence *)

\* clusterSaveConfig(): everything but the state of the election.
Save(n) == disk' = [disk EXCEPT ![n] = [cur |-> cur'[n],
                                        lastVote |-> lastVote'[n],
                                        table |-> table'[n]]]

\* A handler saves when it changed the table (CLUSTER_TODO_SAVE_CONFIG).
SaveIfChanged(n) ==
    IF table'[n] # table[n] THEN Save(n) ELSE UNCHANGED disk

\* CLUSTER SAVECONFIG.
SaveConfig(n) ==
    /\ n \in MayRestart /\ used.crashes < MaxCrashes
    /\ UNCHANGED <<cur, lastVote, table, auth, net, used, history>>
    /\ Save(n)

\* Mutant: currentEpoch is not restored.
RestartNoEpoch(n) ==
    /\ n \in MayRestart /\ used.crashes < MaxCrashes
    /\ cur' = [cur EXCEPT ![n] = 0]
    /\ lastVote' = [lastVote EXCEPT ![n] = disk[n].lastVote]
    /\ table' = [table EXCEPT ![n] = disk[n].table]
    /\ auth' = [auth EXCEPT ![n] = NoElection]
    /\ got' = [got EXCEPT ![n] = {}]
    /\ used' = [used EXCEPT !.crashes = @ + 1]
    /\ UNCHANGED <<disk, net, voted, wins>>

\* The process is killed and started again: clusterLoadConfig() reads the
\* file and raises currentEpoch to the greatest configEpoch in it.
Restart(n) ==
    /\ n \in MayRestart /\ used.crashes < MaxCrashes
    /\ LET c == disk[n].table.cfg
           top == CHOOSE e \in {c[m] : m \in Nodes} : \A m \in Nodes : c[m] <= e
       IN  cur' = [cur EXCEPT ![n] = MaxOf(disk[n].cur, top)]
    /\ lastVote' = [lastVote EXCEPT ![n] = disk[n].lastVote]
    /\ table' = [table EXCEPT ![n] = disk[n].table]
    /\ auth' = [auth EXCEPT ![n] = NoElection]
    /\ got' = [got EXCEPT ![n] = {}]
    /\ used' = [used EXCEPT !.crashes = @ + 1]
    /\ UNCHANGED <<disk, net, voted, wins>>
-----------------------------------------------------------------------------
(* Election, candidate side: clusterHandleSlaveFailover() *)

\* Preconditions: n is a slave whose master serves slots and is flagged FAIL,
\* or a failover was forced.
MayFailover(n) ==
    /\ n \in Alive
    /\ ~IsMaster(table[n], n)
    /\ table[n].slaveof[n] \in MayFail \/ MayForce
    /\ Served(table[n], table[n].slaveof[n]) # {}

\* auth_age > auth_retry_time: a new election is set up, its start delayed.
\* Requests and votes of the election before may still be under way, or lost,
\* and failover_auth_epoch stays that of the election before.  The offset is
\* told to the other slaves of the master with a PONG.
ScheduleElection(n) ==
    /\ MayFailover(n)
    /\ auth' = [auth EXCEPT ![n].count = 0, ![n].phase = "delay"]
    /\ got' = [got EXCEPT ![n] = {}]
    /\ LET siblings == {m \in Peers(n) :
                           table[n].slaveof[m] = table[n].slaveof[n]}
       IN  net' = net \cup {Hdr("pong", n, m, cur[n], table[n], None) :
                               m \in siblings}
    /\ UNCHANGED <<cur, lastVote, table, disk, used, voted, wins>>

\* The delay is over: ask for votes in a new epoch.
RequestVotes(n) ==
    /\ MayFailover(n)
    /\ auth[n].phase = "delay"
    /\ cur[n] < MaxEpoch
    /\ cur' = [cur EXCEPT ![n] = @ + 1]
    /\ auth' = [auth EXCEPT ![n].epoch = cur[n] + 1, ![n].phase = "sent"]
    /\ \E force \in IF MayForce THEN BOOLEAN ELSE {FALSE} :
         net' = net \cup Broadcast("req", n, cur[n] + 1, table[n], force)
    /\ UNCHANGED <<lastVote, table, used, history>>
    /\ Save(n)

\* clusterFailoverReplaceYourMaster(): n takes the slots of its master.
ReplaceYourMaster(t, n) ==
    [t EXCEPT !.slaveof[n] = None,
              !.own = [s \in Slots |-> IF t.own[s] = t.slaveof[n]
                                       THEN n ELSE t.own[s]]]

\* Mutants: half of the masters is enough; the epoch is not that of the vote.
WinElectionHalf(n) ==
    /\ MayFailover(n)
    /\ auth[n].phase = "sent"
    /\ auth[n].count >= Size(table[n]) \div 2
    /\ LET t == [table[n] EXCEPT !.cfg[n] = MaxOf(@, auth[n].epoch)]
       IN  table' = [table EXCEPT ![n] = ReplaceYourMaster(t, n)]
    /\ net' = net \cup Broadcast("pong", n, cur[n], table'[n], None)
    /\ wins' = wins \cup {[node |-> n, epoch |-> auth[n].epoch,
                           votes |-> got[n], size |-> Size(table[n])]}
    /\ UNCHANGED <<cur, lastVote, auth, used, voted, got>>
    /\ Save(n)

WinElectionNextEpoch(n) ==
    /\ MayFailover(n)
    /\ auth[n].phase = "sent"
    /\ auth[n].count >= (Size(table[n]) \div 2) + 1
    /\ LET t == [table[n] EXCEPT !.cfg[n] = MaxOf(@, auth[n].epoch + 1)]
       IN  table' = [table EXCEPT ![n] = ReplaceYourMaster(t, n)]
    /\ net' = net \cup Broadcast("pong", n, cur[n], table'[n], None)
    /\ UNCHANGED <<cur, lastVote, auth, used, history>>
    /\ Save(n)

\* The quorum is reached.
WinElection(n) ==
    /\ MayFailover(n)
    /\ auth[n].phase = "sent"
    /\ auth[n].count >= (Size(table[n]) \div 2) + 1
    /\ LET t == [table[n] EXCEPT !.cfg[n] = MaxOf(@, auth[n].epoch)]
       IN  table' = [table EXCEPT ![n] = ReplaceYourMaster(t, n)]
    /\ net' = net \cup Broadcast("pong", n, cur[n], table'[n], None)
    /\ wins' = wins \cup {[node |-> n, epoch |-> auth[n].epoch,
                           votes |-> got[n], size |-> Size(table[n])]}
    /\ UNCHANGED <<cur, lastVote, auth, used, voted, got>>
    /\ Save(n)

\* CLUSTER FAILOVER TAKEOVER: clusterBumpConfigEpochWithoutConsensus(), then
\* the slots are taken without an election.
Takeover(n) ==
    /\ n \in Alive
    /\ used.takeovers < MaxTakeovers
    /\ ~IsMaster(table[n], n)
    /\ cur[n] < MaxEpoch
    /\ LET t == table[n]
           greatest == /\ t.cfg[n] # 0
                       /\ t.cfg[n] >= cur[n]
                       /\ \A m \in Nodes : t.cfg[m] <= t.cfg[n]
           c == IF greatest THEN cur[n] ELSE cur[n] + 1
           e == IF greatest THEN t.cfg[n] ELSE c
       IN  /\ cur' = [cur EXCEPT ![n] = c]
           /\ table' = [table EXCEPT ![n] =
                          ReplaceYourMaster([t EXCEPT !.cfg[n] = e], n)]
           /\ net' = net \cup Broadcast("pong", n, c, table'[n], None)
    /\ used' = [used EXCEPT !.takeovers = @ + 1]
    /\ UNCHANGED <<lastVote, auth, history>>
    /\ Save(n)
-----------------------------------------------------------------------------
(* Packets: clusterProcessPacket() *)

\* Mutant: lastVoteEpoch is not looked at.
GrantsVoteAgain(n, c, t, h) ==
    /\ IsMaster(t, n) /\ Served(t, n) # {}
    /\ h.cur >= c
    /\ ~IsMaster(t, h.src)
    /\ \A s \in h.slots : t.own[s] # None => t.cfg[t.own[s]] <= h.cfg

\* clusterSendFailoverAuthIfNeeded() after the epochs have been learnt.  It
\* may refuse for two more reasons, which depend on clocks and on failure
\* detection: voted_time is too recent, or the FAIL flag is not set now.
GrantsVote(n, c, t, h) ==
    /\ IsMaster(t, n) /\ Served(t, n) # {}
    /\ h.cur >= c
    /\ lastVote[n] # c
    /\ ~IsMaster(t, h.src)
    /\ ~h.x => t.slaveof[h.src] \in MayFail \ {n}
    /\ \A s \in h.slots : t.own[s] # None => t.cfg[t.own[s]] <= h.cfg

\* FAILOVER_AUTH_REQUEST.  The vote itself does not ask for a save.
ReceiveRequest(n, h) ==
    LET c == SeenEpoch(n, h)
        t == Learn(table[n], h)
    IN  /\ h.type = "req"
        /\ cur' = [cur EXCEPT ![n] = c]
        /\ table' = [table EXCEPT ![n] = t]
        /\ \/ /\ GrantsVote(n, c, t, h)
              /\ lastVote' = [lastVote EXCEPT ![n] = c]
              /\ voted' = voted \cup {<<n, c, h.src>>}
              /\ net' = (net \ {h}) \cup Unicast(Hdr("ack", n, h.src, c, t, None))
           \/ /\ net' = net \ {h}
              /\ UNCHANGED <<lastVote, voted>>
        /\ UNCHANGED <<auth, used, got, wins>>
        /\ SaveIfChanged(n)

\* Mutant: the epoch of the voter is not looked at.
ReceiveVoteAnyEpoch(n, h) ==
    LET t == Learn(table[n], h)
        counts == IsMaster(t, h.src) /\ Served(t, h.src) # {}
    IN  /\ h.type = "ack"
        /\ cur' = [cur EXCEPT ![n] = SeenEpoch(n, h)]
        /\ table' = [table EXCEPT ![n] = t]
        /\ auth' = [auth EXCEPT ![n].count = IF counts THEN @ + 1 ELSE @]
        /\ got' = [got EXCEPT ![n] =
                     IF counts THEN @ \cup {<<h.src, h.cur>>} ELSE @]
        /\ net' = net \ {h}
        /\ UNCHANGED <<lastVote, used, voted, wins>>
        /\ SaveIfChanged(n)

\* FAILOVER_AUTH_ACK.  A vote is counted whatever the phase of the election;
\* the epoch it is compared with is that of the last request.
ReceiveVote(n, h) ==
    LET t == Learn(table[n], h)
        counts == /\ IsMaster(t, h.src) /\ Served(t, h.src) # {}
                  /\ h.cur >= auth[n].epoch
    IN  /\ h.type = "ack"
        /\ cur' = [cur EXCEPT ![n] = SeenEpoch(n, h)]
        /\ table' = [table EXCEPT ![n] = t]
        /\ auth' = [auth EXCEPT ![n].count = IF counts THEN @ + 1 ELSE @]
        /\ got' = [got EXCEPT ![n] = IF counts THEN @ \cup {<<h.src, h.cur>>} ELSE @]
        /\ net' = net \ {h}
        /\ UNCHANGED <<lastVote, used, voted, wins>>
        /\ SaveIfChanged(n)

\* Owners with a newer configuration of the slots the sender claims; the
\* first one is told to the sender with an UPDATE packet.
Newer(t, h) == {s \in h.slots : /\ t.own[s] \notin {h.src, None}
                                /\ t.cfg[t.own[s]] > h.cfg}

UpdatePackets(n, c, t, h) ==
    UNION {Unicast(Hdr("update", n, h.src, c, t,
         [node |-> t.own[s], cfg |-> t.cfg[t.own[s]],
          slots |-> Served(t, t.own[s])])) :
        s \in {s \in Newer(t, h) : \A r \in Newer(t, h) : s <= r}}

\* Mutant: masters that have no epoch yet are skipped.
CollidesNonZero(n, t, h) ==
    /\ IsMaster(t, n) /\ IsMaster(t, h.src)
    /\ h.cfg = t.cfg[n] /\ t.cfg[h.src] = t.cfg[n] /\ h.cfg # 0
    /\ h.src > n

\* clusterHandleConfigEpochCollision(): the smaller name moves on.
Collides(n, t, h) ==
    /\ IsMaster(t, n) /\ IsMaster(t, h.src)
    /\ h.cfg = t.cfg[n] /\ t.cfg[h.src] = t.cfg[n]
    /\ h.src > n

\* PING and PONG: a PING is answered first, then the configuration is read.
ReceivePing(n, h) ==
    LET c == SeenEpoch(n, h)
        t1 == Learn(table[n], h)
        t2 == RoleSwitch(t1, h)
        dirty == Served(t2, HdrMaster(t2, h.src)) # h.slots
        t3 == IF dirty /\ IsMaster(t2, h.src)
              THEN UpdateSlots(t2, n, h.src, h.cfg, h.slots) ELSE t2
        c2 == IF Collides(n, t3, h) THEN c + 1 ELSE c
        t4 == IF Collides(n, t3, h) THEN [t3 EXCEPT !.cfg[n] = c2] ELSE t3
    IN  /\ h.type \in {"ping", "pong"}
        /\ c2 <= MaxEpoch
        /\ cur' = [cur EXCEPT ![n] = c2]
        /\ table' = [table EXCEPT ![n] = t4]
        /\ net' = (net \ {h})
              \cup (IF h.type = "ping"
                    THEN {Hdr("pong", n, h.src, c, t1, None)} ELSE {})
              \cup (IF dirty THEN UpdatePackets(n, c, t3, h) ELSE {})
        /\ UNCHANGED <<lastVote, auth, used, history>>
        /\ SaveIfChanged(n)

\* UPDATE: configuration of a third node.
ReceiveUpdate(n, h) ==
    LET t1 == Learn(table[n], h)
        t2 == SetNodeAsMaster([t1 EXCEPT !.cfg[h.x.node] = h.x.cfg], h.x.node)
    IN  /\ h.type = "update"
        /\ cur' = [cur EXCEPT ![n] = SeenEpoch(n, h)]
        /\ table' = [table EXCEPT ![n] =
                       IF t1.cfg[h.x.node] >= h.x.cfg THEN t1
                       ELSE UpdateSlots(t2, n, h.x.node, h.x.cfg, h.x.slots)]
        /\ net' = net \ {h}
        /\ UNCHANGED <<lastVote, auth, used, history>>
        /\ SaveIfChanged(n)

\* clusterCron() pings a node that has no ping under way.
SendPing(n, m) ==
    /\ n \in Alive /\ m \in Alive /\ n # m
    /\ ~\E h \in net : \/ h.type = "ping" /\ h.src = n /\ h.dst = m
                       \/ h.type = "pong" /\ h.src = m /\ h.dst = n
    /\ net' = net \cup {Hdr("ping", n, m, cur[n], table[n], None)}
    /\ UNCHANGED <<cur, lastVote, table, auth, disk, used, history>>

Receive(h) ==
    \/ ReceiveRequest(h.dst, h)
    \/ ReceiveVote(h.dst, h)
    \/ ReceivePing(h.dst, h)
    \/ ReceiveUpdate(h.dst, h)

Step(n) ==
    \/ ScheduleElection(n)
    \/ RequestVotes(n)
    \/ WinElection(n)
    \/ Takeover(n)
    \/ SaveConfig(n)
    \/ Restart(n)

Next ==
    \/ \E n \in Alive : Step(n)
    \/ \E h \in net : Receive(h)
    \/ \E p \in PingPairs : SendPing(p[1], p[2])

Spec == Init /\ [][Next]_vars

\* Nodes ping each other for ever and a packet that was sent arrives.
FairSpec ==
    /\ Spec
    /\ \A p \in PingPairs : WF_vars(SendPing(p[1], p[2]))
    /\ \A n, m \in Nodes, type \in {"ping", "pong", "req", "ack", "update"} :
         WF_vars(\E h \in net : /\ h.src = n /\ h.dst = m /\ h.type = type
                               /\ Receive(h))
-----------------------------------------------------------------------------
(* Properties *)

\* A master grants one vote per epoch: lastVoteEpoch is compared with the
\* epoch of the request before clusterSendFailoverAuth() is called.
VoteOncePerEpoch ==
    \A v, w \in voted : v[1] = w[1] /\ v[2] = w[2] => v = w

\* failover_auth_count is the number of votes cast for this slave that it has
\* received since it set up its election, none counted twice.  Before the new
\* request they are votes of the election just held; after it those votes
\* still count, but none that is older (cluster.c:2401).
CountIsVotes ==
    \A n \in Nodes :
        /\ auth[n].count = Cardinality(got[n])
        /\ \A v \in got[n] : <<v[1], v[2], n>> \in voted
        /\ auth[n].phase # "sent" => \A v \in got[n] : v[2] = auth[n].epoch
        /\ \A v, w \in got[n] :
             v[2] # auth[n].epoch /\ w[2] # auth[n].epoch => v[2] = w[2]

\* "It is not possible that different slaves get the same config epoch during
\* a failover election, because the slaves need to get voted by a majority"
\* (cluster.c, clusterHandleConfigEpochCollision).
OneWinnerPerEpoch ==
    \A v, w \in wins : v.epoch = w.epoch => v.node = w.node

Voters(w) == {v[1] : v \in w.votes}
LateVotes(w) == {v \in w.votes : v[2] # w.epoch}

\* What the majority argument really gives: two slaves win the same epoch only
\* if one of them counted a vote of an earlier epoch, or their voters are
\* together more than the masters one of them took for the whole cluster; and
\* never with a vote in common.
WinnersOutnumber ==
    \A v, w \in wins :
        v.epoch = w.epoch /\ v.node # w.node =>
            /\ v.votes \cap w.votes = {}
            /\ \/ LateVotes(v) \cup LateVotes(w) # {}
               \/ Cardinality(Voters(v) \cup Voters(w)) > v.size
               \/ Cardinality(Voters(v) \cup Voters(w)) > w.size

\* currentEpoch bounds every configEpoch a node knows of, its own vote, and
\* what its packets carry.
EpochsOrdered ==
    /\ \A n \in Nodes : /\ lastVote[n] <= cur[n]
                         /\ \A m \in Nodes : table[n].cfg[m] <= cur[n]
    /\ \A h \in net : /\ h.cfg <= h.cur
                      /\ h.type = "update" => h.x.cfg <= h.cur

\* serverAssert(myself->numslots == 0) of clusterSetMaster(), and the same of
\* the other nodes: whatever the order in which claims and role switches are
\* heard of, no view has a slave that serves a slot.
SlaveServesNothing ==
    \A n, m \in Nodes : ~IsMaster(table[n], m) => Served(table[n], m) = {}

\* A packet rebinds a slot only to a configuration that is newer in the view
\* of the node that reads it, whatever the order packets arrive in.
RebindsToNewer ==
    [][\A n \in Nodes, s \in Slots :
         LET a == table[n].own[s]
             b == table'[n].own[s]
         IN  a # b /\ a # None /\ b \notin {None, n}
                /\ used'.crashes = used.crashes
             => table'[n].cfg[b] > table[n].cfg[a]]_vars

\* Once takeovers stop, every node ends up with the same owner for each slot:
\* PINGs carry the claims, UPDATE packets correct the nodes that lag.
Converges ==
    <>[](\A n, m \in Alive : table[n].own = table[m].own)

\* "we want a system that eventually always ends with different masters having
\* different configuration epochs whatever happened" (cluster.c,
\* clusterHandleConfigEpochCollision).
EpochsDiffer ==
    <>[](\A n, m \in Alive :
            n # m /\ IsMaster(table[n], n) /\ IsMaster(table[m], m)
                => table[n].cfg[n] # table[m].cfg[m])
=============================================================================
