--------------------------- MODULE ClusterProofs ---------------------------
(***************************************************************************)
(* What an election of Redis Cluster guarantees for every number of nodes  *)
(* and slots, whatever the nodes believe about each other and however late *)
(* requests and votes arrive, as long as no master restarts: a master      *)
(* votes once per epoch, a vote counts once and at most one election late, *)
(* and two winners of an epoch had a late vote or too many voters.         *)
(***************************************************************************)
EXTENDS Cluster, FiniteSetTheorems, TLAPS

ElectionTypes ==
    /\ cur \in [Nodes -> Nat]
    /\ lastVote \in [Nodes -> Nat]
    /\ auth \in [Nodes -> [epoch : Nat, count : Nat,
                           phase : {"none", "delay", "sent"}]]
    /\ got \in [Nodes -> SUBSET (Nodes \X Nat)]
    /\ voted \subseteq Nodes \X Nat \X Nodes
    /\ \A h \in net : h.src \in Nodes /\ h.dst \in Nodes /\ h.cur \in Nat
    /\ used.crashes = 0

\* Epochs of a node: it neither voted nor stood for election beyond its own.
EpochsBound ==
    \A n \in Nodes : lastVote[n] <= cur[n] /\ auth[n].epoch <= cur[n]

\* A vote is for the election its candidate was holding, or for an older one.
VotesBound ==
    \A v \in voted : v[2] <= lastVote[v[1]] /\ v[2] <= auth[v[3]].epoch

\* A request is of the election its sender holds, or of an earlier one.
RequestBound(h) ==
    h.type = "req" => h.cur <= auth[h.src].epoch

\* A vote under way was cast and has not been counted.
AckPending(h) ==
    h.type = "ack" =>
        /\ <<h.src, h.cur, h.dst>> \in voted
        /\ <<h.src, h.cur>> \notin got[h.dst]

AcksUnique ==
    \A g, h \in net :
        /\ g.type = "ack" /\ h.type = "ack"
        /\ g.src = h.src /\ g.dst = h.dst /\ g.cur = h.cur
        => g = h

\* CountIsVotes of node n.
CountExact(n) ==
    /\ IsFiniteSet(got[n])
    /\ auth[n].count = Cardinality(got[n])
    /\ \A v \in got[n] : <<v[1], v[2], n>> \in voted
    /\ auth[n].phase # "sent" => \A v \in got[n] : v[2] = auth[n].epoch
    /\ \A v, w \in got[n] :
         v[2] # auth[n].epoch /\ w[2] # auth[n].epoch => v[2] = w[2]

WinJustified(w) ==
    /\ IsFiniteSet(w.votes) /\ w.votes \subseteq Nodes \X Nat
    /\ w.size \in Nat
    /\ \A v \in w.votes : <<v[1], v[2], w.node>> \in voted
    /\ Cardinality(w.votes) >= (w.size \div 2) + 1

\* The inductive invariant.
ElectionInv ==
    /\ ElectionTypes
    /\ EpochsBound
    /\ VotesBound
    /\ VoteOncePerEpoch
    /\ \A h \in net : RequestBound(h) /\ AckPending(h)
    /\ AcksUnique
    /\ \A n \in Nodes : CountExact(n)
    /\ \A w \in wins : WinJustified(w)
-----------------------------------------------------------------------------
LEMMA EpochTypes ==
    ASSUME ElectionInv, NEW n \in Nodes
    PROVE  auth[n].epoch \in Nat
BY DEF ElectionInv, ElectionTypes

\* A majority is a majority: two disjoint sets of voters that both reach the
\* quorum (size / 2) + 1 are together more than the smaller size.
LEMMA Majorities ==
    ASSUME NEW S, NEW T, IsFiniteSet(S), IsFiniteSet(T), S \cap T = {},
           NEW a \in Nat, NEW b \in Nat,
           Cardinality(S) >= (a \div 2) + 1, Cardinality(T) >= (b \div 2) + 1
    PROVE  Cardinality(S \cup T) > a \/ Cardinality(S \cup T) > b
<1>1. Cardinality(S) \in Nat /\ Cardinality(T) \in Nat
  BY FS_CardinalityType
<1>2. Cardinality(S \cup T) = Cardinality(S) + Cardinality(T)
  BY <1>1, FS_Union, FS_EmptySet
<1>3. QED
  BY <1>1, <1>2

\* Votes of one epoch are as many as their voters.
LEMMA VotersOfEpoch ==
    ASSUME NEW S, IsFiniteSet(S), NEW N, S \subseteq N \X Nat,
           NEW e, \A v \in S : v[2] = e
    PROVE  /\ IsFiniteSet({v[1] : v \in S})
           /\ Cardinality({v[1] : v \in S}) = Cardinality(S)
<1> DEFINE T == {v[1] : v \in S}
           f == [v \in S |-> v[1]]
<1>1. f \in [S -> T]
  OBVIOUS
<1>2. ASSUME NEW a \in S, NEW b \in S, f[a] = f[b] PROVE a = b
  <2>1. a = <<a[1], a[2]>> /\ b = <<b[1], b[2]>>
    BY SMT
  <2>2. QED
    BY <1>2, <2>1
<1>3. \A t \in T : \E v \in S : f[v] = t
  OBVIOUS
<1>4. f \in Bijection(S, T)
  BY <1>1, <1>2, <1>3 DEF Bijection, Injection, Surjection, IsInjective
<1>5. ExistsBijection(S, T)
  BY <1>4 DEF ExistsBijection
<1>6. QED
  BY <1>5, FS_Bijection

\* WinnersOutnumber follows from the invariant.
LEMMA InvImpliesWinners ==
    ASSUME ElectionInv
    PROVE  WinnersOutnumber
<1> SUFFICES ASSUME NEW v \in wins, NEW w \in wins,
                    v.epoch = w.epoch, v.node # w.node
             PROVE  /\ v.votes \cap w.votes = {}
                    /\ \/ LateVotes(v) \cup LateVotes(w) # {}
                       \/ Cardinality(Voters(v) \cup Voters(w)) > v.size
                       \/ Cardinality(Voters(v) \cup Voters(w)) > w.size
  BY DEF WinnersOutnumber
<1>1. WinJustified(v) /\ WinJustified(w)
  BY DEF ElectionInv
<1>2. ASSUME NEW x \in v.votes, NEW y \in w.votes, x[1] = y[1], x[2] = y[2]
      PROVE  FALSE
  <2>1. /\ <<x[1], x[2], v.node>> \in voted
        /\ <<x[1], x[2], w.node>> \in voted
    BY <1>1, <1>2 DEF WinJustified
  <2>2. <<x[1], x[2], v.node>> = <<x[1], x[2], w.node>>
    BY <2>1 DEF ElectionInv, VoteOncePerEpoch
  <2>3. QED
    BY <2>2
<1>3. v.votes \cap w.votes = {}
  BY <1>2
<1>4. ASSUME LateVotes(v) \cup LateVotes(w) = {}
      PROVE  \/ Cardinality(Voters(v) \cup Voters(w)) > v.size
             \/ Cardinality(Voters(v) \cup Voters(w)) > w.size
  <2>1. \A x \in v.votes : x[2] = v.epoch
    BY <1>4 DEF LateVotes
  <2>2. \A x \in w.votes : x[2] = v.epoch
    BY <1>4 DEF LateVotes
  <2>3. Voters(v) \cap Voters(w) = {}
    BY <1>2, <2>1, <2>2 DEF Voters
  <2>4. /\ IsFiniteSet(Voters(v)) /\ IsFiniteSet(Voters(w))
        /\ Cardinality(Voters(v)) = Cardinality(v.votes)
        /\ Cardinality(Voters(w)) = Cardinality(w.votes)
    BY Zenon, <1>1, <2>1, <2>2, VotersOfEpoch DEF Voters, WinJustified
  <2>5. QED
    BY <1>1, <2>3, <2>4, Majorities DEF WinJustified
<1>5. QED
  BY <1>3, <1>4
-----------------------------------------------------------------------------
\* A step that grants and counts no vote, starts no election and adds neither
\* a request nor a vote to the packets in flight.
Quiet ==
    /\ UNCHANGED <<lastVote, auth, voted, got>>
    /\ cur' \in [Nodes -> Nat]
    /\ \A n \in Nodes : cur[n] <= cur'[n]
    /\ used'.crashes = 0
    /\ \A h \in net' : h.src \in Nodes /\ h.dst \in Nodes /\ h.cur \in Nat
    /\ \A h \in net' : h.type \in {"req", "ack"} => h \in net
    /\ \A w \in wins' : WinJustified(w)

LEMMA QuietStep ==
    ASSUME ElectionInv, Quiet
    PROVE  ElectionInv'
<1> USE DEF ElectionInv, Quiet
<1>1. ElectionTypes'
  BY DEF ElectionTypes
<1>2. EpochsBound'
  BY DEF ElectionTypes, EpochsBound
<1>3. VotesBound' /\ VoteOncePerEpoch'
  BY DEF VotesBound, VoteOncePerEpoch
<1>4. \A h \in net' : RequestBound(h)' /\ AckPending(h)'
  BY Zenon DEF RequestBound, AckPending
<1>5. AcksUnique'
  BY DEF AcksUnique
<1>6. (\A n \in Nodes : CountExact(n))' /\ (\A w \in wins : WinJustified(w))'
  BY DEF CountExact, WinJustified
<1>7. QED
  BY <1>1, <1>2, <1>3, <1>4, <1>5, <1>6
-----------------------------------------------------------------------------
(* The actions.  Only the types, sources and epochs of packets matter. *)

LEMMA HdrFields ==
    ASSUME NEW type, NEW n, NEW d, NEW c, NEW t, NEW x
    PROVE  LET h == Hdr(type, n, d, c, t, x)
           IN  h.type = type /\ h.src = n /\ h.dst = d /\ h.cur = c
BY DEF Hdr

LEMMA BroadcastFields ==
    ASSUME NEW type, NEW n, NEW c, NEW t, NEW x,
           NEW h \in Broadcast(type, n, c, t, x)
    PROVE  h.type = type /\ h.src = n /\ h.dst \in Nodes /\ h.cur = c
<1>1. PICK d \in Peers(n) : h = Hdr(type, n, d, c, t, x)
  BY DEF Broadcast
<1>2. d \in Nodes
  BY DEF Peers, Alive
<1>3. QED
  BY <1>1, <1>2, HdrFields

LEMMA UpdateFields ==
    ASSUME NEW n, NEW c, NEW t, NEW g, NEW h \in UpdatePackets(n, c, t, g)
    PROVE  h.type = "update" /\ h.src = n /\ h.dst = g.src /\ h.cur = c
<1>1. PICK y : h \in Unicast(Hdr("update", n, g.src, c, t, y))
  BY Zenon DEF UpdatePackets
<1>2. h = Hdr("update", n, g.src, c, t, y)
  BY <1>1 DEF Unicast
<1>3. QED
  BY <1>2, HdrFields

LEMMA MaxOfBound ==
    ASSUME NEW a \in Nat, NEW b \in Nat
    PROVE  MaxOf(a, b) \in Nat /\ MaxOf(a, b) >= a /\ MaxOf(a, b) >= b
           /\ (MaxOf(a, b) = a \/ MaxOf(a, b) = b)
BY DEF MaxOf

LEMMA TakeoverQuiet ==
    ASSUME ElectionInv, NEW n \in Alive, Takeover(n)
    PROVE  Quiet
<1> USE DEF ElectionInv, ElectionTypes
<1>1. n \in Nodes /\ cur[n] \in Nat
  BY DEF Alive
<1>2. PICK c \in {cur[n], cur[n] + 1} :
         /\ cur' = [cur EXCEPT ![n] = c]
         /\ net' = net \cup Broadcast("pong", n, c, table'[n], None)
  BY Zenon DEF Takeover
<1>3. cur' \in [Nodes -> Nat] /\ \A m \in Nodes : cur[m] <= cur'[m]
  BY <1>1, <1>2
<1>4. \A h \in net' : \/ h \in net
                       \/ /\ h.type = "pong" /\ h.src = n
                          /\ h.dst \in Nodes /\ h.cur = c
  BY <1>2, BroadcastFields
<1>5. UNCHANGED <<lastVote, auth, voted, got, wins>> /\ used'.crashes = 0
  BY DEF Takeover, history
<1>6. QED
  BY <1>1, <1>2, <1>3, <1>4, <1>5 DEF Quiet, WinJustified

LEMMA PingQuiet ==
    ASSUME ElectionInv, NEW h \in net, ReceivePing(h.dst, h)
    PROVE  Quiet
<1> DEFINE n == h.dst
           c == SeenEpoch(n, h)
<1> USE DEF ElectionInv, ElectionTypes
<1>1. n \in Nodes /\ h.src \in Nodes /\ c \in Nat /\ c >= cur[n]
  BY Zenon, MaxOfBound DEF SeenEpoch
<1>2. PICK c2 \in {c, c + 1} : cur' = [cur EXCEPT ![n] = c2]
  BY Zenon DEF ReceivePing
<1>3. cur' \in [Nodes -> Nat] /\ \A m \in Nodes : cur[m] <= cur'[m]
  BY <1>1, <1>2
<1>4. PICK t1, t3 :
         net' \subseteq net \cup {Hdr("pong", n, h.src, c, t1, None)}
                         \cup UpdatePackets(n, c, t3, h)
  BY Zenon DEF ReceivePing
<1>5. \A g \in net' : \/ g \in net
                       \/ /\ g.type \in {"pong", "update"} /\ g.src = n
                          /\ g.dst = h.src /\ g.cur = c
  BY <1>4, HdrFields, UpdateFields
<1>6. UNCHANGED <<lastVote, auth, voted, got, wins, used>>
  BY DEF ReceivePing, history
<1>7. QED
  BY <1>1, <1>3, <1>5, <1>6 DEF Quiet, WinJustified

LEMMA UpdateQuiet ==
    ASSUME ElectionInv, NEW h \in net, ReceiveUpdate(h.dst, h)
    PROVE  Quiet
<1> USE DEF ElectionInv, ElectionTypes
<1>1. /\ h.dst \in Nodes
      /\ SeenEpoch(h.dst, h) \in Nat /\ SeenEpoch(h.dst, h) >= cur[h.dst]
  BY ZenonT(60), MaxOfBound DEF SeenEpoch
<1>2. /\ cur' = [cur EXCEPT ![h.dst] = SeenEpoch(h.dst, h)]
      /\ net' \subseteq net
      /\ UNCHANGED <<lastVote, auth, voted, got, wins, used>>
  BY DEF ReceiveUpdate, history
<1>3. QED
  BY <1>1, <1>2 DEF Quiet, WinJustified

LEMMA PingSentQuiet ==
    ASSUME ElectionInv, NEW n, NEW m, SendPing(n, m)
    PROVE  Quiet
<1> USE DEF ElectionInv, ElectionTypes
<1>1. n \in Nodes /\ m \in Nodes
  BY DEF SendPing, Alive
<1>2. \A h \in net' : \/ h \in net
                       \/ /\ h.type = "ping" /\ h.src = n
                          /\ h.dst = m /\ h.cur = cur[n]
  BY HdrFields DEF SendPing
<1>3. UNCHANGED <<cur, lastVote, auth, voted, got, wins, used>>
  BY DEF SendPing, history
<1>4. QED
  BY <1>1, <1>2, <1>3 DEF Quiet, WinJustified

\* The votes counted reach the quorum, and each was cast for this election.
LEMMA WinQuiet ==
    ASSUME ElectionInv, ClusterAssumption, NEW n \in Alive, WinElection(n)
    PROVE  Quiet
<1> USE DEF ElectionInv, ElectionTypes
<1>1. n \in Nodes
  BY DEF Alive
<1>2. \A h \in net' : \/ h \in net
                       \/ /\ h.type = "pong" /\ h.src = n
                          /\ h.dst \in Nodes /\ h.cur = cur[n]
  BY BroadcastFields DEF WinElection
<1>3. UNCHANGED <<cur, lastVote, auth, voted, got, used>>
  BY DEF WinElection
<1>4. Size(table[n]) \in Nat
  BY FS_Subset, FS_CardinalityType DEF Size, ClusterAssumption
<1>5. WinJustified([node |-> n, epoch |-> auth[n].epoch,
                    votes |-> got[n], size |-> Size(table[n])])
  BY SMTT(60), <1>1, <1>4 DEF WinElection, WinJustified, CountExact
<1>6. \A w \in wins' : WinJustified(w)
  BY <1>5 DEF WinElection
<1>7. QED
  BY <1>1, <1>2, <1>3, <1>6 DEF Quiet

\* Setting up an election forgets the votes counted so far; those of the
\* election before that are still under way have not been counted.
LEMMA ScheduleStep ==
    ASSUME ElectionInv, NEW n \in Alive, ScheduleElection(n)
    PROVE  ElectionInv'
<1> USE DEF ElectionInv, ElectionTypes
<1>1. n \in Nodes
  BY DEF Alive
<1>2. \A h \in net' : \/ h \in net
                       \/ /\ h.type = "pong" /\ h.src = n
                          /\ h.dst \in Nodes /\ h.cur = cur[n]
  <2>1. \A h \in net' : h \in net \/ \E m \in Peers(n) :
                           h = Hdr("pong", n, m, cur[n], table[n], None)
    BY DEF ScheduleElection
  <2>2. ASSUME NEW h, NEW m \in Peers(n),
               h = Hdr("pong", n, m, cur[n], table[n], None)
        PROVE  h.type = "pong" /\ h.src = n /\ h.dst \in Nodes /\ h.cur = cur[n]
    BY <2>2, HdrFields DEF Peers, Alive
  <2>3. QED
    BY <2>1, <2>2
<1>3. UNCHANGED <<cur, lastVote, voted, wins, used>>
  BY DEF ScheduleElection
<1>4. /\ auth' = [auth EXCEPT ![n].count = 0, ![n].phase = "delay"]
      /\ got' = [got EXCEPT ![n] = {}]
  BY DEF ScheduleElection
<1>5. /\ \A m \in Nodes : auth'[m].epoch = auth[m].epoch
      /\ \A m \in Nodes : got'[m] \subseteq got[m]
  BY <1>1, <1>4
<1>6. ElectionTypes' /\ EpochsBound' /\ VotesBound' /\ VoteOncePerEpoch'
  <2>1. ElectionTypes'
    BY ZenonT(60), <1>1, <1>2, <1>3, <1>4
  <2>2. \A m \in Nodes : auth'[m].epoch = auth[m].epoch
    BY <1>1, <1>4
  <2>3. EpochsBound'
    BY <1>3, <2>2 DEF EpochsBound
  <2>4. \A v \in voted : v[3] \in Nodes
    OBVIOUS
  <2>5. VotesBound' /\ VoteOncePerEpoch'
    BY <1>3, <2>2, <2>4 DEF VotesBound, VoteOncePerEpoch
  <2>6. QED
    BY <2>1, <2>3, <2>5
<1>7. \A h \in net' : RequestBound(h)' /\ AckPending(h)'
  BY ZenonT(60), <1>1, <1>2, <1>3, <1>4, <1>5 DEF RequestBound, AckPending
<1>8. AcksUnique'
  BY <1>2 DEF AcksUnique
<1>9. \A m \in Nodes : CountExact(m)'
  <2>1. CountExact(n)'
    BY <1>1, <1>4, FS_EmptySet DEF CountExact
  <2>2. ASSUME NEW m \in Nodes, m # n PROVE CountExact(m)'
    <3>1. auth'[m] = auth[m] /\ got'[m] = got[m]
      BY <1>4, <2>2
    <3>2. QED
      BY <1>3, <3>1 DEF CountExact
  <2>3. QED
    BY <2>1, <2>2
<1>10. \A w \in wins' : WinJustified(w)'
  BY <1>3 DEF WinJustified
<1>11. QED
  BY <1>6, <1>7, <1>8, <1>9, <1>10

\* The epoch of a new election is greater than that of every vote the slave
\* was given before.
LEMMA RequestStep ==
    ASSUME ElectionInv, NEW n \in Alive, RequestVotes(n)
    PROVE  ElectionInv'
<1> USE DEF ElectionInv, ElectionTypes
<1>1. n \in Nodes /\ cur[n] \in Nat /\ auth[n].phase = "delay"
  BY DEF Alive, RequestVotes
<1>2. \A h \in net' : \/ h \in net
                       \/ /\ h.type = "req" /\ h.src = n
                          /\ h.dst \in Nodes /\ h.cur = cur[n] + 1
  BY BroadcastFields DEF RequestVotes
<1>3. UNCHANGED <<lastVote, voted, got, wins, used>>
  BY DEF RequestVotes, history
<1>4. /\ cur' = [cur EXCEPT ![n] = cur[n] + 1]
      /\ auth' = [auth EXCEPT ![n].epoch = cur[n] + 1, ![n].phase = "sent"]
  BY DEF RequestVotes
<1>5. /\ auth'[n].epoch = cur[n] + 1 /\ auth'[n].phase = "sent"
      /\ auth'[n].count = auth[n].count
      /\ \A m \in Nodes : m # n => auth'[m] = auth[m]
  BY <1>1, <1>4
<1>6. ElectionTypes'
  BY SMTT(60), <1>1, <1>2, <1>3, <1>4
<1>7. EpochsBound'
  BY <1>1, <1>3, <1>4, <1>5 DEF EpochsBound
<1>8. VotesBound' /\ VoteOncePerEpoch'
  <2>1. \A v \in voted : v[2] \in Nat /\ v[3] \in Nodes
    OBVIOUS
  <2>2. auth[n].epoch \in Nat /\ auth[n].epoch < auth'[n].epoch
    BY <1>1, <1>5 DEF EpochsBound
  <2>3. ASSUME NEW v \in voted
        PROVE  v[2] <= lastVote[v[1]] /\ v[2] <= auth'[v[3]].epoch
    <3>1. v[2] <= lastVote[v[1]] /\ v[2] <= auth[v[3]].epoch
      BY DEF VotesBound
    <3>2. CASE v[3] = n
      BY SMTT(60), <2>1, <2>2, <3>1, <3>2, <1>1, <1>5
    <3>3. CASE v[3] # n
      BY SMTT(60), <2>1, <3>1, <3>3, <1>5
    <3>4. QED
      BY <3>2, <3>3
  <2>4. VotesBound'
    BY <1>3, <2>3 DEF VotesBound
  <2>5. VoteOncePerEpoch'
    BY <1>3 DEF VoteOncePerEpoch
  <2>6. QED
    BY <2>4, <2>5
<1>9. \A h \in net' : RequestBound(h)' /\ AckPending(h)'
  <2> SUFFICES ASSUME NEW h \in net'
               PROVE  RequestBound(h)' /\ AckPending(h)'
    OBVIOUS
  <2>1. CASE h \in net
    <3>1. RequestBound(h) /\ AckPending(h) /\ h.src \in Nodes /\ h.dst \in Nodes
      BY SMTT(60), <2>1
    <3>2. RequestBound(h)'
      <4>1. /\ h.cur \in Nat /\ auth[h.src].epoch \in Nat
            /\ auth'[h.src].epoch \in Nat
            /\ auth[h.src].epoch <= auth'[h.src].epoch
        <5>1. h.cur \in Nat /\ auth[h.src].epoch \in Nat
          BY SMTT(60), <2>1, <3>1
        <5>2. auth[n].epoch <= cur[n]
          BY <1>1 DEF EpochsBound
        <5> HIDE DEF ElectionInv, ElectionTypes
        <5>3. CASE h.src = n
          BY <1>1, <1>5, <5>1, <5>2, <5>3
        <5>4. CASE h.src # n
          BY <3>1, <1>5, <5>1, <5>4
        <5>5. QED
          BY <5>1, <5>3, <5>4
      <4> HIDE DEF ElectionInv, ElectionTypes
      <4>2. QED
        BY <3>1, <4>1 DEF RequestBound
    <3>3. AckPending(h)'
      BY Zenon, <3>1, <1>3 DEF AckPending
    <3>4. QED
      BY <3>2, <3>3
  <2>2. CASE h.type = "req" /\ h.src = n /\ h.cur = cur[n] + 1
    BY <2>2, <1>1, <1>5 DEF RequestBound, AckPending
  <2>3. QED
    BY <1>2, <2>1, <2>2
<1>10. AcksUnique'
  BY <1>2 DEF AcksUnique
<1>11. \A m \in Nodes : CountExact(m)'
  <2>1. CountExact(n) /\ \A v \in got[n] : v[2] = auth[n].epoch
    BY <1>1 DEF CountExact
  <2>2. CountExact(n)'
    BY <1>3, <1>5, <2>1 DEF CountExact
  <2>3. ASSUME NEW m \in Nodes, m # n PROVE CountExact(m)'
    <3>1. auth'[m] = auth[m] /\ CountExact(m)
      BY <1>5, <2>3
    <3>2. QED
      BY <1>3, <3>1 DEF CountExact
  <2>4. QED
    BY <2>2, <2>3
<1>12. \A w \in wins' : WinJustified(w)'
  BY SMTT(60), <1>3 DEF WinJustified
<1>13. QED
  BY <1>6, <1>7, <1>8, <1>9, <1>10, <1>11, <1>12

\* A master that grants a vote has not voted in the epoch before, so that the
\* vote is neither under way nor counted already.
LEMMA GrantStep ==
    ASSUME ElectionInv, NEW h \in net, h.type = "req",
           NEW c, c = SeenEpoch(h.dst, h),
           NEW t, GrantsVote(h.dst, c, t, h),
           cur' = [cur EXCEPT ![h.dst] = c],
           lastVote' = [lastVote EXCEPT ![h.dst] = c],
           voted' = voted \cup {<<h.dst, c, h.src>>},
           net' = (net \ {h}) \cup Unicast(Hdr("ack", h.dst, h.src, c, t, None)),
           UNCHANGED <<auth, used, got, wins>>
    PROVE  ElectionInv'
<1> DEFINE n == h.dst
           d == h.src
<1> USE DEF ElectionInv, ElectionTypes
<1>1. /\ n \in Nodes /\ d \in Nodes /\ h.cur \in Nat /\ cur[n] \in Nat
      /\ lastVote[n] \in Nat
  <2>1. n \in Nodes /\ d \in Nodes /\ h.cur \in Nat
    OBVIOUS
  <2>2. QED
    BY <2>1
<1>2. c \in Nat /\ c = h.cur /\ cur[n] <= c
  <2>1. h.cur >= c /\ c = MaxOf(cur[n], h.cur)
    BY DEF GrantsVote, SeenEpoch
  <2> HIDE DEF n, d
  <2>2. QED
    BY SMTT(60), <1>1, <2>1 DEF MaxOf
<1>3. lastVote[n] < c
  <2>1. lastVote[n] # c /\ lastVote[n] <= cur[n]
    BY SMTT(60), <1>1 DEF GrantsVote, EpochsBound
  <2> HIDE DEF n, d, ElectionInv, ElectionTypes
  <2>2. QED
    BY SMTT(60), <1>1, <1>2, <2>1
<1>4. c <= auth[d].epoch
  BY SMTT(60), <1>2 DEF RequestBound
<1>5. \A v \in voted : v[1] = n => v[2] < c
  <2> SUFFICES ASSUME NEW v \in voted, v[1] = n PROVE v[2] < c
    OBVIOUS
  <2>1. v[2] \in Nat /\ v[2] <= lastVote[n]
    BY DEF VotesBound
  <2>2. QED
    BY SMTT(60), <1>1, <1>2, <1>3, <2>1
<1>6. \A e, x : <<n, e, x>> \in voted => e < c
  <2> SUFFICES ASSUME NEW e, NEW x, <<n, e, x>> \in voted PROVE e < c
    OBVIOUS
  <2>1. <<n, e, x>>[1] = n /\ <<n, e, x>>[2] = e
    OBVIOUS
  <2>2. QED
    BY SMTT(60), <1>5, <2>1
<1>7. <<n, c>> \notin got[d]
  <2>1. \A v \in got[d] : <<v[1], v[2], d>> \in voted
    BY Zenon, <1>1 DEF CountExact
  <2>2. <<n, c>> \in got[d] => <<n, c, d>> \in voted
    <3>1. <<n, c>>[1] = n /\ <<n, c>>[2] = c
      OBVIOUS
    <3> HIDE DEF n, d, ElectionInv, ElectionTypes
    <3>2. QED
      BY <2>1, <3>1
  <2>3. QED
    BY SMTT(60), <1>2, <1>6, <2>2
<1>8. \A g \in net : g.type = "ack" /\ g.src = n /\ g.dst = d => g.cur # c
  <2> SUFFICES ASSUME NEW g \in net, g.type = "ack", g.src = n, g.dst = d,
                      g.cur = c
               PROVE  FALSE
    BY SMTT(60)
  <2>1. <<n, c, d>> \in voted
    BY ZenonT(60) DEF AckPending
  <2>2. QED
    BY SMTT(60), <1>2, <1>6, <2>1
<1>9. \A g \in net' : \/ g \in net
                       \/ /\ g.type = "ack" /\ g.src = n
                          /\ g.dst = d /\ g.cur = c
                          /\ g = Hdr("ack", n, d, c, t, None)
  BY HdrFields DEF Unicast
<1>10. ElectionTypes'
  BY <1>1, <1>2, <1>9
<1>11. EpochsBound'
  BY <1>1, <1>2, <1>3 DEF EpochsBound
<1>12. VotesBound'
  <2> SUFFICES ASSUME NEW v \in voted'
               PROVE  v[2] <= lastVote'[v[1]] /\ v[2] <= auth[v[3]].epoch
    BY SMTT(60) DEF VotesBound
  <2>1. CASE v = <<n, c, d>>
    BY SMTT(60), <2>1, <1>1, <1>2, <1>4
  <2>2. CASE v \in voted
    <3>1. /\ v[1] \in Nodes /\ v[2] \in Nat
          /\ v[2] <= lastVote[v[1]] /\ v[2] <= auth[v[3]].epoch
      BY SMTT(60), <2>2 DEF VotesBound
    <3>2. CASE v[1] = n
      BY SMTT(60), <3>1, <3>2, <2>2, <1>1, <1>2, <1>5
    <3>3. CASE v[1] # n
      BY SMTT(60), <3>1, <3>3
    <3>4. QED
      BY SMTT(60), <3>2, <3>3
  <2>3. QED
    BY <2>1, <2>2
<1>13. VoteOncePerEpoch'
  <2> SUFFICES ASSUME NEW v \in voted', NEW w \in voted',
                      v[1] = w[1], v[2] = w[2]
               PROVE  v = w
    BY DEF VoteOncePerEpoch
  <2>1. <<n, c, d>>[1] = n /\ <<n, c, d>>[2] = c
    OBVIOUS
  <2>2. CASE v \in voted /\ w \in voted
    BY <2>2 DEF VoteOncePerEpoch
  <2>3. CASE v = <<n, c, d>> /\ w \in voted
    BY SMTT(60), <2>1, <2>3, <1>2, <1>5
  <2>4. CASE w = <<n, c, d>> /\ v \in voted
    BY SMTT(60), <2>1, <2>4, <1>2, <1>5
  <2>5. QED
    BY SMTT(60), <2>2, <2>3, <2>4
<1>14. \A g \in net' : RequestBound(g)' /\ AckPending(g)'
  BY ZenonT(60), <1>1, <1>4, <1>7, <1>9 DEF RequestBound, AckPending
<1>15. AcksUnique'
  BY SMTT(60), <1>8, <1>9 DEF AcksUnique
<1>16. (\A m \in Nodes : CountExact(m))' /\ (\A w \in wins : WinJustified(w))'
  BY DEF CountExact, WinJustified
<1>17. QED
  BY SMTT(60), <1>10, <1>11, <1>12, <1>13, <1>14, <1>15, <1>16

LEMMA ReceiveRequestStep ==
    ASSUME ElectionInv, NEW h \in net, ReceiveRequest(h.dst, h)
    PROVE  ElectionInv'
<1> DEFINE n == h.dst
           c == SeenEpoch(n, h)
           t == Learn(table[n], h)
<1>1. CASE GrantsVote(n, c, t, h) /\ lastVote' = [lastVote EXCEPT ![n] = c]
           /\ voted' = voted \cup {<<n, c, h.src>>}
           /\ net' = (net \ {h}) \cup Unicast(Hdr("ack", n, h.src, c, t, None))
  BY Zenon, <1>1, GrantStep DEF ReceiveRequest
<1>2. CASE net' = net \ {h} /\ UNCHANGED <<lastVote, voted>>
  <2>1. n \in Nodes /\ c \in Nat /\ c >= cur[n]
    BY ZenonT(60), MaxOfBound DEF SeenEpoch, ElectionInv, ElectionTypes
  <2>2. cur' = [cur EXCEPT ![n] = c] /\ UNCHANGED <<auth, used, got, wins>>
    BY DEF ReceiveRequest
  <2>3. Quiet
    BY <1>2, <2>1, <2>2 DEF Quiet, ElectionInv, ElectionTypes, WinJustified
  <2>4. QED
    BY <2>3, QuietStep
<1>3. QED
  BY SMTT(60), <1>1, <1>2 DEF ReceiveRequest

\* Counting a vote, and noting an epoch, keep the types.
LEMMA CountingTypes ==
    ASSUME NEW a \in [Nodes -> [epoch : Nat, count : Nat,
                                phase : {"none", "delay", "sent"}]],
           NEW g \in [Nodes -> SUBSET (Nodes \X Nat)], NEW c \in [Nodes -> Nat],
           NEW n \in Nodes, NEW s \in Nodes \X Nat, NEW e \in Nat
    PROVE  /\ [a EXCEPT ![n].count = @ + 1]
                \in [Nodes -> [epoch : Nat, count : Nat,
                               phase : {"none", "delay", "sent"}]]
           /\ [g EXCEPT ![n] = @ \cup {s}] \in [Nodes -> SUBSET (Nodes \X Nat)]
           /\ [c EXCEPT ![n] = e] \in [Nodes -> Nat]
           /\ \A m \in Nodes : [c EXCEPT ![n] = e][m] = IF m = n THEN e ELSE c[m]
<1>1. /\ [g EXCEPT ![n] = @ \cup {s}] \in [Nodes -> SUBSET (Nodes \X Nat)]
      /\ [c EXCEPT ![n] = e] \in [Nodes -> Nat]
      /\ \A m \in Nodes : [c EXCEPT ![n] = e][m] = IF m = n THEN e ELSE c[m]
  BY SMT
<1>2. [a EXCEPT ![n].count = @ + 1]
        \in [Nodes -> [epoch : Nat, count : Nat, phase : {"none", "delay", "sent"}]]
  BY SMT
<1>3. QED
  BY Zenon, <1>1, <1>2

\* A vote that arrives was cast, and has not been counted; one that counts is of
\* the last election its receiver asked for votes in.
LEMMA ReceiveVoteStep ==
    ASSUME ElectionInv, ClusterAssumption, NEW h \in net, ReceiveVote(h.dst, h)
    PROVE  ElectionInv'
<1> DEFINE n == h.dst
<1> USE DEF ElectionInv, ElectionTypes
<1>1. n \in Nodes /\ h.src \in Nodes /\ h.cur \in Nat
  OBVIOUS
<1>2. SeenEpoch(n, h) \in Nat /\ SeenEpoch(n, h) >= cur[n]
  BY Zenon, <1>1, MaxOfBound DEF SeenEpoch
<1>3. /\ cur' = [cur EXCEPT ![n] = SeenEpoch(n, h)]
      /\ net' = net \ {h}
      /\ UNCHANGED <<lastVote, used, voted, wins>>
      /\ h.type = "ack"
  BY DEF ReceiveVote
<1>4. /\ <<h.src, h.cur, n>> \in voted /\ h.cur <= auth[n].epoch
      /\ <<h.src, h.cur>> \notin got[n]
  <2>1. <<h.src, h.cur, n>> \in voted /\ <<h.src, h.cur>> \notin got[n]
    BY <1>3 DEF AckPending
  <2>2. <<h.src, h.cur, n>>[2] <= auth[<<h.src, h.cur, n>>[3]].epoch
    BY Zenon, <2>1 DEF VotesBound
  <2> HIDE DEF n, ElectionInv, ElectionTypes
  <2>3. QED
    BY <2>1, <2>2
<1>5. PICK counts \in BOOLEAN :
        /\ counts => h.cur >= auth[n].epoch
        /\ auth' = [auth EXCEPT ![n].count = IF counts THEN @ + 1 ELSE @]
        /\ got' = [got EXCEPT ![n] =
                     IF counts THEN @ \cup {<<h.src, h.cur>>} ELSE @]
  BY ZenonT(60) DEF ReceiveVote
<1>6. CASE ~counts
  <2>1. auth' = auth /\ got' = got
    BY <1>1, <1>5, <1>6
  <2>2. cur' \in [Nodes -> Nat] /\ \A m \in Nodes : cur[m] <= cur'[m]
    BY <1>1, <1>2, <1>3
  <2>3. \A w \in wins' : WinJustified(w)
    BY Zenon, <1>3
  <2>4. /\ used'.crashes = 0
        /\ \A g \in net' : /\ g \in net
                            /\ g.src \in Nodes /\ g.dst \in Nodes /\ g.cur \in Nat
    BY <1>3
  <2> HIDE DEF ElectionInv, ElectionTypes
  <2>5. Quiet
    BY Zenon, <1>3, <2>1, <2>2, <2>3, <2>4 DEF Quiet
  <2>6. QED
    BY <2>5, QuietStep
<1>7. CASE counts
  <2>1. /\ auth'[n].count = auth[n].count + 1
        /\ auth'[n].epoch = auth[n].epoch /\ auth'[n].phase = auth[n].phase
        /\ got'[n] = got[n] \cup {<<h.src, h.cur>>}
        /\ \A m \in Nodes : m # n => auth'[m] = auth[m] /\ got'[m] = got[m]
    BY SMTT(60), <1>1, <1>5, <1>7
  <2>2. /\ ElectionTypes'
        /\ \A m \in Nodes : cur'[m] = IF m = n THEN SeenEpoch(n, h) ELSE cur[m]
    <3>1. /\ auth' = [auth EXCEPT ![n].count = @ + 1]
          /\ got' = [got EXCEPT ![n] = @ \cup {<<h.src, h.cur>>}]
      BY SMT, <1>5, <1>7
    <3>2. /\ auth' \in [Nodes -> [epoch : Nat, count : Nat,
                                  phase : {"none", "delay", "sent"}]]
          /\ got' \in [Nodes -> SUBSET (Nodes \X Nat)]
          /\ cur' \in [Nodes -> Nat]
          /\ \A m \in Nodes : cur'[m] = IF m = n THEN SeenEpoch(n, h) ELSE cur[m]
      <4>1. /\ auth \in [Nodes -> [epoch : Nat, count : Nat,
                                   phase : {"none", "delay", "sent"}]]
            /\ got \in [Nodes -> SUBSET (Nodes \X Nat)] /\ cur \in [Nodes -> Nat]
        BY Zenon
      <4> HIDE DEF ElectionInv, ElectionTypes, n
      <4> DEFINE e == SeenEpoch(n, h)
                 s == <<h.src, h.cur>>
      <4>2. n \in Nodes /\ s \in Nodes \X Nat /\ e \in Nat
        BY <1>1, <1>2
      <4>3. /\ auth' = [auth EXCEPT ![n].count = @ + 1]
            /\ got' = [got EXCEPT ![n] = @ \cup {s}]
            /\ cur' = [cur EXCEPT ![n] = e]
        BY Zenon, <1>3, <3>1
      <4> HIDE DEF e, s
      <4>4. /\ [auth EXCEPT ![n].count = @ + 1]
                 \in [Nodes -> [epoch : Nat, count : Nat,
                                phase : {"none", "delay", "sent"}]]
            /\ [got EXCEPT ![n] = @ \cup {s}] \in [Nodes -> SUBSET (Nodes \X Nat)]
            /\ [cur EXCEPT ![n] = e] \in [Nodes -> Nat]
            /\ \A m \in Nodes : [cur EXCEPT ![n] = e][m] = IF m = n THEN e ELSE cur[m]
        BY SMTT(60), <4>1, <4>2, CountingTypes
      <4>5. QED
        BY Zenon, <4>3, <4>4 DEF e
    <3>3. /\ lastVote' \in [Nodes -> Nat] /\ voted' \subseteq Nodes \X Nat \X Nodes
          /\ \A g \in net' : g.src \in Nodes /\ g.dst \in Nodes /\ g.cur \in Nat
          /\ used'.crashes = 0
      BY <1>3
    <3> HIDE DEF ElectionInv
    <3>4. QED
      BY Zenon, <3>2, <3>3
  <2>3. \A m \in Nodes : /\ auth'[m].epoch = auth[m].epoch
                         /\ auth'[m].phase = auth[m].phase
    <3> SUFFICES ASSUME NEW m \in Nodes
                 PROVE  auth'[m].epoch = auth[m].epoch /\ auth'[m].phase = auth[m].phase
      OBVIOUS
    <3> HIDE DEF n, ElectionInv, ElectionTypes
    <3>1. CASE m = n
      BY Zenon, <2>1, <3>1
    <3>2. CASE m # n
      BY Zenon, <2>1, <3>2
    <3>3. QED
      BY <3>1, <3>2
  <2>4. EpochsBound'
    <3> SUFFICES ASSUME NEW m \in Nodes
                 PROVE  lastVote'[m] <= cur'[m] /\ auth'[m].epoch <= cur'[m]
      BY Zenon DEF EpochsBound
    <3>1. lastVote[m] <= cur[m] /\ auth[m].epoch <= cur[m]
      BY Zenon DEF EpochsBound
    <3>2. /\ lastVote'[m] = lastVote[m] /\ auth'[m].epoch = auth[m].epoch
          /\ cur'[m] = IF m = n THEN SeenEpoch(n, h) ELSE cur[m]
      BY Zenon, <1>3, <2>2, <2>3
    <3>3. lastVote[m] \in Nat /\ auth[m].epoch \in Nat /\ cur[m] \in Nat
      BY SMTT(60)
    <3>4. QED
      BY <3>1, <3>2, <3>3, <1>2
  <2>5. VotesBound' /\ VoteOncePerEpoch'
    <3>1. \A v \in voted : v[3] \in Nodes
      OBVIOUS
    <3>2. QED
      BY ZenonT(60), <1>3, <2>3, <3>1 DEF VotesBound, VoteOncePerEpoch
  <2>6. AcksUnique'
    BY SMTT(60), <1>3 DEF AcksUnique
  <2>7. \A g \in net' : RequestBound(g)' /\ AckPending(g)'
    <3> SUFFICES ASSUME NEW g \in net'
                 PROVE  RequestBound(g)' /\ AckPending(g)'
      OBVIOUS
    <3>1. /\ g \in net /\ g # h /\ g.src \in Nodes /\ g.dst \in Nodes
          /\ RequestBound(g) /\ AckPending(g)
      BY <1>3
    <3>2. g.type = "ack" => g.dst # n \/ <<g.src, g.cur>> # <<h.src, h.cur>>
      BY <1>3, <3>1 DEF AcksUnique
    <3>3. g.type = "ack" => <<g.src, g.cur>> \notin got'[g.dst]
      BY ZenonT(60), <2>1, <3>1, <3>2 DEF AckPending
    <3>4. QED
      BY Zenon, <1>3, <2>3, <3>1, <3>3 DEF RequestBound, AckPending
  <2>8. \A m \in Nodes : CountExact(m)'
    <3>1. CountExact(n)'
      <4> DEFINE x == <<h.src, h.cur>>
      <4>1. CountExact(n)
        BY Zenon, <1>1
      <4>2. /\ IsFiniteSet(got[n] \cup {x})
            /\ Cardinality(got[n] \cup {x}) = Cardinality(got[n]) + 1
        <5> HIDE DEF x
        <5>1. IsFiniteSet(got[n]) /\ x \notin got[n]
          BY Zenon, <1>4, <4>1 DEF CountExact, x
        <5>2. QED
          BY Zenon, <5>1, FS_AddElement
      <4>3. x[2] = auth[n].epoch /\ <<x[1], x[2], n>> \in voted
        <5>1. auth[n].epoch \in Nat
          BY Zenon, <1>1, EpochTypes
        <5>2. h.cur <= auth[n].epoch /\ h.cur >= auth[n].epoch
          BY Zenon, <1>4, <1>5, <1>7
        <5> HIDE DEF n, ElectionInv, ElectionTypes
        <5>3. h.cur = auth[n].epoch
          BY <1>1, <5>1, <5>2
        <5>4. QED
          BY <1>4, <5>3
      <4> HIDE DEF n, x, ElectionInv, ElectionTypes
      <4>4. QED
        BY <1>3, <2>1, <4>1, <4>2, <4>3 DEF CountExact, x
    <3>2. ASSUME NEW m \in Nodes, m # n PROVE CountExact(m)'
      <4>1. auth'[m] = auth[m] /\ got'[m] = got[m] /\ CountExact(m)
        BY <2>1, <3>2
      <4>2. QED
        BY ZenonT(60), <1>3, <4>1 DEF CountExact
    <3>3. QED
      BY <3>1, <3>2
  <2>9. (\A w \in wins : WinJustified(w))'
    BY <1>3 DEF WinJustified
  <2>10. QED
    BY SMTT(60), <2>2, <2>4, <2>5, <2>6, <2>7, <2>8, <2>9
<1>8. QED
  BY <1>6, <1>7

LEMMA ElectionInit ==
    Init => ElectionInv
<1> SUFFICES ASSUME Init PROVE ElectionInv
  BY SMTT(60)
<1> USE DEF Init
<1>1. ElectionTypes /\ EpochsBound
  <2>1. PICK c \in 0..MaxEpoch : cur = [n \in Nodes |-> c]
    BY SMTT(60)
  <2>2. c \in Nat
    BY SMTT(60), <2>1, ClusterAssumption DEF ClusterAssumption
  <2>3. QED
    BY SMTT(60), <2>1, <2>2 DEF ElectionTypes, EpochsBound, NoElection
<1>2. VotesBound /\ VoteOncePerEpoch /\ AcksUnique
  BY SMTT(60) DEF VotesBound, VoteOncePerEpoch, AcksUnique
<1>3. \A n \in Nodes : CountExact(n)
  BY FS_EmptySet DEF CountExact, NoElection
<1>4. QED
  BY <1>1, <1>2, <1>3 DEF ElectionInv

LEMMA ElectionNext ==
    ASSUME ClusterAssumption, MaxCrashes = 0,
           ElectionInv, [Next]_vars
    PROVE  ElectionInv'
<1>1. ASSUME NEW n \in Alive, Step(n) PROVE ElectionInv'
  <2>1. ~SaveConfig(n) /\ ~Restart(n)
    BY DEF SaveConfig, Restart, ElectionInv, ElectionTypes
  <2>2. CASE ScheduleElection(n)
    BY <2>2, ScheduleStep
  <2>3. CASE RequestVotes(n)
    BY SMTT(60), <2>3, RequestStep
  <2>4. CASE WinElection(n)
    BY <2>4, WinQuiet, QuietStep
  <2>5. CASE Takeover(n)
    BY SMTT(60), <2>5, TakeoverQuiet, QuietStep
  <2>6. QED
    BY SMTT(60), <1>1, <2>1, <2>2, <2>3, <2>4, <2>5 DEF Step
<1>2. ASSUME NEW h \in net, Receive(h) PROVE ElectionInv'
  <2>1. CASE ReceiveRequest(h.dst, h)
    BY <2>1, ReceiveRequestStep
  <2>2. CASE ReceiveVote(h.dst, h)
    BY <2>2, ReceiveVoteStep
  <2>3. CASE ReceivePing(h.dst, h)
    BY <2>3, PingQuiet, QuietStep
  <2>4. CASE ReceiveUpdate(h.dst, h)
    BY <2>4, UpdateQuiet, QuietStep
  <2>5. QED
    BY SMTT(60), <1>2, <2>1, <2>2, <2>3, <2>4 DEF Receive
<1>3. ASSUME NEW p \in PingPairs, SendPing(p[1], p[2]) PROVE ElectionInv'
  BY SMTT(60), <1>3, PingSentQuiet, QuietStep
<1>4. CASE UNCHANGED vars
  <2>1. UNCHANGED <<cur, lastVote, auth, net, used, voted, got, wins>>
    BY SMTT(60), <1>4 DEF vars
  <2>2. Quiet
    BY <2>1 DEF Quiet, ElectionInv, ElectionTypes, WinJustified
  <2>3. QED
    BY <2>2, QuietStep
<1>5. QED
  BY SMTT(60), <1>1, <1>2, <1>3, <1>4 DEF Next
-----------------------------------------------------------------------------
\* As long as no node restarts the invariant of the election holds, however
\* late requests and votes arrive: lastVoteEpoch and failover_auth_epoch bound
\* the votes cast, and a vote under way has not been counted.
THEOREM ElectionInvariant ==
    ASSUME MaxCrashes = 0
    PROVE  Spec => []ElectionInv
<1>1. Init => ElectionInv
  BY ElectionInit
<1>2. ElectionInv /\ [Next]_vars => ElectionInv'
  BY ElectionNext, ClusterAssumption
<1>3. QED
  BY <1>1, <1>2, PTL DEF Spec

\* clusterSendFailoverAuthIfNeeded() never votes twice in an epoch.
THEOREM VotesOnceSafe ==
    ASSUME MaxCrashes = 0
    PROVE  Spec => []VoteOncePerEpoch
<1>1. ElectionInv => VoteOncePerEpoch
  BY SMTT(60) DEF ElectionInv
<1>2. QED
  BY <1>1, ElectionInvariant, PTL

\* failover_auth_count counts votes cast for this slave, each once, and none
\* that is older than the election before (cluster.c:2401).
THEOREM CountSafe ==
    ASSUME MaxCrashes = 0
    PROVE  Spec => []CountIsVotes
<1>1. ElectionInv => CountIsVotes
  BY SMTT(60) DEF ElectionInv, CountExact, CountIsVotes
<1>2. QED
  BY <1>1, ElectionInvariant, PTL

\* Two slaves win the same epoch only with a late vote, or with voters that are
\* more than the masters one of them counts: never while votes arrive before
\* the next election is set up, the slaves agree on the masters and only those
\* masters vote.
THEOREM WinnersSafe ==
    ASSUME MaxCrashes = 0
    PROVE  Spec => []WinnersOutnumber
<1>1. ElectionInv => WinnersOutnumber
  BY InvImpliesWinners
<1>2. QED
  BY <1>1, ElectionInvariant, PTL
=============================================================================
