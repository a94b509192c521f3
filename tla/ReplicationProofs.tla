-------------------------- MODULE ReplicationProofs --------------------------
(***************************************************************************)
(* For every backlog size, every number of slaves and every bound: the     *)
(* circular backlog holds the tail of the replication stream, a partial    *)
(* resynchronisation sends exactly the bytes the slave misses, and a       *)
(* master with slaves has a backlog.                                       *)
(***************************************************************************)
EXTENDS Replication, BacklogProofs, TLAPS

-----------------------------------------------------------------------------
(*                       Who is in the list of slaves                      *)

(* The master's state has its three parts, and a client structure for      *)
(* every connection.                                                       *)
Whole(S) == S = [m |-> S.m, cl |-> S.cl, net |-> S.net]
Shaped(f) == /\ f = [c \in Conns |-> f[c]]
             /\ \A c \in Conns : "st" \in DOMAIN f[c]
InList(k) == k.st \in {"start", "end", "bulk", "online"}
NoneJoins(f, g) == Shaped(g) /\ \A c \in Conns : InList(g[c]) => InList(f[c])

(* replicationSetupSlaveForFullResync changes the clients it is given. *)
LEMMA SetupJoins ==
  ASSUME NEW S, NEW C, NEW offset, Shaped(S.cl)
  PROVE  /\ Whole(SetupForFullResync(S, C, offset))
         /\ Shaped(SetupForFullResync(S, C, offset).cl)
         /\ \A c \in Conns \ C : SetupForFullResync(S, C, offset).cl[c] = S.cl[c]
<1> DEFINE R == SetupForFullResync(S, C, offset)
           g == [c \in Conns |->
                   IF c \in C THEN [S.cl[c] EXCEPT !.st = "end", !.init = offset]
                   ELSE S.cl[c]]
<1>1. R.cl = g
  BY DEF SetupForFullResync
<1>2. Shaped(g)
  BY DEF Shaped
<1>3. Whole(R)
  BY DEF SetupForFullResync, Whole
<1> HIDE DEF R
<1>4. Shaped(R.cl) /\ \A c \in Conns \ C : R.cl[c] = S.cl[c]
  BY ZenonT(60), <1>1, <1>2
<1> QED BY <1>3, <1>4 DEF R

(* startBgsaveForReplication, whether it works or fails: nobody joins. *)
LEMMA StartJoins ==
  ASSUME NEW S, NEW mincapa, Whole(S), Shaped(S.cl),
         NEW R \in startBgsaveForReplication(S, mincapa)
  PROVE  NoneJoins(S.cl, R.cl)
<1> DEFINE T == SetupForFullResync(S, Waiting(S), getPsyncInitialOffset)
<1>0. /\ Whole(T) /\ Shaped(T.cl)
      /\ \A c \in Conns \ Waiting(S) : T.cl[c] = S.cl[c]
  BY SetupJoins
<1>1. CASE R = BgsaveStarted(S, mincapa)
  <2>1. R.cl = T.cl
    <3> HIDE DEF T
    <3> QED BY <1>0, <1>1 DEF BgsaveStarted, Whole, T
  <2>2. \A c \in Waiting(S) : InList(S.cl[c])
    BY DEF Waiting, InList
  <2> HIDE DEF T
  <2> QED BY <1>0, <2>1, <2>2 DEF NoneJoins
<1>2. ASSUME NEW forkfails \in BOOLEAN, R = BgsaveFailed(S, mincapa, forkfails)
      PROVE  NoneJoins(S.cl, R.cl)
  <2> DEFINE U == IF SocketTarget(mincapa) /\ forkfails THEN T ELSE S
             g == [c \in Conns |->
                     IF c \in Waiting(S) THEN [U.cl[c] EXCEPT !.st = "dropped"]
                     ELSE U.cl[c]]
  <2>1. /\ Whole(U) /\ Shaped(U.cl)
        /\ \A c \in Conns \ Waiting(S) : U.cl[c] = S.cl[c]
    BY <1>0
  <2>2. R = [U EXCEPT !.cl = g]
    BY <1>2 DEF BgsaveFailed
  <2>3. Shaped(g)
    <3> HIDE DEF U
    <3> QED BY <2>1 DEF Shaped
  <2>4. \A c \in Conns \ Waiting(S) : g[c] = S.cl[c]
    <3> HIDE DEF U
    <3> QED BY <2>1
  <2>5. \A c \in Waiting(S) : InList(S.cl[c])
    BY DEF Waiting, InList
  <2>6. R.cl = g
    <3> HIDE DEF U, g
    <3> QED BY <2>1, <2>2 DEF Whole
  <2> HIDE DEF g
  <2> QED BY <2>3, <2>4, <2>5, <2>6 DEF NoneJoins
<1> QED BY <1>1, <1>2 DEF startBgsaveForReplication

(* freeClient: the clients of C leave. *)
LEMMA FreedJoins ==
  ASSUME NEW S, NEW C, Whole(S), Shaped(S.cl)
  PROVE  /\ Whole(Freed(S, C))
         /\ NoneJoins(S.cl, Freed(S, C).cl)
         /\ \A c \in Conns : c \in C => ~InList(Freed(S, C).cl[c])
<1> DEFINE g == [c \in Conns |->
                   IF c \notin C THEN S.cl[c]
                   ELSE IF S.cl[c].open
                   THEN [ClosedClient EXCEPT !.owner = S.cl[c].owner, !.open = TRUE]
                   ELSE ClosedClient]
           n == [c \in Conns |->
                   IF c \in C THEN [S.net[c] EXCEPT !.up = <<>>] ELSE S.net[c]]
           R == Freed(S, C)
<1>1. R = [[S EXCEPT !.cl = g] EXCEPT !.net = n]
  BY DEF Freed
<1>2. Whole(R) /\ R.cl = g
  <2> HIDE DEF g, n, R
  <2> QED BY ZenonT(60), <1>1 DEF Whole
<1>3. ASSUME NEW c \in Conns
      PROVE  /\ "st" \in DOMAIN g[c]
             /\ c \in C => ~InList(g[c])
             /\ c \notin C => g[c] = S.cl[c]
  <2>1. CASE c \notin C
    BY <2>1 DEF Shaped
  <2>2. CASE c \in C
    <3>1. g[c].st = "closed" /\ "st" \in DOMAIN g[c]
      BY <2>2 DEF ClosedClient
    <3> HIDE DEF g
    <3> QED BY <2>2, <3>1 DEF InList
  <2> QED BY <2>1, <2>2
<1>4. Shaped(g)
  BY ZenonT(60), <1>3 DEF Shaped
<1> HIDE DEF g, R
<1> QED BY <1>2, <1>3, <1>4 DEF NoneJoins, R

(* updateSlavesWaitingBgsave moves slaves on and starts the next BGSAVE. *)
LEMMA UpdateJoins ==
  ASSUME NEW S, NEW type, Whole(S), Shaped(S.cl),
         NEW R \in updateSlavesWaitingBgsave(S, type)
  PROVE  NoneJoins(S.cl, R.cl)
<1> DEFINE g == [c \in Conns |->
              CASE S.cl[c].st = "end" /\ type = "socket" ->
                     [S.cl[c] EXCEPT !.st = "online", !.onack = TRUE]
                [] S.cl[c].st = "end" /\ type = "disk" ->
                     [S.cl[c] EXCEPT !.st = "bulk", !.snap = S.m.child.snap]
                [] OTHER -> S.cl[c]]
           T == [S EXCEPT !.m.child = NoChild, !.cl = g]
           mincapa == \A c \in Waiting(T) : Capa(T, c)
<1>1. R = T \/ R \in startBgsaveForReplication(T, mincapa)
  BY ZenonT(60) DEF updateSlavesWaitingBgsave
<1>2. Whole(T) /\ T.cl = g
  <2> DEFINE mm == [S.m EXCEPT !.child = NoChild]
  <2>1. T = [[S EXCEPT !.m = mm] EXCEPT !.cl = g]
    BY Zenon
  <2> HIDE DEF g, mm, T
  <2> QED BY ZenonT(60), <2>1 DEF Whole
<1>3. ASSUME NEW c \in Conns
      PROVE  /\ "st" \in DOMAIN g[c]
             /\ g[c] # S.cl[c] => InList(S.cl[c])
  <2>1. CASE S.cl[c].st = "end"
    BY <2>1 DEF Shaped, InList
  <2>2. CASE S.cl[c].st # "end"
    <3>1. g[c] = S.cl[c]
      BY <2>2
    <3> HIDE DEF g
    <3> QED BY <3>1 DEF Shaped
  <2> QED BY <2>1, <2>2
<1>4. NoneJoins(S.cl, g)
  <2>1. g = [c \in Conns |-> g[c]]
    OBVIOUS
  <2> HIDE DEF g
  <2> QED BY <1>3, <2>1 DEF NoneJoins, Shaped
<1>5. CASE R = T
  <2> HIDE DEF g, T
  <2> QED BY <1>2, <1>4, <1>5
<1>6. CASE R \in startBgsaveForReplication(T, mincapa)
  <2> HIDE DEF g, T, mincapa
  <2>1. Shaped(T.cl)
    BY <1>2, <1>4 DEF NoneJoins
  <2>2. NoneJoins(T.cl, R.cl)
    BY <1>2, <1>6, <2>1, StartJoins
  <2> QED BY <1>2, <1>4, <2>2 DEF NoneJoins
<1> QED BY ZenonT(60), <1>1, <1>5, <1>6

(* Writing to a socket touches no client structure. *)
LEMMA SentJoins ==
  ASSUME NEW S, NEW c, NEW msgs, Whole(S)
  PROVE  Whole(Sent(S, c, msgs)) /\ Sent(S, c, msgs).cl = S.cl
  BY ZenonT(60) DEF Sent, Whole

(* Reading a request touches no client structure. *)
LEMMA TakeJoins ==
  ASSUME NEW S, NEW c, Whole(S)
  PROVE  Whole(TakeRequest(S, c)) /\ TakeRequest(S, c).cl = S.cl
<1> DEFINE up == [S.net EXCEPT ![c].up = Tail(@)]
<1>1. TakeRequest(S, c) = [S EXCEPT !.net = up]
  BY DEF TakeRequest
<1> HIDE DEF up
<1> QED BY <1>1 DEF Whole

(* The state the handlers start from. *)
LEMMA NowWhole == Whole(Now) /\ Now.cl = cl /\ Now.net = net /\ Now.m = m
  BY DEF Now, Whole

(* replicationFeedSlaves and putSlaveOnline keep a structure per client.   *)
LEMMA FedShaped ==
  ASSUME NEW S, NEW units, Whole(S), Shaped(S.cl)
  PROVE  Whole(Fed(S, units)) /\ Shaped(Fed(S, units).cl)
<1> DEFINE Held(c) == S.cl[c].st \in {"end", "bulk"}
                        \/ (S.cl[c].st = "online" /\ S.cl[c].onack)
           g == [c \in Conns |-> IF Held(c) THEN [S.cl[c] EXCEPT !.out = @ \o units]
                                 ELSE S.cl[c]]
           n == Fed(S, units).net
<1>1. Fed(S, units) = [[S EXCEPT !.cl = g] EXCEPT !.net = n]
  BY DEF Fed, Whole
<1>2. Shaped(g)
  BY DEF Shaped
<1> HIDE DEF g, n
<1>3. Whole(Fed(S, units)) /\ Fed(S, units).cl = g
  BY ZenonT(60), <1>1 DEF Whole
<1> QED BY <1>2, <1>3

(* One field of one client structure changes. *)
LEMMA FieldShaped ==
  ASSUME NEW S, NEW c, NEW k, Whole(S), Shaped(S.cl), "st" \in DOMAIN k
  PROVE  /\ Whole([S EXCEPT !.cl[c] = k])
         /\ Shaped([S EXCEPT !.cl[c] = k].cl)
         /\ [S EXCEPT !.cl[c] = k].cl = [S.cl EXCEPT ![c] = k]
<1> DEFINE g == [S.cl EXCEPT ![c] = k]
           R == [S EXCEPT !.cl = g]
<1>1. Whole(R) /\ R.cl = g
  <2> HIDE DEF g
  <2> QED BY DEF Whole
<1>2. Shaped(g)
  <2> DEFINE f == S.cl
  <2>1. f = [d \in Conns |-> f[d]] /\ \A d \in Conns : "st" \in DOMAIN f[d]
    BY DEF Shaped
  <2> HIDE DEF f
  <2>2. Shaped([f EXCEPT ![c] = k])
    BY <2>1 DEF Shaped
  <2> QED BY <2>2 DEF f
<1> QED BY <1>1, <1>2

(* putSlaveOnline keeps a structure for every client. *)
LEMMA OnlineShaped ==
  ASSUME NEW S, NEW c \in Conns, Whole(S), Shaped(S.cl)
  PROVE  Shaped(putSlaveOnline(S, c).cl)
<1> DEFINE A == [S EXCEPT !.cl[c].st = "online"]
           B == [A EXCEPT !.cl[c].onack = FALSE]
           C == [B EXCEPT !.cl[c].out = <<>>]
           D == [C EXCEPT !.cl[c].snap = <<>>]
<1>0. putSlaveOnline(S, c) = Sent(D, c, S.cl[c].out)
  BY DEF putSlaveOnline
<1>1. Whole(A) /\ Shaped(A.cl)
  <2>1. "st" \in DOMAIN [S.cl[c] EXCEPT !.st = "online"]
    BY DEF Shaped
  <2> QED BY <2>1, FieldShaped
<1> HIDE DEF A
<1>2. Whole(B) /\ Shaped(B.cl)
  <2>1. "st" \in DOMAIN [A.cl[c] EXCEPT !.onack = FALSE]
    BY <1>1 DEF Shaped
  <2> QED BY Zenon, <1>1, <2>1, FieldShaped
<1> HIDE DEF B
<1>3. Whole(C) /\ Shaped(C.cl)
  <2>1. "st" \in DOMAIN [B.cl[c] EXCEPT !.out = <<>>]
    BY <1>2 DEF Shaped
  <2> QED BY Zenon, <1>2, <2>1, FieldShaped
<1> HIDE DEF C
<1>4. Whole(D) /\ Shaped(D.cl)
  <2>1. "st" \in DOMAIN [C.cl[c] EXCEPT !.snap = <<>>]
    BY <1>3 DEF Shaped
  <2> QED BY ZenonT(60), <1>3, <2>1, FieldShaped
<1> HIDE DEF D
<1>5. Sent(D, c, S.cl[c].out).cl = D.cl
  BY <1>4, SentJoins
<1> QED BY <1>0, <1>4, <1>5

-----------------------------------------------------------------------------
(*                          The inductive invariant                        *)

EnvSized ==
  /\ "size" \in DOMAIN env /\ env.size \in Sizes
  /\ "arglen" \in DOMAIN env /\ env.arglen \in Nat \ {0}
ListHasBacklog == \A c \in Conns : InList(cl[c]) => bl.on
IInv == BacklogOK(bl) /\ EnvSized /\ Shaped(cl) /\ ListHasBacklog

(* The invariant speaks of the list of slaves of the code. *)
LEMMA ListIsSlaveList == ListHasBacklog <=> SlavesHaveBacklog
  BY DEF ListHasBacklog, SlavesHaveBacklog, SlaveList, Now, InList

(* A server that starts has no backlog and no slaves. *)
LEMMA InitOK == Init => IInv
<1> SUFFICES ASSUME Init PROVE IInv
  OBVIOUS
<1>1. EnvSized
  BY CasesAssumption DEF Init, Environments, EnvSized
<1>2. BacklogOK(bl)
  BY ZenonT(60), <1>1, SizesAssumption, NoBacklogOK DEF Init, EnvSized
<1>3. \A c \in Conns : cl[c].st = "closed" /\ "st" \in DOMAIN cl[c]
  BY DEF Init, ClosedClient
<1>4. Shaped(cl)
  BY <1>3 DEF Init, Shaped
<1>5. ListHasBacklog
  BY <1>3 DEF ListHasBacklog, InList
<1> QED BY <1>1, <1>2, <1>4, <1>5 DEF IInv

(* The counters of the environment do not touch the configured lengths. *)
LEMMA SpendKeeps ==
  ASSUME EnvSized, NEW what, what # "size", what # "arglen", Spend(what)
  PROVE  EnvSized'
  BY DEF EnvSized, Spend

(* Nor does the count of the failures left. *)
LEMMA FailureKeeps ==
  ASSUME EnvSized, NEW failed, ChargeFailure(failed)
  PROVE  EnvSized'
<1>1. CASE env' = env
  BY <1>1 DEF EnvSized
<1>2. CASE env' = [env EXCEPT !.fails = @ - 1]
  BY <1>2 DEF EnvSized
<1> QED BY <1>1, <1>2 DEF ChargeFailure

(* A step in which nobody joins the list and the backlog is not freed. *)
LEMMA NoneJoinsKeeps ==
  ASSUME IInv, NoneJoins(cl, cl'), BacklogOK(bl'), bl.on => bl'.on, EnvSized'
  PROVE  IInv'
  BY DEF IInv, ListHasBacklog, NoneJoins

(* A step after which there is a backlog. *)
LEMMA BacklogOnKeeps ==
  ASSUME IInv, Shaped(cl'), BacklogOK(bl'), bl'.on, EnvSized'
  PROVE  IInv'
  BY DEF IInv, ListHasBacklog

(* A step that leaves every client structure alone. *)
LEMMA SameClients == ASSUME IInv, cl' = cl PROVE NoneJoins(cl, cl')
  BY DEF IInv, NoneJoins

(* One unit is a sequence. *)
LEMMA OneUnit ==
  ASSUME NEW u
  PROVE  <<u>> \in Seq(Range(<<u>>)) /\ Len(<<u>>) > 0
<1>1. u \in Range(<<u>>)
  BY DEF Range
<1> QED BY <1>1

(* So is what follows the header of a command. *)
LEMMA TailSeq ==
  ASSUME NEW units, units \in Seq(Range(units)), Len(units) > 1
  PROVE  Tail(units) \in Seq(Range(Tail(units)))
<1> DEFINE t == Tail(units)
<1>1. t \in Seq(Range(units)) /\ DOMAIN t = 1 .. Len(t) /\ Len(t) \in Nat
  OBVIOUS
<1> HIDE DEF t
<1>2. \A i \in 1 .. Len(t) : t[i] \in Range(t)
  BY <1>1, Zenon DEF Range
<1>3. t \in Seq(Range(t))
  BY <1>1, <1>2
<1> QED BY <1>3 DEF t

(* A write is a sequence of units. *)
LEMMA WriteSeq ==
  ASSUME NEW id, NEW n \in Nat \ {0}
  PROVE  /\ WriteUnits(id, n) \in Seq(Range(WriteUnits(id, n)))
         /\ Len(WriteUnits(id, n)) > 0
<1> DEFINE w == WriteUnits(id, n)
           Unit(i) == CASE i = 1     -> <<"head">>
                        [] i = n + 1 -> <<"body", id>>
                        [] OTHER     -> <<"arg">>
<1>0. w = [i \in 1 .. n + 1 |-> Unit(i)]
  BY DEF WriteUnits
<1> HIDE DEF w, Unit
<1>1. DOMAIN w = 1 .. n + 1 /\ w = [i \in 1 .. n + 1 |-> w[i]]
  BY <1>0
<1>2. \A i \in 1 .. n + 1 : w[i] \in Range(w)
  BY <1>1, Zenon DEF Range
<1>3. w \in Seq(Range(w)) /\ Len(w) = n + 1
  BY <1>1, <1>2
<1> QED BY <1>3 DEF w

(* replicationFeedSlaves: SELECT if it is needed, and a command of any length. *)
LEMMA FeedKeeps ==
  ASSUME IInv, NEW S, Whole(S), S.cl = cl, NEW d,
         NEW units, units \in Seq(Range(units)), Len(units) > 0,
         replicationFeedSlaves(S, d, units), EnvSized'
  PROVE  IInv'
<1>1. CASE bl.on
  <2> DEFINE b == FeedSelect(bl, d)
             R == Fed(S, Emitted(d, units))
  <2>1. BacklogOK(b) /\ b.on
    <3>1. BacklogOK(bl) /\ \A u : <<u>> \in Seq(Range(<<u>>))
      BY OneUnit DEF IInv
    <3>2. \A u : BacklogOK(feedReplicationBacklog(bl, <<u>>))
                 /\ feedReplicationBacklog(bl, <<u>>).on
      BY <1>1, <3>1, FeedOK
    <3> QED BY <1>1, <3>1, <3>2, Zenon DEF FeedSelect
  <2>2. BacklogOK(FeedCommand(b, units)) /\ FeedCommand(b, units).on
    <3> HIDE DEF b
    <3>1. CASE Len(units) = 1
      <4>1. BacklogOK(feedReplicationBacklog(b, units)) /\ feedReplicationBacklog(b, units).on
        BY <2>1, FeedOK
      <4> QED BY <3>1, <4>1, Zenon DEF FeedCommand
    <3>2. CASE Len(units) # 1
      <4> DEFINE head == <<Head(units)>>
                 tail == Tail(units)
      <4>1. head \in Seq(Range(head)) /\ tail \in Seq(Range(tail))
        BY <3>2, OneUnit, TailSeq
      <4> HIDE DEF head, tail
      <4> DEFINE r == feedReplicationBacklog(b, head)
      <4>2. BacklogOK(r) /\ r.on
        BY <2>1, <4>1, FeedOK
      <4> HIDE DEF r
      <4>3. BacklogOK(feedReplicationBacklog(r, tail)) /\ feedReplicationBacklog(r, tail).on
        BY <4>1, <4>2, FeedOK
      <4> QED BY <3>2, <4>3, Zenon DEF FeedCommand, r, head, tail
    <3> QED BY <3>1, <3>2
  <2>3. Whole(R) /\ Shaped(R.cl)
    BY FedShaped DEF IInv
  <2>4. cl' = R.cl
    <3> HIDE DEF R
    <3>1. [R EXCEPT !.m.slaveseldb = d].cl = R.cl
      BY <2>3 DEF Whole
    <3> QED BY <1>1, <3>1, Zenon DEF replicationFeedSlaves, Become, R
  <2>5. bl' = FeedCommand(b, units)
    BY <1>1 DEF replicationFeedSlaves
  <2> HIDE DEF R, b
  <2> QED BY <2>2, <2>3, <2>4, <2>5, BacklogOnKeeps
<1>2. CASE ~bl.on
  <2>1. bl' = bl /\ cl' = cl
    BY <1>2 DEF replicationFeedSlaves, Become
  <2> QED BY <2>1, SameClients, NoneJoinsKeeps DEF IInv
<1> QED BY <1>1, <1>2

-----------------------------------------------------------------------------
(*                      Every step keeps the invariant                     *)

(* masterTryPartialResynchronization, first case: there is a backlog. *)
LEMMA PartialOK ==
  ASSUME IInv, NEW c \in Conns, PartialResync(c)
  PROVE  IInv'
<1> DEFINE A == TakeRequest(Now, c)
           B == [A EXCEPT !.cl[c].st = "online"]
           S == [B EXCEPT !.cl[c].onack = FALSE]
           msgs == <<Continue>> \o addReplyReplicationBacklog(bl, Head(net[c].up)[3])
<1>1. Whole(A) /\ Shaped(A.cl)
  BY NowWhole, TakeJoins DEF IInv
<1> HIDE DEF A
<1>2. Whole(B) /\ Shaped(B.cl)
  <2>1. "st" \in DOMAIN [A.cl[c] EXCEPT !.st = "online"]
    BY <1>1 DEF Shaped
  <2> QED BY <1>1, <2>1, FieldShaped
<1> HIDE DEF B
<1>3. Whole(S) /\ Shaped(S.cl)
  <2>1. "st" \in DOMAIN [B.cl[c] EXCEPT !.onack = FALSE]
    BY <1>2 DEF Shaped
  <2> QED BY ZenonT(60), <1>2, <2>1, FieldShaped
<1>4. /\ StillHeld(bl, Head(net[c].up)[3]) /\ UNCHANGED <<bl, env>>
      /\ cl' = Sent(S, c, msgs).cl
  BY Zenon DEF PartialResync, Become, A, B
<1> HIDE DEF S, msgs
<1>5. Shaped(cl')
  BY <1>3, <1>4, SentJoins
<1>6. bl.on
  BY <1>4 DEF StillHeld
<1> QED BY <1>4, <1>5, <1>6, BacklogOnKeeps DEF IInv, EnvSized

(* syncCommand with a full resynchronisation: the client may join, and the *)
(* backlog is created when it is the first of the list.                    *)
LEMMA FullOK ==
  ASSUME IInv, NEW c \in Conns, FullSync(c)
  PROVE  IInv'
<1> DEFINE S == [TakeRequest(Now, c) EXCEPT !.cl[c].st = "start"]
           Attached(d) ==
             SetupForFullResync([S EXCEPT !.cl[c].out = cl[d].out], {c}, cl[d].init)
           Result(R) == Become(R) /\ bl' = IF SlaveList(R) = {c} /\ ~bl.on
                                           THEN createReplicationBacklog(bl) ELSE bl
           Joins(R) == Shaped(R.cl) /\ \A d \in Conns \ {c} : InList(R.cl[d]) => InList(cl[d])
<1>1. Whole(S) /\ Joins(S)
  <2> DEFINE A == TakeRequest(Now, c)
             k == [A.cl[c] EXCEPT !.st = "start"]
  <2>1. Whole(A) /\ A.cl = cl
    BY NowWhole, TakeJoins
  <2>2. Shaped(cl)
    BY DEF IInv
  <2> HIDE DEF A
  <2>3. "st" \in DOMAIN k
    BY <2>1, <2>2 DEF Shaped
  <2>4. S = [A EXCEPT !.cl[c] = k]
    BY DEF A
  <2> HIDE DEF k, S
  <2>5. Whole(S) /\ Shaped(S.cl) /\ S.cl = [cl EXCEPT ![c] = k]
    BY <2>1, <2>2, <2>3, <2>4, FieldShaped
  <2>6. \A d \in Conns \ {c} : S.cl[d] = cl[d]
    BY <2>2, <2>5 DEF Shaped
  <2> QED BY <2>5, <2>6
<1>2. ASSUME NEW d PROVE Joins(Attached(d))
  <2> DEFINE T == [S EXCEPT !.cl[c].out = cl[d].out]
             k == [S.cl[c] EXCEPT !.out = cl[d].out]
  <2> HIDE DEF S
  <2>1. "st" \in DOMAIN k
    BY <1>1 DEF Shaped
  <2>2. T = [S EXCEPT !.cl[c] = k]
    OBVIOUS
  <2> HIDE DEF k, T
  <2>3. Whole(T) /\ Shaped(T.cl) /\ T.cl = [S.cl EXCEPT ![c] = k]
    BY ZenonT(60), <1>1, <2>1, <2>2, FieldShaped
  <2>4. \A e \in Conns \ {c} : T.cl[e] = S.cl[e]
    BY SMTT(60), <1>1, <2>3 DEF Shaped
  <2>5. /\ Shaped(SetupForFullResync(T, {c}, cl[d].init).cl)
        /\ \A e \in Conns \ {c} : SetupForFullResync(T, {c}, cl[d].init).cl[e] = T.cl[e]
    <3>1. Shaped(T.cl)
      BY <2>3
    <3>2. \A C, o : /\ Shaped(SetupForFullResync(T, C, o).cl)
                    /\ \A e \in Conns \ C : SetupForFullResync(T, C, o).cl[e] = T.cl[e]
      BY <3>1, SetupJoins
    <3> QED BY <3>2
  <2>6. Joins(SetupForFullResync(T, {c}, cl[d].init))
    BY <1>1, <2>4, <2>5
  <2> QED BY SMTT(60), <2>6 DEF T
<1>3. ASSUME NEW mincapa, NEW R \in startBgsaveForReplication(S, mincapa)
      PROVE  Joins(R)
  <2> HIDE DEF S
  <2>1. NoneJoins(S.cl, R.cl)
    BY <1>1, <1>3, StartJoins
  <2> QED BY <1>1, <2>1 DEF NoneJoins
<1>4. ASSUME NEW R, Joins(R), Result(R), EnvSized'
      PROVE  IInv'
  <2>1. cl' = R.cl
    BY <1>4 DEF Become
  <2>2. CASE bl.on
    <3>1. bl' = bl
      BY <1>4, <2>2
    <3> QED BY <1>4, <2>1, <2>2, <3>1, BacklogOnKeeps DEF IInv
  <2>3. CASE ~bl.on /\ SlaveList(R) = {c}
    <3>1. bl' = createReplicationBacklog(bl)
      BY <1>4, <2>3
    <3>2. BacklogOK(bl')
      BY <3>1, CreateOK DEF IInv
    <3>3. bl'.on
      BY <3>1 DEF createReplicationBacklog
    <3> QED BY <1>4, <2>1, <3>2, <3>3, BacklogOnKeeps
  <2>4. CASE ~bl.on /\ SlaveList(R) # {c}
    <3>1. \A d \in Conns \ {c} : ~InList(R.cl[d])
      BY <1>4, <2>4 DEF IInv, ListHasBacklog
    <3>2. ~InList(R.cl[c])
      BY <2>4, <3>1 DEF SlaveList, InList
    <3>3. bl' = bl
      BY <1>4, <2>4
    <3>4. NoneJoins(cl, cl')
      BY <1>4, <2>1, <3>1, <3>2 DEF NoneJoins
    <3> QED BY SMTT(60), <1>4, <3>3, <3>4, NoneJoinsKeeps DEF IInv
  <2> QED BY <2>2, <2>3, <2>4
<1>5. CASE Result(S) /\ UNCHANGED env
  <2> HIDE DEF S, Joins, Result
  <2> QED BY <1>1, <1>4, <1>5 DEF IInv, EnvSized
<1>6. CASE \E d \in Conns : Result(Attached(d)) /\ UNCHANGED env
  <2> HIDE DEF Attached, Joins, Result
  <2> QED BY <1>2, <1>4, <1>6 DEF IInv, EnvSized
<1>7. CASE \E R \in startBgsaveForReplication(S, Capa(S, c)) :
             Result(R) /\ ChargeFailure(R.m.child.type = "none")
  <2> HIDE DEF S, Joins, Result
  <2>1. PICK R \in startBgsaveForReplication(S, Capa(S, c)) :
               Result(R) /\ ChargeFailure(R.m.child.type = "none")
    BY <1>7
  <2>2. EnvSized'
    BY <2>1, FailureKeeps DEF IInv
  <2> QED BY <1>3, <1>4, <2>1, <2>2
<1>8. \/ Result(S) /\ UNCHANGED env
      \/ \E d \in Conns : Result(Attached(d)) /\ UNCHANGED env
      \/ \E R \in startBgsaveForReplication(S, Capa(S, c)) :
             Result(R) /\ ChargeFailure(R.m.child.type = "none")
  <2>1. \A d : \/ (IF Capa(S, d) => Capa(S, c) THEN Attached(d) ELSE S) = Attached(d)
              \/ (IF Capa(S, d) => Capa(S, c) THEN Attached(d) ELSE S) = S
    BY Zenon
  <2> HIDE DEF S, Attached, Result
  <2> QED BY <2>1, Zenon DEF FullSync, S, Attached, Result
<1> HIDE DEF S, Attached, Result
<1> QED BY <1>5, <1>6, <1>7, <1>8

(* REPLCONF ACK: with a client in the list there is a backlog. *)
LEMMA AckOK ==
  ASSUME IInv, NEW c \in Conns, replconfAck(c)
  PROVE  IInv'
<1> DEFINE S == TakeRequest(Now, c)
           a == IF Head(net[c].up)[2] > S.cl[c].ack THEN Head(net[c].up)[2] ELSE S.cl[c].ack
           R == [S EXCEPT !.cl[c].ack = a]
           T == IF cl[c].onack /\ cl[c].st = "online" THEN putSlaveOnline(R, c) ELSE R
<1>1. bl' = bl /\ env' = env
  BY DEF replconfAck
<1>2. EnvSized' /\ BacklogOK(bl')
  BY <1>1 DEF IInv, EnvSized
<1>3. Whole(S) /\ S.cl = cl /\ Shaped(cl)
  BY NowWhole, TakeJoins DEF IInv
<1>4. CASE c \in SlaveList(Now)
  <2>1. cl' = T.cl
    BY <1>4, Zenon DEF replconfAck, Become
  <2>2. Whole(R) /\ Shaped(R.cl)
    <3> HIDE DEF S, a
    <3>1. "st" \in DOMAIN [S.cl[c] EXCEPT !.ack = a]
      BY <1>3 DEF Shaped
    <3> QED BY SMTT(60), <1>3, <3>1, FieldShaped
  <2>3. Shaped(T.cl)
    <3> HIDE DEF R
    <3> QED BY <2>2, OnlineShaped
  <2>4. bl.on
    BY <1>4 DEF IInv, ListHasBacklog, SlaveList, Now, InList
  <2> HIDE DEF T
  <2> QED BY <1>1, <1>2, <2>1, <2>3, <2>4, BacklogOnKeeps
<1>5. CASE c \notin SlaveList(Now)
  <2>1. cl' = S.cl
    BY <1>5, Zenon DEF replconfAck, Become
  <2> HIDE DEF S
  <2>2. NoneJoins(cl, cl')
    BY <1>3, <2>1, SameClients
  <2> QED BY <1>1, <1>2, <2>2, NoneJoinsKeeps
<1> QED BY <1>4, <1>5

(* sendBulkToSlave, likewise. *)
LEMMA BulkOK ==
  ASSUME IInv, NEW c \in Conns, sendBulkToSlave(c)
  PROVE  IInv'
<1> DEFINE S == Sent(Now, c, <<Rdb(cl[c].snap)>>)
<1>1. /\ cl' = putSlaveOnline(S, c).cl
      /\ bl' = bl /\ env' = env /\ cl[c].st = "bulk"
  BY DEF sendBulkToSlave, Become
<1>2. Whole(S) /\ Shaped(S.cl)
  BY NowWhole, SentJoins DEF IInv
<1> HIDE DEF S
<1>3. Shaped(cl')
  BY <1>1, <1>2, OnlineShaped
<1>4. bl.on
  BY <1>1 DEF IInv, ListHasBacklog, InList
<1> QED BY SMTT(60), <1>1, <1>3, <1>4, BacklogOnKeeps DEF IInv, EnvSized

(* freeClient of one client, by end of file or by decision. *)
LEMMA CloseOK ==
  ASSUME IInv, NEW c \in Conns, MasterReadsEof(c) \/ MasterDrops(c)
  PROVE  IInv'
<1>1. bl' = bl /\ cl' = Freed(Now, {c}).cl
  BY DEF MasterReadsEof, MasterDrops, Become
<1>2. EnvSized'
  BY SpendKeeps DEF MasterReadsEof, MasterDrops, IInv, EnvSized
<1>3. NoneJoins(cl, cl')
  <2>1. Whole(Now) /\ Shaped(Now.cl)
    BY NowWhole DEF IInv
  <2>2. NoneJoins(Now.cl, Freed(Now, {c}).cl)
    BY <2>1, FreedJoins
  <2> QED BY <1>1, <2>2, NowWhole
<1> QED BY <1>1, <1>2, <1>3, NoneJoinsKeeps DEF IInv

(* The end of a BGSAVE: slaves are freed, moved on, or given a new one. *)
LEMMA DoneOK ==
  ASSUME IInv, BgsaveDone
  PROVE  IInv'
<1>1. PICK C, R, spent :
        /\ R \in updateSlavesWaitingBgsave(Freed(Now, C), m.child.type)
        /\ cl' = R.cl /\ env' = [env EXCEPT !.fails = @ - spent] /\ bl' = bl
  BY ZenonT(60) DEF BgsaveDone, Become
<1> DEFINE S == Freed(Now, C)
<1>2. Whole(S) /\ NoneJoins(cl, S.cl)
  <2>1. Whole(Now) /\ Shaped(Now.cl) /\ Now.cl = cl
    BY NowWhole DEF IInv
  <2> HIDE DEF S
  <2>2. Whole(S) /\ NoneJoins(Now.cl, S.cl)
    BY <2>1, FreedJoins DEF S
  <2> QED BY <2>1, <2>2
<1> HIDE DEF S
<1>3. NoneJoins(S.cl, R.cl)
  <2>1. Shaped(S.cl)
    BY <1>2 DEF NoneJoins
  <2>2. R \in updateSlavesWaitingBgsave(S, m.child.type)
    BY <1>1 DEF S
  <2> QED BY <1>2, <2>1, <2>2, UpdateJoins
<1>4. NoneJoins(cl, cl')
  BY <1>1, <1>2, <1>3 DEF NoneJoins
<1>5. EnvSized'
  BY <1>1 DEF IInv, EnvSized
<1> QED BY <1>1, <1>4, <1>5, NoneJoinsKeeps DEF IInv

(* replicationCron starts a BGSAVE for slaves that wait. *)
LEMMA CronOK ==
  ASSUME IInv, CronBgsave
  PROVE  IInv'
<1>1. PICK mincapa, R :
        /\ R \in startBgsaveForReplication(Now, mincapa)
        /\ cl' = R.cl /\ ChargeFailure(R.m.child.type = "none")
  BY Zenon DEF CronBgsave, Become
<1>2. bl' = bl
  BY DEF CronBgsave
<1>3. NoneJoins(cl, cl')
  <2>1. Whole(Now) /\ Shaped(Now.cl) /\ Now.cl = cl
    BY NowWhole DEF IInv
  <2>2. NoneJoins(Now.cl, R.cl)
    BY <1>1, <2>1, StartJoins
  <2> QED BY <1>1, <2>1, <2>2
<1>4. EnvSized'
  BY <1>1, FailureKeeps DEF IInv
<1> QED BY <1>2, <1>3, <1>4, NoneJoinsKeeps DEF IInv

(* The steps that feed the stream. *)
LEMMA FeedingOK ==
  ASSUME IInv,
         (\E d \in Dbs : Write(d)) \/ PingSlaves
           \/ (\E n \in 1 .. Cardinality(Slaves) : waitCommand(n))
  PROVE  IInv'
<1>1. ASSUME NEW d \in Dbs, Write(d) PROVE IInv'
  <2> DEFINE data == Append(m.data, <<m.nextid, d>>)
             A == [Now EXCEPT !.m.data = data]
             S == [A EXCEPT !.m.nextid = @ + 1]
             units == WriteUnits(m.nextid, env.arglen)
  <2>1. replicationFeedSlaves(S, d, units)
    BY ZenonT(60), <1>1 DEF Write, Now
  <2>4. units \in Seq(Range(units)) /\ Len(units) > 0
    BY WriteSeq DEF IInv, EnvSized
  <2>2. EnvSized'
    BY ZenonT(60), <1>1, SpendKeeps DEF Write, IInv
  <2>3. Whole(S) /\ S.cl = cl
    <3>1. Whole(A) /\ A.cl = cl
      <4> HIDE DEF data
      <4> QED BY DEF Whole, Now
    <3> HIDE DEF A
    <3> QED BY <3>1 DEF Whole
  <2> HIDE DEF S, units
  <2> QED BY <2>1, <2>2, <2>3, <2>4, FeedKeeps
<1>2. CASE PingSlaves
  <2>1. replicationFeedSlaves(Now, m.slaveseldb, PingUnits)
    BY <1>2 DEF PingSlaves
  <2>2. EnvSized'
    BY <1>2, SpendKeeps DEF PingSlaves, IInv
  <2>3. PingUnits \in Seq(Range(PingUnits)) /\ Len(PingUnits) > 0
    BY OneUnit DEF PingUnits
  <2> QED BY <2>1, <2>2, <2>3, NowWhole, FeedKeeps
<1>3. ASSUME NEW n \in 1 .. Cardinality(Slaves), waitCommand(n) PROVE IInv'
  <2>1. EnvSized'
    BY ZenonT(60), <1>3, SpendKeeps DEF waitCommand, IInv
  <2>2. CASE replicationFeedSlaves(Now, m.slaveseldb, GetAckUnits)
    <3>1. GetAckUnits \in Seq(Range(GetAckUnits)) /\ Len(GetAckUnits) > 0
      BY OneUnit DEF GetAckUnits
    <3> QED BY <2>1, <2>2, <3>1, NowWhole, FeedKeeps
  <2>3. CASE UNCHANGED <<bl, m, cl, net>>
    BY <2>1, <2>3, SameClients, NoneJoinsKeeps DEF IInv
  <2> QED BY ZenonT(60), <1>3, <2>2, <2>3 DEF waitCommand
<1> QED BY <1>1, <1>2, <1>3

(* The steps that free, resize or lose the backlog. *)
LEMMA BacklogStepsOK ==
  ASSUME IInv,
         CronFreeBacklog \/ MasterRestarts \/ (\E size \in Sizes : ConfigSetBacklog(size))
  PROVE  IInv'
<1>1. CASE CronFreeBacklog
  <2>1. \A c \in Conns : ~InList(cl[c])
    BY <1>1 DEF CronFreeBacklog, SlaveList, Now, InList
  <2>2. bl' = freeReplicationBacklog(bl) /\ cl' = cl /\ env' = env
    BY <1>1 DEF CronFreeBacklog
  <2>3. BacklogOK(bl')
    BY <2>2, FreeOK DEF IInv
  <2>4. ListHasBacklog'
    BY <2>1, <2>2 DEF ListHasBacklog
  <2> QED BY <2>2, <2>3, <2>4 DEF IInv, EnvSized
<1>2. CASE MasterRestarts
  <2>1. /\ EnvSized' /\ bl' = NoBacklog(env.size)
    BY ZenonT(60), <1>2, SpendKeeps DEF MasterRestarts, IInv
  <2>2. cl' = Freed(Now, Conns).cl
    <3>1. Whole(Freed(Now, Conns))
      BY NowWhole, FreedJoins DEF IInv
    <3>2. \A mm : [Freed(Now, Conns) EXCEPT !.m = mm].cl = Freed(Now, Conns).cl
      BY <3>1 DEF Whole
    <3> QED BY <1>2, <3>2, Zenon DEF MasterRestarts, Become
  <2>3. Shaped(cl') /\ \A c \in Conns : ~InList(cl'[c])
    BY <2>2, NowWhole, FreedJoins DEF IInv, NoneJoins
  <2>4. BacklogOK(bl')
    <3> DEFINE n == env.size
    <3>1. n \in Nat \ {0}
      BY ZenonT(60), SizesAssumption DEF IInv, EnvSized
    <3> HIDE DEF n
    <3> QED BY <2>1, <3>1, NoBacklogOK DEF n
  <2>5. ListHasBacklog'
    BY <2>3 DEF ListHasBacklog
  <2> QED BY <2>1, <2>3, <2>4, <2>5 DEF IInv
<1>3. ASSUME NEW size \in Sizes, ConfigSetBacklog(size) PROVE IInv'
  <2>1. bl' = resizeReplicationBacklog(bl, size) /\ cl' = cl
    BY <1>3 DEF ConfigSetBacklog
  <2>2. EnvSized'
    BY <1>3, SpendKeeps DEF ConfigSetBacklog, IInv
  <2>3. BacklogOK(bl')
    BY <2>1, ResizeOK, SizesAssumption DEF IInv
  <2>4. bl.on => bl'.on
    <3>1. bl = [on |-> bl.on, size |-> bl.size, buf |-> bl.buf, idx |-> bl.idx,
                histlen |-> bl.histlen, off |-> bl.off, offset |-> bl.offset,
                stream |-> bl.stream]
      BY DEF IInv, BacklogOK
    <3> QED BY <2>1, <3>1 DEF resizeReplicationBacklog
  <2> QED BY <2>1, <2>2, <2>3, <2>4, SameClients, NoneJoinsKeeps
<1> QED BY <1>1, <1>2, <1>3

(* The steps of a slave: its client structure on the master appears as     *)
(* one that is not in the list, or is marked as no longer open.            *)
LEMMA SlaveOK ==
  ASSUME IInv, NEW s \in Slaves,
         (\E c \in Conns : SlaveConnects(s, c)) \/ SlaveReads(s) \/ replicationSendAck(s)
           \/ SlaveReadsEof(s) \/ SlaveDrops(s)
  PROVE  IInv'
<1>1. bl' = bl
  BY ZenonT(60) DEF SlaveConnects, SlaveReads, replicationSendAck, SlaveReadsEof, SlaveDrops
<1>2. EnvSized'
  <2>1. CASE env' = env
    BY <2>1 DEF IInv, EnvSized
  <2>2. CASE Spend("acks") \/ Spend("breaks")
    BY <2>2, SpendKeeps DEF IInv
  <2> QED BY ZenonT(60), <2>1, <2>2 DEF SlaveConnects, SlaveReads, replicationSendAck,
                            SlaveReadsEof, SlaveDrops
<1>3. Shaped(cl)
  BY DEF IInv
<1>4. ASSUME NEW c \in Conns, SlaveConnects(s, c) PROVE NoneJoins(cl, cl')
  <2> DEFINE k == [ClosedClient EXCEPT !.owner = s, !.st = "conn", !.open = TRUE]
  <2>1. cl' = [cl EXCEPT ![c] = k]
    BY ZenonT(60), <1>4 DEF SlaveConnects
  <2>2. k.st = "conn" /\ "st" \in DOMAIN k
    BY DEF ClosedClient
  <2> HIDE DEF k
  <2>3. ~InList(k)
    BY <2>2 DEF InList
  <2>4. cl' = [d \in Conns |-> IF d = c THEN k ELSE cl[d]]
    BY <1>3, <2>1 DEF Shaped
  <2>5. Shaped(cl')
    BY <1>3, <2>2, <2>4 DEF Shaped
  <2> QED BY <2>3, <2>4, <2>5 DEF NoneJoins
<1>5. ASSUME SlaveReads(s) \/ replicationSendAck(s) PROVE NoneJoins(cl, cl')
  BY ZenonT(60), <1>5, SameClients DEF SlaveReads, replicationSendAck
<1>6. ASSUME SlaveReadsEof(s) \/ SlaveDrops(s) PROVE NoneJoins(cl, cl')
  <2> DEFINE c == sl[s].conn
             k == IF cl[c].st = "closed" THEN ClosedClient ELSE [cl[c] EXCEPT !.open = FALSE]
  <2>1. cl' = [cl EXCEPT ![c] = k]
    BY ZenonT(60), <1>6 DEF SlaveReadsEof, SlaveDrops, Disconnected
  <2>2. c \in Conns => "st" \in DOMAIN k /\ (InList(k) => InList(cl[c]))
    <3> HIDE DEF c
    <3>1. ASSUME c \in Conns PROVE "st" \in DOMAIN k /\ (InList(k) => InList(cl[c]))
      <4>1. CASE cl[c].st = "closed"
        BY <4>1 DEF ClosedClient, InList
      <4>2. CASE cl[c].st # "closed"
        BY <1>3, <3>1, <4>2 DEF Shaped, InList
      <4> QED BY <4>1, <4>2
    <3> QED BY <3>1
  <2> HIDE DEF k, c
  <2>3. cl' = [d \in Conns |-> IF d = c THEN k ELSE cl[d]]
    BY <1>3, <2>1 DEF Shaped
  <2>4. Shaped(cl')
    BY <1>3, <2>2, <2>3 DEF Shaped
  <2> QED BY <2>2, <2>3, <2>4 DEF NoneJoins
<1>7. NoneJoins(cl, cl')
  BY <1>4, <1>5, <1>6
<1> QED BY <1>1, <1>2, <1>7, NoneJoinsKeeps DEF IInv

(* Every handler of the master and every step of a slave keeps it. *)
LEMMA StepOK == IInv /\ [Next]_vars => IInv'
<1> SUFFICES ASSUME IInv, [Next]_vars PROVE IInv'
  OBVIOUS
<1>1. ASSUME NEW c \in Conns, syncCommand(c) PROVE IInv'
  BY <1>1, PartialOK, FullOK DEF syncCommand
<1>2. ASSUME NEW c \in Conns,
             replconfAck(c) \/ sendBulkToSlave(c) \/ MasterReadsEof(c) \/ MasterDrops(c)
      PROVE  IInv'
  BY <1>2, AckOK, BulkOK, CloseOK
<1>3. CASE AofChildDone \/ ChildStreams \/ WaitTimeout
  <2>1. bl' = bl /\ cl' = cl /\ env' = env
    BY <1>3 DEF AofChildDone, ChildStreams, WaitTimeout
  <2> QED BY <2>1, SameClients, NoneJoinsKeeps DEF IInv, EnvSized
<1>4. CASE UserBgsave
  <2>1. bl' = bl /\ cl' = cl /\ Spend("bgsaves")
    BY <1>4 DEF UserBgsave
  <2> QED BY <2>1, SpendKeeps, SameClients, NoneJoinsKeeps DEF IInv
<1>5. CASE UNCHANGED vars
  <2>1. bl' = bl /\ cl' = cl /\ env' = env
    BY <1>5 DEF vars
  <2> QED BY <2>1, SameClients, NoneJoinsKeeps DEF IInv, EnvSized
<1>6. CASE MasterStep
  BY <1>1, <1>2, <1>3, <1>6, DoneOK, CronOK DEF MasterStep
<1>7. CASE SlaveStep
  BY <1>7, SlaveOK DEF SlaveStep
<1>8. CASE Disturbance
  BY <1>2, <1>3, <1>4, <1>8, FeedingOK, BacklogStepsOK, SlaveOK DEF Disturbance
<1> QED BY <1>5, <1>6, <1>7, <1>8 DEF Next

(* The inductive invariant: the backlog is well formed and holds the tail  *)
(* of the stream, and no client is in the list of slaves without it.       *)
THEOREM Invariance == Spec => []IInv
  BY InitOK, StepOK, PTL DEF Spec

(* Whatever the size of the backlog, however often it is created, freed,   *)
(* resized and wrapped around, it holds the tail of the stream.            *)
THEOREM BacklogIsTail == Spec => []BacklogHoldsTail
<1>1. IInv => BacklogHoldsTail
  BY DEF IInv, BacklogHoldsTail
<1> QED BY <1>1, Invariance, PTL

(* A slave that is told +CONTINUE is sent exactly the bytes it misses.     *)
THEOREM PsyncIsExact == Spec => []PsyncSendsMissing
<1>1. IInv => PsyncSendsMissing
  <2> SUFFICES ASSUME IInv, NEW offset \in bl.off .. bl.off + bl.histlen,
                      StillHeld(bl, offset)
               PROVE  addReplyReplicationBacklog(bl, offset)
                        = SubSeq(bl.stream, offset, bl.offset)
    BY DEF PsyncSendsMissing
  <2> QED BY ReplyIsTail DEF IInv
<1> QED BY <1>1, Invariance, PTL

(* The assertions of replicationFeedSlaves (a master with slaves has a     *)
(* backlog) and freeReplicationBacklog (one without slaves is freed) hold. *)
THEOREM NoSlavesWithoutBacklog == Spec => []SlavesHaveBacklog
<1>1. IInv => SlavesHaveBacklog
  BY ListIsSlaveList DEF IInv
<1> QED BY <1>1, Invariance, PTL
=============================================================================
