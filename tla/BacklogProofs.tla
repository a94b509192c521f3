---------------------------- MODULE BacklogProofs ----------------------------
(***************************************************************************)
(* Lemmas on the circular backlog of replication.c, for every size and     *)
(* every stream: what creating, resizing, freeing and feeding it keep, and *)
(* that the bytes sent for a partial resynchronisation are the stream's    *)
(* tail.                                                                   *)
(***************************************************************************)
EXTENDS Backlog, WellFoundedInduction, TLAPS

(* Appending any value to a sequence. *)
LEMMA AppendAny ==
  ASSUME NEW s, s \in Seq(Range(s)), NEW x
  PROVE  /\ Append(s, x) \in Seq(Range(Append(s, x)))
         /\ Len(Append(s, x)) = Len(s) + 1
         /\ \A i \in 1 .. Len(s) : Append(s, x)[i] = s[i]
         /\ Append(s, x)[Len(s) + 1] = x
<1> DEFINE S == Range(s) \cup {x}
           t == Append(s, x)
<1>1. s \in Seq(S)
  BY SMT DEF Range
<1>2. /\ t \in Seq(S) /\ Len(t) = Len(s) + 1
      /\ \A i \in 1 .. Len(s) : t[i] = s[i]
      /\ t[Len(s) + 1] = x
  BY <1>1
<1>3. t \in Seq(Range(t))
  <2>1. \A i \in 1 .. Len(t) : t[i] \in Range(t)
    BY <1>2 DEF Range
  <2> HIDE DEF t
  <2> QED BY <1>2, <2>1
<1> QED BY <1>2, <1>3

(* Joining two sequences of any values. *)
LEMMA ConcatAny ==
  ASSUME NEW s, s \in Seq(Range(s)), NEW p, p \in Seq(Range(p))
  PROVE  /\ s \o p \in Seq(Range(s \o p))
         /\ Len(s \o p) = Len(s) + Len(p)
         /\ \A i \in 1 .. Len(s) : (s \o p)[i] = s[i]
         /\ \A i \in 1 .. Len(p) : (s \o p)[Len(s) + i] = p[i]
<1> DEFINE S == Range(s) \cup Range(p)
           t == s \o p
<1>1. s \in Seq(S) /\ p \in Seq(S)
  BY SMT DEF Range
<1>2. /\ t \in Seq(S) /\ Len(t) = Len(s) + Len(p)
      /\ \A i \in 1 .. Len(s) : t[i] = s[i]
      /\ \A i \in 1 .. Len(p) : t[Len(s) + i] = p[i]
  BY <1>1
<1>3. t \in Seq(Range(t))
  <2> HIDE DEF t, S
  <2>1. \A i \in 1 .. Len(t) : t[i] \in Range(t)
    <3>1. DOMAIN t = 1 .. Len(t)
      BY <1>2
    <3> QED BY <3>1, Zenon DEF Range
  <2> QED BY <1>2, <2>1
<1> QED BY <1>2, <1>3

(* The index arithmetic of a circular buffer. *)
LEMMA ModBelow ==
  ASSUME NEW n \in Nat \ {0}, NEW a \in 0 .. n - 1 PROVE a % n = a
  BY SMT

(* One turn of the buffer too far is taken back by the remainder. *)
LEMMA ModOnce ==
  ASSUME NEW n \in Nat \ {0}, NEW a \in n .. 2 * n - 1 PROVE a % n = a - n
<1>1. (a % n) \in 0 .. n - 1
  BY SMT
<1>2. (a \div n) \in Int /\ a = n * (a \div n) + (a % n)
  BY SMT
<1>3. CASE (a \div n) <= 0
  <2>1. n * (a \div n) <= 0
    BY <1>2, <1>3
  <2> QED BY <1>1, <1>2, <2>1
<1>4. CASE (a \div n) >= 2
  <2>1. n * (a \div n) >= 2 * n
    BY <1>2, <1>4
  <2> QED BY <1>1, <1>2, <2>1
<1> QED BY <1>1, <1>2, <1>3, <1>4

(* When the write position i of a buffer of n cells moves on by k, at most *)
(* to the end, the k newest units are in the cells it moved over; the cell *)
(* of an older unit is the one it was, and is not one of those.            *)
LEMMA CellsMove ==
  ASSUME NEW n \in Nat \ {0}, NEW i \in 0 .. n - 1, NEW k \in 0 .. n - i,
         NEW d \in 0 .. n - 1, NEW x \in Int, x = IF i + k = n THEN 0 ELSE i + k
  PROVE  /\ CellOf(x, n, d) \in 0 .. n - 1
         /\ d < k => /\ CellOf(x, n, d) = ((i + k) - 1) - d
                     /\ CellOf(x, n, d) \in i .. (i + k) - 1
         /\ d >= k => /\ CellOf(x, n, d) = CellOf(i, n, d - k)
                      /\ CellOf(x, n, d) \notin i .. (i + k) - 1
<1>1. CASE i + k = n
  BY <1>1 DEF CellOf
<1>2. CASE i + k # n
  BY <1>2 DEF CellOf
<1> QED BY <1>1, <1>2

(* Induction over the natural numbers, for a set. *)
LEMMA Induct ==
  ASSUME NEW S, 0 \in S, \A n \in Nat : n \in S => n + 1 \in S
  PROVE  Nat \subseteq S
<1> SUFFICES ASSUME ~(Nat \subseteq S) PROVE FALSE
  OBVIOUS
<1> DEFINE T == Nat \ S
<1>1. T \subseteq Nat /\ T # {}
  OBVIOUS
<1>2. PICK x \in T : \A y \in T : ~(<<y, x>> \in OpToRel(<,Nat))
  <2> HIDE DEF T
  <2> QED BY <1>1, WFMin, NatLessThanWellFounded, Zenon
<1>3. \A y \in T : ~(y < x)
  BY <1>2, Zenon DEF OpToRel
<1>4. x \in Nat /\ x # 0 /\ x - 1 \in Nat
  <2>1. x \in T
    BY <1>2, Zenon
  <2> QED BY <2>1
<1>5. x - 1 \notin T
  BY <1>3, <1>4
<1> QED BY <1>4, <1>5

-----------------------------------------------------------------------------
(*                      The operations on the backlog                      *)

(* A server that has just started. *)
LEMMA NoBacklogOK ==
  ASSUME NEW n \in Nat \ {0}
  PROVE  BacklogOK(NoBacklog(n))
<1> DEFINE r == NoBacklog(n)
<1>1. r = [on |-> FALSE, size |-> n, buf |-> FreshMemory(n), idx |-> 0,
           histlen |-> 0, off |-> 0, offset |-> 0, stream |-> <<>>]
  BY DEF NoBacklog
<1> HIDE DEF r
<1>2. r.buf = [i \in 0 .. r.size - 1 |-> r.buf[i]]
  BY <1>1 DEF FreshMemory
<1>3. r.stream \in Seq(Range(r.stream)) /\ Len(r.stream) = 0
  <2>1. r.stream = <<>>
    BY <1>1
  <2>2. \A S : <<>> \in Seq(S)
    OBVIOUS
  <2>3. Len(<<>>) = 0
    OBVIOUS
  <2> QED BY <2>1, <2>2, <2>3, Zenon
<1>4. BacklogOK(r)
  BY <1>1, <1>2, <1>3 DEF BacklogOK, HoldsTail
<1> QED BY <1>4 DEF r

(* createReplicationBacklog: an empty buffer, and an offset nobody has. *)
LEMMA CreateOK ==
  ASSUME NEW b, BacklogOK(b)
  PROVE  BacklogOK(createReplicationBacklog(b))
<1> DEFINE r == createReplicationBacklog(b)
<1>1. r = [on |-> TRUE, size |-> b.size, buf |-> FreshMemory(b.size), idx |-> 0,
           histlen |-> 0, off |-> b.offset + 2, offset |-> b.offset + 1,
           stream |-> Append(b.stream, Skipped)]
  BY DEF createReplicationBacklog
<1>2. /\ r.stream \in Seq(Range(r.stream)) /\ Len(r.stream) = r.offset
  BY <1>1, AppendAny DEF BacklogOK, HoldsTail
<1>3. HoldsTail(r)
  BY <1>1, <1>2 DEF BacklogOK, HoldsTail
<1>4. r.buf = [i \in 0 .. r.size - 1 |-> r.buf[i]]
  BY <1>1 DEF FreshMemory
<1> HIDE DEF r
<1>5. BacklogOK(r)
  BY <1>1, <1>2, <1>3, <1>4 DEF BacklogOK
<1> QED BY <1>5 DEF r

(* resizeReplicationBacklog: with or without a backlog, nothing is kept. *)
LEMMA ResizeOK ==
  ASSUME NEW b, BacklogOK(b), NEW n \in Nat \ {0}
  PROVE  BacklogOK(resizeReplicationBacklog(b, n))
<1> DEFINE r == resizeReplicationBacklog(b, n)
<1>1. CASE n = b.size
  BY <1>1 DEF resizeReplicationBacklog
<1>2. CASE n # b.size /\ b.on
  <2>1. r = [on |-> b.on, size |-> n, buf |-> FreshMemory(n), idx |-> 0,
             histlen |-> 0, off |-> b.offset + 1, offset |-> b.offset,
             stream |-> b.stream]
    BY Zenon, <1>2 DEF BacklogOK, resizeReplicationBacklog
  <2>2. r.buf = [i \in 0 .. r.size - 1 |-> r.buf[i]]
    BY <2>1 DEF FreshMemory
  <2>3. HoldsTail(r)
    BY <2>1 DEF BacklogOK, HoldsTail
  <2> HIDE DEF r
  <2>4. BacklogOK(r)
    BY <1>2, <2>1, <2>2, <2>3 DEF BacklogOK
  <2> QED BY <2>4 DEF r
<1>3. CASE n # b.size /\ ~b.on
  <2>1. r = [on |-> b.on, size |-> n, buf |-> FreshMemory(n), idx |-> b.idx,
             histlen |-> b.histlen, off |-> b.off, offset |-> b.offset,
             stream |-> b.stream]
    BY ZenonT(60), <1>3 DEF BacklogOK, resizeReplicationBacklog
  <2>2. r.buf = [i \in 0 .. r.size - 1 |-> r.buf[i]]
    BY <2>1 DEF FreshMemory
  <2>3. HoldsTail(r)
    BY <1>3, <2>1 DEF BacklogOK, HoldsTail
  <2> HIDE DEF r
  <2>4. BacklogOK(r)
    BY <1>3, <2>1, <2>2, <2>3 DEF BacklogOK
  <2> QED BY <2>4 DEF r
<1> QED BY <1>1, <1>2, <1>3 DEF BacklogOK

(* freeReplicationBacklog keeps the offset. *)
LEMMA FreeOK ==
  ASSUME NEW b, BacklogOK(b)
  PROVE  BacklogOK(freeReplicationBacklog(b))
<1> DEFINE r == freeReplicationBacklog(b)
<1>1. r = [on |-> FALSE, size |-> b.size, buf |-> FreshMemory(b.size), idx |-> b.idx,
           histlen |-> b.histlen, off |-> b.off, offset |-> b.offset,
           stream |-> b.stream]
  BY DEF freeReplicationBacklog
<1>2. r.buf = [i \in 0 .. r.size - 1 |-> r.buf[i]]
  BY <1>1 DEF FreshMemory
<1>3. HoldsTail(r)
  BY <1>1 DEF BacklogOK, HoldsTail
<1> HIDE DEF r
<1>4. BacklogOK(r)
  BY <1>1, <1>2, <1>3 DEF BacklogOK
<1> QED BY <1>4 DEF r

(* The first n turns of the loop of feedReplicationBacklog. *)
IsCopy(b, p, n, r) ==
  r = [i \in 0 .. n |->
         IF i = 0 THEN CopyStart(b) ELSE CopyPiece(r[i - 1], p, b.size)]

(* The loop can take any number of turns. *)
LEMMA CopyExists ==
  ASSUME NEW b, NEW p
  PROVE  \A n \in Nat : \E r : IsCopy(b, p, n, r)
<1> DEFINE S == {n \in Nat : \E r : IsCopy(b, p, n, r)}
<1>1. 0 \in S
  <2>1. IsCopy(b, p, 0, [i \in 0 .. 0 |-> CopyStart(b)])
    BY DEF IsCopy
  <2> QED BY <2>1
<1>2. ASSUME NEW n \in Nat, n \in S PROVE n + 1 \in S
  <2>1. PICK r : IsCopy(b, p, n, r)
    BY <1>2
  <2> DEFINE next == CopyPiece(r[n], p, b.size)
             q == [i \in 0 .. n + 1 |-> IF i = n + 1 THEN next ELSE r[i]]
  <2>2. ASSUME NEW i \in 0 .. n + 1
        PROVE  q[i] = IF i = 0 THEN CopyStart(b) ELSE CopyPiece(q[i - 1], p, b.size)
    <3>1. CASE i = n + 1
      <4>1. q[i] = next /\ i # 0 /\ q[i - 1] = r[n]
        BY <3>1
      <4> QED BY <4>1
    <3>2. CASE i # n + 1
      <4>1. q[i] = r[i] /\ i \in 0 .. n /\ (i # 0 => q[i - 1] = r[i - 1])
        BY <3>2
      <4>2. r[i] = IF i = 0 THEN CopyStart(b) ELSE CopyPiece(r[i - 1], p, b.size)
        BY <2>1, <4>1 DEF IsCopy
      <4> QED BY <4>1, <4>2
    <3> QED BY <3>1, <3>2
  <2>3. IsCopy(b, p, n + 1, q)
    BY <2>2 DEF IsCopy
  <2> QED BY <2>3
<1> HIDE DEF S
<1>3. Nat \subseteq S
  BY <1>1, <1>2, Induct
<1> QED BY <1>3 DEF S

(* CopyLoop takes one turn after the other. *)
LEMMA CopyStep ==
  ASSUME NEW b, NEW p, Len(p) \in Nat
  PROVE  /\ CopyLoop(b, p)[0] = CopyStart(b)
         /\ \A i \in 1 .. Len(p) :
              CopyLoop(b, p)[i] = CopyPiece(CopyLoop(b, p)[i - 1], p, b.size)
<1> DEFINE r == CopyLoop(b, p)
<1>1. \E q : IsCopy(b, p, Len(p), q)
  BY CopyExists
<1>2. r = CHOOSE q : IsCopy(b, p, Len(p), q)
  BY DEF CopyLoop, IsCopy
<1>3. IsCopy(b, p, Len(p), r)
  <2> HIDE DEF r
  <2> QED BY <1>1, <1>2
<1> HIDE DEF r
<1>4. r[0] = CopyStart(b) /\ \A i \in 1 .. Len(p) : r[i] = CopyPiece(r[i - 1], p, b.size)
  BY <1>3 DEF IsCopy
<1> QED BY <1>4 DEF r

(* Between two turns of the loop: n cells hold what the stream t has up to *)
(* the last unit copied; e and h are the offset and histlen before.        *)
LoopOK(s, n, e, h, l, t) ==
  /\ s.done \in 0 .. l /\ s.idx \in 0 .. n - 1 /\ s.histlen = h + s.done
  /\ s.buf = [c \in 0 .. n - 1 |-> s.buf[c]]
  /\ \A d \in 0 .. n - 1 :
       d < s.histlen => s.buf[CellOf(s.idx, n, d)] = t[(e + s.done) - d]

(* The place in the data of the cell d steps behind the new idx, when this *)
(* turn has written it.                                                    *)
LEMMA NewCell ==
  ASSUME NEW i \in Int, NEW k \in Int, NEW g \in Int, NEW e \in Int,
         NEW l \in Int, NEW d \in Int, NEW c \in Int,
         0 <= d, d < k, 0 <= g, g + k <= l, c = ((i + k) - 1) - d
  PROVE  /\ (g + 1) + (c - i) = (g + k) - d
         /\ (g + k) - d \in 1 .. l
         /\ e + ((g + k) - d) = (e + (g + k)) - d
OBVIOUS

(* The same when an earlier turn, or an earlier feed, has.                 *)
LEMMA OldCell ==
  ASSUME NEW n \in Int, NEW k \in Int, NEW g \in Int, NEW e \in Int,
         NEW m \in Int, NEW d \in 0 .. n - 1,
         0 <= k, k <= d, d < m + k
  PROVE  /\ d - k \in 0 .. n - 1
         /\ d - k < m
         /\ (e + g) - (d - k) = (e + (g + k)) - d
OBVIOUS

(* A turn keeps that, and copies a unit if there is one left. *)
LEMMA PieceOK ==
  ASSUME NEW n \in Nat \ {0}, NEW e \in Nat, NEW h \in Nat, NEW p, NEW l \in Nat,
         Len(p) = l, NEW t, \A i \in 1 .. l : t[e + i] = p[i],
         NEW s, LoopOK(s, n, e, h, l, t)
  PROVE  /\ LoopOK(CopyPiece(s, p, n), n, e, h, l, t)
         /\ s.done < l => CopyPiece(s, p, n).done > s.done
         /\ CopyPiece(s, p, n).done >= s.done
<1> DEFINE i == s.idx
           g == s.done
           k == IF n - i > l - g THEN l - g ELSE n - i
           x == IF i + k = n THEN 0 ELSE i + k
           New(c) == IF c \in i .. (i + k) - 1 THEN p[(g + 1) + (c - i)] ELSE s.buf[c]
           r == CopyPiece(s, p, n)
<1>1. r = [buf |-> [c \in 0 .. n - 1 |-> New(c)], idx |-> x,
           histlen |-> s.histlen + k, done |-> g + k]
  BY DEF CopyPiece
<1>2. g \in 0 .. l /\ i \in 0 .. n - 1 /\ s.histlen = h + g
  BY DEF LoopOK
<1>0. \A d \in 0 .. n - 1 :
        d < s.histlen => s.buf[CellOf(i, n, d)] = t[(e + g) - d]
  BY Zenon DEF LoopOK
<1>3. k \in 0 .. n - i /\ k \in 0 .. l - g /\ (g < l => k > 0)
  <2> HIDE DEF i, g
  <2> QED BY <1>2
<1>4. r.done = g + k /\ r.idx = x /\ r.histlen = s.histlen + k
      /\ r.buf = [c \in 0 .. n - 1 |-> New(c)]
  <2> HIDE DEF x, k, g, New
  <2> QED BY <1>1
<1> HIDE DEF r
<1>5. x \in 0 .. n - 1
  <2> HIDE DEF i, k
  <2> QED BY <1>2, <1>3
<1>6. ASSUME NEW d \in 0 .. n - 1, d < r.histlen
      PROVE  r.buf[CellOf(x, n, d)] = t[(e + (g + k)) - d]
  <2> DEFINE c == CellOf(x, n, d)
  <2>1. /\ c \in 0 .. n - 1
        /\ d < k => c = ((i + k) - 1) - d /\ c \in i .. (i + k) - 1
        /\ d >= k => c = CellOf(i, n, d - k) /\ c \notin i .. (i + k) - 1
    <3>1. x \in Int /\ x = IF i + k = n THEN 0 ELSE i + k
      BY <1>5
    <3> HIDE DEF x, i, k
    <3>2. \A y \in Int : y = (IF i + k = n THEN 0 ELSE i + k)
            => /\ CellOf(y, n, d) \in 0 .. n - 1
               /\ d < k => /\ CellOf(y, n, d) = ((i + k) - 1) - d
                           /\ CellOf(y, n, d) \in i .. (i + k) - 1
               /\ d >= k => /\ CellOf(y, n, d) = CellOf(i, n, d - k)
                            /\ CellOf(y, n, d) \notin i .. (i + k) - 1
      BY <1>2, <1>3, CellsMove
    <3> QED BY <3>1, <3>2, Zenon
  <2> HIDE DEF c
  <2>2. r.buf[c] = New(c)
    BY <1>4, <2>1
  <2>3. CASE d < k
    <3>1. New(c) = p[(g + 1) + (c - i)]
      BY <2>1, <2>3
    <3>2. (g + 1) + (c - i) = (g + k) - d /\ (g + k) - d \in 1 .. l
          /\ e + ((g + k) - d) = (e + (g + k)) - d
      <4>1. c = ((i + k) - 1) - d /\ c \in Int
        BY <2>1, <2>3
      <4> HIDE DEF i, g, k
      <4>2. i \in Int /\ g \in Int /\ k \in Int /\ 0 <= g /\ g + k <= l
        BY <1>2, <1>3
      <4>3. e \in Int /\ l \in Int /\ d \in Int /\ 0 <= d
        OBVIOUS
      <4> QED BY <2>3, <4>1, <4>2, <4>3, NewCell, SMTT(30)
    <3>3. t[e + ((g + k) - d)] = p[(g + k) - d]
      <4> HIDE DEF i, g, k
      <4> QED BY <3>2
    <3> HIDE DEF i, g, k, New
    <3> QED BY <2>2, <3>1, <3>2, <3>3 DEF c
  <2>4. CASE d >= k
    <3>1. New(c) = s.buf[CellOf(i, n, d - k)]
      BY <2>1, <2>4
    <3>2. d - k \in 0 .. n - 1 /\ d - k < s.histlen
          /\ (e + g) - (d - k) = (e + (g + k)) - d
      <4>1. d < s.histlen + k
        BY <1>4, <1>6
      <4> HIDE DEF i, g, k
      <4>2. g \in Int /\ k \in Int /\ 0 <= k /\ k <= d
        BY <1>2, <1>3, <2>4
      <4>3. s.histlen \in Int
        BY <1>2
      <4>4. n \in Int /\ e \in Int
        OBVIOUS
      <4> QED BY <4>1, <4>2, <4>3, <4>4, OldCell, SMTT(30)
    <3> HIDE DEF i, g, k, New
    <3> QED BY <1>0, <2>2, <3>1, <3>2 DEF c
  <2>5. d < k \/ d >= k
    <3> HIDE DEF k
    <3> QED BY <1>3
  <2> QED BY <2>3, <2>4, <2>5
<1>7. r.done \in 0 .. l /\ r.histlen = h + r.done /\ r.done >= g /\ (g < l => r.done > g)
  <2> HIDE DEF g, k, i, x, New
  <2>1. r.done = g + k /\ r.histlen = s.histlen + k
    BY <1>4
  <2> QED BY <1>2, <1>3, <2>1
<1>8. r.buf = [c \in 0 .. n - 1 |-> r.buf[c]]
  <2> HIDE DEF New
  <2> QED BY <1>4
<1>9. LoopOK(r, n, e, h, l, t)
  <2> HIDE DEF g, k, i, x
  <2> QED BY <1>4, <1>5, <1>6, <1>7, <1>8 DEF LoopOK
<1> QED BY <1>7, <1>9 DEF r

(* When the loop is left, all of p has been copied. *)
LEMMA LoopEnds ==
  ASSUME NEW b, NEW p, Len(p) \in Nat, NEW n \in Nat \ {0}, n = b.size,
         NEW e \in Nat, NEW h \in Nat, NEW t,
         \A i \in 1 .. Len(p) : t[e + i] = p[i],
         LoopOK(CopyStart(b), n, e, h, Len(p), t)
  PROVE  /\ LoopOK(CopyLoop(b, p)[Len(p)], n, e, h, Len(p), t)
         /\ CopyLoop(b, p)[Len(p)].done = Len(p)
<1> DEFINE r == CopyLoop(b, p)
           l == Len(p)
           Inv(i) == LoopOK(r[i], n, e, h, l, t) /\ r[i].done >= i
           S == {i \in Nat : i <= l => Inv(i)}
<1>0. l \in Nat /\ Len(p) = l /\ \A i \in 1 .. l : t[e + i] = p[i]
  OBVIOUS
<1>1. r[0] = CopyStart(b) /\ \A i \in 1 .. l : r[i] = CopyPiece(r[i - 1], p, n)
  BY CopyStep
<1> HIDE DEF r
<1>2. 0 \in S
  <2>1. LoopOK(r[0], n, e, h, l, t)
    BY <1>1
  <2>2. r[0].done >= 0
    BY <1>1 DEF CopyStart
  <2> QED BY <2>1, <2>2
<1> HIDE DEF l
<1>3. ASSUME NEW i \in Nat, i \in S PROVE i + 1 \in S
  <2> SUFFICES ASSUME i + 1 <= l PROVE Inv(i + 1)
    OBVIOUS
  <2>1. LoopOK(r[i], n, e, h, l, t) /\ r[i].done >= i
    BY <1>0, <1>3
  <2> DEFINE s == r[i]
             q == CopyPiece(s, p, n)
  <2>2. r[i + 1] = q
    <3>1. i + 1 \in 1 .. l /\ (i + 1) - 1 = i
      BY <1>0
    <3> QED BY <1>1, <3>1
  <2>3. s.done \in 0 .. l
    BY <2>1 DEF LoopOK
  <2>4. LoopOK(q, n, e, h, l, t) /\ (s.done < l => q.done > s.done) /\ q.done >= s.done
    <3>1. LoopOK(s, n, e, h, l, t)
      BY <2>1
    <3> HIDE DEF s
    <3> QED BY <1>0, <3>1, PieceOK
  <2>5. q.done \in 0 .. l
    <3> HIDE DEF q
    <3> QED BY <2>4 DEF LoopOK
  <2>6. q.done >= i + 1
    <3> HIDE DEF q
    <3> QED BY <1>0, <2>1, <2>3, <2>4, <2>5
  <2> HIDE DEF q
  <2> QED BY <2>2, <2>4, <2>6
<1>4. l \in S
  <2> HIDE DEF S
  <2>1. Nat \subseteq S
    BY <1>2, <1>3, Induct
  <2> QED BY <1>0, <2>1
<1>5. Inv(l)
  BY <1>0, <1>4
<1>6. r[l].done = l
  BY <1>0, <1>5 DEF LoopOK
<1> QED BY <1>5, <1>6 DEF r, l

(* feedReplicationBacklog: whatever the length of p, the cells hold the    *)
(* tail of the stream that p has been added to.                            *)
LEMMA FeedOK ==
  ASSUME NEW b, BacklogOK(b), b.on, NEW p, p \in Seq(Range(p))
  PROVE  /\ BacklogOK(feedReplicationBacklog(b, p))
         /\ feedReplicationBacklog(b, p).on
<1> DEFINE n == b.size
           e == b.offset
           l == Len(p)
           t == b.stream \o p
           s == CopyLoop(b, p)[l]
           h == IF s.histlen > n THEN n ELSE s.histlen
           r == feedReplicationBacklog(b, p)
<1>1. r = [on |-> b.on, size |-> n, buf |-> s.buf, idx |-> s.idx, histlen |-> h,
           off |-> (e + l) - h + 1, offset |-> e + l, stream |-> t]
  BY DEF feedReplicationBacklog
<1>2. /\ n \in Nat \ {0} /\ e \in Nat /\ b.idx \in 0 .. n - 1
      /\ b.histlen \in 0 .. n /\ b.histlen <= e
      /\ Len(b.stream) = e /\ b.stream \in Seq(Range(b.stream))
      /\ b.buf = [i \in 0 .. n - 1 |-> b.buf[i]]
  BY DEF BacklogOK, HoldsTail
<1>3. \A d \in 0 .. b.histlen - 1 : b.buf[CellOf(b.idx, n, d)] = b.stream[e - d]
  BY ZenonT(60) DEF BacklogOK, HoldsTail
<1>4. l \in Nat
  OBVIOUS
<1>5. /\ t \in Seq(Range(t)) /\ Len(t) = e + l
      /\ \A i \in 1 .. e : t[i] = b.stream[i]
      /\ \A i \in 1 .. l : t[e + i] = p[i]
  <2> DEFINE u == b.stream
  <2>1. u \in Seq(Range(u)) /\ Len(u) = e
    BY <1>2
  <2> HIDE DEF u
  <2>2. /\ u \o p \in Seq(Range(u \o p)) /\ Len(u \o p) = Len(u) + l
        /\ \A i \in 1 .. Len(u) : (u \o p)[i] = u[i]
        /\ \A i \in 1 .. l : (u \o p)[Len(u) + i] = p[i]
    BY <2>1, ConcatAny
  <2> QED BY <2>1, <2>2, Zenon DEF u
<1> HIDE DEF t
<1>6. LoopOK(CopyStart(b), n, e, b.histlen, l, t)
  <2> DEFINE c == CopyStart(b)
  <2>1. c.buf = b.buf /\ c.idx = b.idx /\ c.histlen = b.histlen /\ c.done = 0
    BY DEF CopyStart
  <2> HIDE DEF c, l, n, e
  <2>2. ASSUME NEW d \in 0 .. n - 1, d < c.histlen
        PROVE  c.buf[CellOf(c.idx, n, d)] = t[(e + c.done) - d]
    <3>1. d \in 0 .. b.histlen - 1 /\ (e + c.done) - d = e - d /\ e - d \in 1 .. e
      BY <1>2, <2>1, <2>2
    <3> QED BY <1>3, <1>5, <2>1, <3>1
  <2>3. c.done \in 0 .. l /\ c.idx \in 0 .. n - 1 /\ c.histlen = b.histlen + c.done
    BY <1>2, <1>4, <2>1
  <2>4. c.buf = [i \in 0 .. n - 1 |-> c.buf[i]]
    BY <1>2, <2>1
  <2>5. LoopOK(c, n, e, b.histlen, l, t)
    BY <2>2, <2>3, <2>4 DEF LoopOK
  <2> QED BY <2>5 DEF c
<1>7. LoopOK(s, n, e, b.histlen, l, t) /\ s.done = l
  <2>1. b.histlen \in Nat
    BY <1>2
  <2>2. n = b.size /\ Len(p) \in Nat /\ \A i \in 1 .. Len(p) : t[e + i] = p[i]
    BY <1>4, <1>5
  <2> DEFINE bh == b.histlen
  <2>3. LoopOK(CopyStart(b), n, e, bh, Len(p), t) /\ bh \in Nat /\ n \in Nat \ {0} /\ e \in Nat
    BY <1>2, <1>6, <2>1
  <2> HIDE DEF n, e, bh
  <2>4. LoopOK(CopyLoop(b, p)[Len(p)], n, e, bh, Len(p), t)
        /\ CopyLoop(b, p)[Len(p)].done = Len(p)
    BY <2>2, <2>3, LoopEnds
  <2> QED BY <2>4 DEF bh
<1> HIDE DEF s
<1>8. /\ s.idx \in 0 .. n - 1 /\ s.histlen = b.histlen + l
      /\ s.buf = [c \in 0 .. n - 1 |-> s.buf[c]]
      /\ \A d \in 0 .. n - 1 :
           d < s.histlen => s.buf[CellOf(s.idx, n, d)] = t[(e + l) - d]
  BY <1>7 DEF LoopOK
<1>9. h \in 0 .. n /\ h <= e + l /\ h <= s.histlen
  <2> HIDE DEF n, e, l
  <2> QED BY <1>2, <1>4, <1>8
<1>10. /\ r.on = b.on /\ r.size = n /\ r.buf = s.buf /\ r.idx = s.idx /\ r.histlen = h
       /\ r.off = (e + l) - h + 1 /\ r.offset = e + l /\ r.stream = t
  BY <1>1
<1> HIDE DEF r, h, n, e, l
<1>11. HoldsTail(r)
  <2>1. r.off = r.offset - r.histlen + 1 /\ Len(r.stream) = r.offset
    BY <1>5, <1>10
  <2>2. ASSUME NEW d \in 0 .. h - 1
        PROVE  r.buf[CellOf(r.idx, r.size, d)] = r.stream[r.offset - d]
    <3>1. d \in 0 .. n - 1 /\ d < s.histlen
      BY <1>2, <1>4, <1>8, <1>9
    <3> QED BY <1>8, <1>10, <3>1
  <2> QED BY <1>10, <2>1, <2>2 DEF HoldsTail
<1>12. BacklogOK(r)
  <2>1. r = [on |-> r.on, size |-> r.size, buf |-> r.buf, idx |-> r.idx,
             histlen |-> r.histlen, off |-> r.off, offset |-> r.offset,
             stream |-> r.stream]
    BY <1>1, <1>10
  <2>2. r.on \in BOOLEAN /\ r.size \in Nat \ {0} /\ r.offset \in Nat
    BY <1>2, <1>4, <1>10 DEF BacklogOK
  <2>3. r.buf = [i \in 0 .. r.size - 1 |-> r.buf[i]] /\ r.stream \in Seq(Range(r.stream))
    BY <1>5, <1>8, <1>10
  <2>4. r.idx \in 0 .. r.size - 1 /\ r.histlen \in 0 .. r.size /\ r.histlen <= r.offset
    BY <1>8, <1>9, <1>10
  <2> QED BY ZenonT(60), <1>11, <2>1, <2>2, <2>3, <2>4 DEF BacklogOK
<1> QED BY <1>10, <1>12 DEF r

(* The three remainders addReplyReplicationBacklog takes arrive at the     *)
(* cell of the unit it has to send.                                        *)
LEMMA SkipArrives ==
  ASSUME NEW n \in Nat \ {0}, NEW i \in 0 .. n - 1, NEW h \in 1 .. n,
         NEW skip \in 0 .. h, NEW k \in 0 .. (h - skip) - 1
  PROVE  LET first == (i + (n - h)) % n
             j     == (first + skip) % n
         IN  (j + k) % n = CellOf(i, n, ((h - 1) - skip) - k)
<1> DEFINE Wrap(a) == IF a < n THEN a ELSE a - n
           first == (i + (n - h)) % n
           j == (first + skip) % n
<1>1. \A a \in 0 .. 2 * n - 1 : a % n = Wrap(a)
  <2> TAKE a \in 0 .. 2 * n - 1
  <2>1. CASE a < n
    <3>1. a \in 0 .. n - 1
      BY <2>1
    <3> QED BY <2>1, <3>1, ModBelow
  <2>2. CASE ~(a < n)
    <3>1. a \in n .. 2 * n - 1
      BY <2>2
    <3> QED BY <2>2, <3>1, ModOnce
  <2> QED BY <2>1, <2>2
<1>2. first = Wrap(i + (n - h)) /\ first \in 0 .. n - 1
  BY <1>1
<1>3. j = Wrap(first + skip) /\ j \in 0 .. n - 1
  <2> HIDE DEF first
  <2> QED BY <1>1, <1>2
<1>4. (j + k) % n = Wrap(j + k)
  <2> HIDE DEF j, Wrap
  <2>1. j + k \in 0 .. 2 * n - 1
    BY <1>3
  <2> QED BY SMTT(60), <1>1, <2>1
<1>5. Wrap(j + k) = CellOf(i, n, ((h - 1) - skip) - k)
  <2> HIDE DEF first, j
  <2> QED BY <1>2, <1>3 DEF CellOf
<1> QED BY <1>4, <1>5

(* addReplyReplicationBacklog sends the stream from the offset asked for.  *)
LEMMA ReplyIsTail ==
  ASSUME NEW b, BacklogOK(b), NEW o \in Int, StillHeld(b, o)
  PROVE  addReplyReplicationBacklog(b, o) = SubSeq(b.stream, o, b.offset)
<1> DEFINE n == b.size
           i == b.idx
           h == b.histlen
           f == b.off
           e == b.offset
           s == b.stream
           S == Range(s)
           skip == o - f
           first == (i + (n - h)) % n
           j == (first + skip) % n
<1>1. /\ n \in Nat \ {0} /\ i \in 0 .. n - 1 /\ h \in 0 .. n /\ h <= e /\ e \in Nat
      /\ f = (e - h) + 1 /\ o >= f /\ o <= f + h
      /\ s \in Seq(S) /\ Len(s) = e
  BY DEF BacklogOK, HoldsTail, StillHeld
<1>2. \A d \in 0 .. h - 1 : b.buf[CellOf(i, n, d)] = s[e - d]
  BY ZenonT(60) DEF BacklogOK, HoldsTail, StillHeld
<1>3. CASE h = 0
  <2>1. o = e + 1
    BY SMTT(60), <1>1, <1>3
  <2>2. SubSeq(s, o, e) = << >>
    <3> HIDE DEF s, e, S
    <3> QED BY <1>1, <2>1
  <2> QED BY <1>3, <2>2 DEF addReplyReplicationBacklog
<1>4. CASE h # 0
  <2>1. addReplyReplicationBacklog(b, o)
          = [k \in 1 .. h - skip |-> b.buf[(j + (k - 1)) % n]]
    BY <1>4 DEF addReplyReplicationBacklog
  <2>2. ASSUME NEW k \in 1 .. h - skip
        PROVE  b.buf[(j + (k - 1)) % n] = s[(o + k) - 1]
    <3>1. /\ h \in 1 .. n /\ skip \in 0 .. h /\ k - 1 \in 0 .. (h - skip) - 1
          /\ ((h - 1) - skip) - (k - 1) \in 0 .. h - 1
          /\ e - (((h - 1) - skip) - (k - 1)) = (o + k) - 1
      <4> HIDE DEF n, i, h, f, e
      <4> QED BY <1>1, <1>4
    <3>2. (j + (k - 1)) % n = CellOf(i, n, ((h - 1) - skip) - (k - 1))
      <4> HIDE DEF skip, i, h, n
      <4> QED BY ZenonT(60), <1>1, <3>1, SkipArrives
    <3> HIDE DEF skip, i, h, n, s, e, j
    <3> QED BY <1>2, <3>1, <3>2
  <2>3. SubSeq(s, o, e) = [k \in 1 .. h - skip |-> s[(o + k) - 1]]
    <3>1. o \in 1 .. e + 1 /\ (e - o) + 1 = h - skip
      BY SMTT(60), <1>1, <1>4
    <3> HIDE DEF s, e, S, h, skip
    <3> QED BY <1>1, <3>1
  <2> DEFINE sent == [k \in 1 .. h - skip |-> b.buf[(j + (k - 1)) % n]]
             tail == [k \in 1 .. h - skip |-> s[(o + k) - 1]]
  <2>4. sent = tail
    <3> HIDE DEF s, e, S, h, skip, j, n
    <3> QED BY <2>2
  <2> QED BY <2>1, <2>3, <2>4
<1> QED BY <1>3, <1>4
==============================================================================
