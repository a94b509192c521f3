------------------------------- MODULE Backlog -------------------------------
(***************************************************************************)
(* The replication backlog of replication.c: the circular buffer in which  *)
(* a master keeps the tail of its replication stream, so that a slave that *)
(* reconnects can be sent what it missed.                                  *)
(*                                                                         *)
(* The record of a backlog holds the fields of `struct redisServer':       *)
(*   on       repl_backlog # NULL                                          *)
(*   size     repl_backlog_size                                            *)
(*   buf      the memory repl_backlog points to, cells 0..size-1           *)
(*   idx      repl_backlog_idx, the cell the next byte goes to             *)
(*   histlen  repl_backlog_histlen, how many cells hold data               *)
(*   off      repl_backlog_off, the offset of the oldest byte held         *)
(*   offset   master_repl_offset                                           *)
(* The field `stream' is a history: stream[p] is the byte that was given   *)
(* offset p.  A unit of the stream, and a cell of the buffer, stand for a  *)
(* few bytes; one call of feedReplicationBacklog adds one unit or more.    *)
(***************************************************************************)
EXTENDS Integers, Sequences, Functions

Blank == <<"blank">>     \* a cell of fresh memory
Skipped == <<"skipped">> \* the offset createReplicationBacklog skips

FreshMemory(size) == [i \in 0 .. size - 1 |-> Blank]

NoBacklog(size) ==
  [on |-> FALSE, size |-> size, buf |-> FreshMemory(size), idx |-> 0,
   histlen |-> 0, off |-> 0, offset |-> 0, stream |-> <<>>]

(* Mutant: a new backlog goes on at the offset the old one ended at.       *)
createReplicationBacklogSameOffset(b) ==
  [b EXCEPT !.on = TRUE, !.buf = FreshMemory(b.size), !.histlen = 0, !.idx = 0,
            !.off = b.offset + 1]

createReplicationBacklog(b) ==
  [on |-> TRUE, size |-> b.size, buf |-> FreshMemory(b.size), idx |-> 0,
   histlen |-> 0, off |-> b.offset + 2, offset |-> b.offset + 1,
   stream |-> Append(b.stream, Skipped)]

(* The old buffer is dropped, not copied. *)
resizeReplicationBacklog(b, newsize) ==
  IF newsize = b.size THEN b
  ELSE IF b.on
  THEN [b EXCEPT !.size = newsize, !.buf = FreshMemory(newsize), !.histlen = 0,
                 !.idx = 0, !.off = b.offset + 1]
  ELSE [b EXCEPT !.size = newsize, !.buf = FreshMemory(newsize)]

freeReplicationBacklog(b) ==
  [on |-> FALSE, size |-> b.size, buf |-> FreshMemory(b.size), idx |-> b.idx,
   histlen |-> b.histlen, off |-> b.off, offset |-> b.offset, stream |-> b.stream]

(* Mutant: the pointer into the data is not moved on.                      *)
CopyPieceFromStart(s, p, size) ==
  LET room    == size - s.idx
      left    == Len(p) - s.done
      thislen == IF room > left THEN left ELSE room
      end     == s.idx + thislen
  IN  [buf |-> [c \in 0 .. size - 1 |->
                  IF c \in s.idx .. end - 1 THEN p[1 + (c - s.idx)] ELSE s.buf[c]],
       idx |-> IF end = size THEN 0 ELSE end,
       histlen |-> s.histlen + thislen, done |-> s.done + thislen]

(* One turn of the loop of feedReplicationBacklog: as much of p as there   *)
(* is room for up to the end of the buffer is copied, and idx rewound when *)
(* it arrives there.  `done' counts the units of p already copied.         *)
CopyPiece(s, p, size) ==
  LET room    == size - s.idx
      left    == Len(p) - s.done
      thislen == IF room > left THEN left ELSE room
      end     == s.idx + thislen
  IN  [buf |-> [c \in 0 .. size - 1 |->
                  IF c \in s.idx .. end - 1 THEN p[s.done + 1 + (c - s.idx)]
                  ELSE s.buf[c]],
       idx |-> IF end = size THEN 0 ELSE end,
       histlen |-> s.histlen + thislen, done |-> s.done + thislen]

(* The loop, which may go around the buffer several times.  Every turn     *)
(* copies a unit at least and one with nothing left changes nothing, so    *)
(* that as many turns as p has units are all of them.                      *)
CopyStart(b) == [buf |-> b.buf, idx |-> b.idx, histlen |-> b.histlen, done |-> 0]

CopyLoop(b, p) ==
  LET after[n \in 0 .. Len(p)] ==
        IF n = 0 THEN CopyStart(b) ELSE CopyPiece(after[n - 1], p, b.size)
  IN  after

(* The offset moves on by the length of p, the loop copies p, histlen is   *)
(* cut down to the size of the buffer.                                     *)
feedReplicationBacklog(b, p) ==
  LET s       == CopyLoop(b, p)[Len(p)]
      histlen == IF s.histlen > b.size THEN b.size ELSE s.histlen
      offset  == b.offset + Len(p)
  IN  [on |-> b.on, size |-> b.size, buf |-> s.buf, idx |-> s.idx,
       histlen |-> histlen, off |-> offset - histlen + 1, offset |-> offset,
       stream |-> b.stream \o p]

(* masterTryPartialResynchronization: are the bytes from psync_offset on   *)
(* still in the buffer?                                                    *)
StillHeld(b, psync_offset) ==
  /\ b.on
  /\ psync_offset >= b.off
  /\ psync_offset <= b.off + b.histlen

(* Mutant: the oldest byte is looked for at idx, as if the buffer were     *)
(* always full.                                                            *)
addReplyReplicationBacklogIfFull(b, offset) ==
  IF b.histlen = 0 THEN <<>>
  ELSE LET skip == offset - b.off
           j    == (b.idx + skip) % b.size
       IN  [k \in 1 .. b.histlen - skip |-> b.buf[(j + (k - 1)) % b.size]]

(* What a slave that asks for `offset' is sent: the cells from the oldest  *)
(* byte on, less the ones it has to skip, crossing the end of the buffer.  *)
addReplyReplicationBacklog(b, offset) ==
  IF b.histlen = 0 THEN <<>>
  ELSE LET skip  == offset - b.off
           first == (b.idx + (b.size - b.histlen)) % b.size
           j     == (first + skip) % b.size
       IN  [k \in 1 .. b.histlen - skip |-> b.buf[(j + (k - 1)) % b.size]]

-----------------------------------------------------------------------------
(* The cell of the unit written d units before the newest one, which is    *)
(* just before idx.                                                        *)
CellOf(idx, size, d) == IF d < idx THEN idx - 1 - d ELSE idx - 1 - d + size

(* The cells hold the last histlen units of the stream, the newest one     *)
(* just before idx: what feedReplicationBacklog and its wrapping index     *)
(* must keep true for addReplyReplicationBacklog to send the right bytes.  *)
HoldsTail(b) ==
  /\ Len(b.stream) = b.offset
  /\ b.on =>
       /\ b.off = b.offset - b.histlen + 1
       /\ \A d \in 0 .. b.histlen - 1 :
            b.buf[CellOf(b.idx, b.size, d)] = b.stream[b.offset - d]

(* HoldsTail with the shape of the record and the bounds of the fields:    *)
(* what every operation on the backlog keeps.                              *)
BacklogOK(b) ==
  /\ b = [on |-> b.on, size |-> b.size, buf |-> b.buf, idx |-> b.idx,
          histlen |-> b.histlen, off |-> b.off, offset |-> b.offset,
          stream |-> b.stream]
  /\ b.on \in BOOLEAN /\ b.size \in Nat \ {0} /\ b.offset \in Nat
  /\ b.buf = [i \in 0 .. b.size - 1 |-> b.buf[i]]
  /\ b.stream \in Seq(Range(b.stream))
  /\ b.on => /\ b.idx \in 0 .. b.size - 1
             /\ b.histlen \in 0 .. b.size
             /\ b.histlen <= b.offset
  /\ HoldsTail(b)
=============================================================================
