---------------------------- MODULE MCReplication ----------------------------
(* The cases of the replication run: each one turns on the disturbances    *)
(* that meet in one part of the code, with as many slaves as they need.    *)
EXTENDS Replication

CONSTANTS s1, s2

Quiet == [slaves |-> {s1}, eof |-> {s1}, diskless |-> FALSE, aof |-> FALSE, size |-> 3,
          arglen |-> 1, writes |-> 0,
          pings |-> 0, waits |-> 0, acks |-> 0, bgsaves |-> 0, fails |-> 0, breaks |-> 0,
          restarts |-> 0, resizes |-> 0]

(* Reconnections while the stream wraps around the backlog, with arguments *)
(* that cross the end of the buffer.                                       *)
Partial  == [Quiet EXCEPT !.writes = 2, !.breaks = 2, !.size = 2, !.arglen = 2]
(* An argument that goes around the buffer more than once. *)
Laps     == [Quiet EXCEPT !.writes = 2, !.breaks = 1, !.size = 2, !.arglen = 5]
(* A slave comes back to a backlog that another slave had created anew. *)
Recreate == [Quiet EXCEPT !.slaves = {s1, s2}, !.writes = 1, !.breaks = 1]
(* A slave attaches to the BGSAVE another one started. *)
Attach   == [Quiet EXCEPT !.slaves = {s1, s2}, !.writes = 2, !.bgsaves = 1]
Diskless == [Quiet EXCEPT !.slaves = {s1, s2}, !.writes = 1, !.diskless = TRUE, !.eof = {s1, s2}, !.fails = 1]
Failing  == [Quiet EXCEPT !.slaves = {s1, s2}, !.writes = 1, !.fails = 1, !.aof = TRUE, !.pings = 1]
Restart  == [Quiet EXCEPT !.slaves = {s1, s2}, !.writes = 2, !.restarts = 1]
Resize   == [Quiet EXCEPT !.writes = 2, !.breaks = 1, !.resizes = 1]
(* WAIT: with two slaves, and with one that comes back on a new connection. *)
Waits    == [Quiet EXCEPT !.slaves = {s1, s2}, !.writes = 1, !.waits = 1, !.acks = 1]
Stale    == [Quiet EXCEPT !.writes = 1, !.waits = 1, !.acks = 2, !.breaks = 1]

SafetyCases ==
  {Partial, Laps, Recreate, Attach, Diskless, Failing, Restart, Resize, Waits, Stale}

WaitCases == {Waits, Stale}
=============================================================================
