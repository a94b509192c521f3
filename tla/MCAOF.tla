------------------------------- MODULE MCAOF -------------------------------
(* Instances of AOF for TLC. *)
EXTENDS AOF

Base == [dbs |-> {0, 1}, policy |-> "always", noFsyncOnRewrite |-> FALSE,
         transactions |-> FALSE, saves |-> FALSE,
         writes |-> 2, errors |-> 1, toggles |-> 0, crashes |-> 1]

\* A write that fails, a rewrite and a crash, with appendfsync always.
Crash == Base
\* The AOF switched off and on with appendfsync everysec.
Toggle == [Base EXCEPT !.policy = "everysec", !.toggles = 2, !.errors = 0,
                       !.crashes = 0]
\* The same around RDB children that delay the rewrite.
Saves == [Toggle EXCEPT !.dbs = {0}, !.saves = TRUE, !.errors = 1,
                       !.writes = 1]
\* Three writes around a rewrite, MULTI/EXEC among them.
Rewrite == [Base EXCEPT !.writes = 3, !.transactions = TRUE,
                        !.errors = 0, !.crashes = 0]
\* no-appendfsync-on-rewrite, and a crash.
NoFsync == [Base EXCEPT !.policy = "everysec", !.noFsyncOnRewrite = TRUE,
                        !.dbs = {0}, !.errors = 0]
\* One write, everything may fail once.
Live == [Toggle EXCEPT !.dbs = {0}, !.errors = 1, !.writes = 1]
\* No fsync but that of the kernel, and a crash.
Kernel == [NoFsync EXCEPT !.policy = "no"]

SafetyCases == {Crash, Toggle, Saves, Rewrite, NoFsync, Kernel}
LiveCases == {Live}
QuietCases == {[Live EXCEPT !.toggles = 0, !.errors = 0]}
ErrorCases == {[Live EXCEPT !.toggles = 0]}
============================================================================
