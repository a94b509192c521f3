-------------------------------- MODULE AOF --------------------------------
(***************************************************************************)
(* The append only file: aof.c, with the parts of server.c that call it    *)
(* (propagate, serverCron, beforeSleep, prepareForShutdown, the start-up   *)
(* load) and the CONFIG SET appendonly path of config.c.                   *)
(*                                                                         *)
(* Four actors interleave: the main thread going round its event loop, the *)
(* rewrite child, the BIO_AOF_FSYNC thread (two steps a job, as BioQueue   *)
(* promises) and the machine, which may kill the process or lose power.    *)
(*                                                                         *)
(* Data.  Write number i of the history appends i to one list key of its   *)
(* database, so a dataset tells which writes it holds and in which order,  *)
(* and a dataset after n writes is the prefix of length n of the history.  *)
(* A file or a buffer is a sequence of bytes; a byte is a triple           *)
(*    <<"sel",d,1>>, <<"multi",0,1>>, <<"exec",0,1>>   one-byte commands   *)
(*    <<"cmd",i,1>>, <<"cmd",i,2>>      write i, which can be cut in two   *)
(*    <<"snap",n,1>>                    the dataset after n writes         *)
(* An open file descriptor is the number of the file it refers to: file 0  *)
(* is the first AOF and file k is the one the k-th rewrite child produced. *)
(***************************************************************************)
EXTENDS Integers, Sequences, FiniteSets, SequencesExt

CONSTANTS
    MaxForks,    \* bound on the rewrite children
    Cases        \* the configurations and bounds a behaviour may start from

\* A case: the databases in use, appendfsync, no-appendfsync-on-rewrite,
\* whether clients send MULTI/EXEC and RDB children run as well, and bounds
\* on writes, failing system calls, CONFIG SET appendonly and crashes.
ASSUME AOFAssumption ==
    /\ MaxForks \in Nat
    /\ \A c \in Cases :
         /\ c.dbs \in SUBSET Nat /\ 0 \in c.dbs
         /\ c.policy \in {"always", "everysec", "no"}
         /\ {c.noFsyncOnRewrite, c.transactions, c.saves} \subseteq BOOLEAN
         /\ {c.writes, c.errors, c.toggles, c.crashes} \subseteq Nat

VARIABLES
    server,  \* the aof_* fields of struct redisServer
    child,   \* the rewrite child and the three pipes that lead to it
    disk,    \* file contents, what of them is durable, and the AOF's name
    bio,     \* [jobs, ran]: fsync jobs not yet counted off, head already run
    loop,    \* where the main thread is in its event loop
    hist,    \* ghost: the writes executed, in order
    acked,   \* ghost: how many of them have had their reply sent
    used     \* the case, what was used of its bounds, the writes last loaded
vars == <<server, child, disk, bio, loop, hist, acked, used>>

DBs == used.case.dbs
Policy == used.case.policy
MaxWrites == used.case.writes

NoFd == -1
None == -1

FileIds == 0 .. MaxForks
Loop == {"events", "children", "renamed", "postponed", "retry", "before",
         "down", "shutdown"}

\* Ages stand for differences with server.unixtime: sinceFsync for
\* unixtime - aof_last_fsync (only its sign is used) and postponed for
\* unixtime - aof_flush_postponed_start (only < 2 is used); None is 0 in C.
InitServer ==
    [aof_state |-> "ON", aof_fd |-> 0, fd_closed |-> FALSE, aof_buf |-> <<>>,
     aof_selected_db |-> None, aof_current_size |-> 0,
     aof_rewrite_scheduled |-> FALSE, aof_last_write_status |-> "OK",
     sinceFsync |-> 0, postponed |-> None,
     aof_child_pid |-> None, rdb_child |-> FALSE,
     aof_rewrite_buf |-> <<>>, aof_stop_sending_diff |-> FALSE]

NoChild == [pc |-> "none", snap |-> 0, diff |-> <<>>, pipe |-> <<>>,
            ask |-> FALSE, ack |-> FALSE]

NoFsyncJobs == [jobs |-> <<>>, ran |-> FALSE]

EmptyDisk == [data |-> [f \in FileIds |-> <<>>],
              synced |-> [f \in FileIds |-> 0],
              name |-> 0, durable |-> {0}]

Init ==
    /\ server = InitServer /\ child = NoChild /\ bio = NoFsyncJobs
    /\ disk = EmptyDisk /\ loop = "events"
    /\ hist = <<>> /\ acked = 0
    /\ used \in [case : Cases, forks : {0}, errors : {0}, toggles : {0},
                 crashes : {0}, loaded : {0}]

----------------------------------------------------------------------------
(* loadAppendOnlyFile: what a file means.                                  *)

\* The dataset after the first n writes of the history.
Dataset(n) ==
    [d \in DBs |-> SelectSeq([i \in 1 .. n |-> i], LAMBDA i : hist[i].db = d)]

\* The database a client is left in by the SELECTs of a rewritten file: the
\* rewrite visits the non-empty databases in increasing order.
LastSelected(n) ==
    LET full == {hist[i].db : i \in 1 .. n}
    IN IF full = {} THEN 0 ELSE CHOOSE d \in full : \A e \in full : e <= d

\* One byte read by the fake client.  half is the write whose first byte was
\* read; valid is valid_up_to; bad stands for the fmterr exit.
LoadByte(st, b) ==
    LET pos == st.pos + 1
        next == [st EXCEPT !.pos = pos, !.valid = pos]
    IN CASE st.bad -> st
         [] st.half # 0 /\ b # <<"cmd", st.half, 2>> -> [st EXCEPT !.bad = TRUE]
         [] b[1] = "sel" -> [next EXCEPT !.sel = b[2]]
         [] b[1] = "multi" -> [next EXCEPT !.multi = TRUE]
         [] b[1] = "exec" -> [next EXCEPT !.multi = FALSE]
         [] b[1] = "snap" ->
                [next EXCEPT !.dbs = Dataset(b[2]), !.sel = LastSelected(b[2])]
         [] b[1] = "cmd" /\ b[3] = 1 -> [st EXCEPT !.pos = pos, !.half = b[2]]
         [] b[1] = "cmd" /\ b[3] = 2 /\ st.half = 0 -> [st EXCEPT !.bad = TRUE]
         [] OTHER ->
                [next EXCEPT !.dbs[st.sel] = Append(@, b[2]), !.half = 0]

Load(data) ==
    FoldLeft(LoadByte,
             [sel |-> 0, dbs |-> [d \in DBs |-> <<>>], half |-> 0,
              multi |-> FALSE, pos |-> 0, valid |-> 0, bad |-> FALSE],
             data)

\* The file loads and holds exactly the first n writes of the history.
Holds(data, n) == LET st == Load(data) IN ~st.bad /\ st.dbs = Dataset(n)

\* How many writes of the history the file holds.
Recovered(data) ==
    CHOOSE n \in 0 .. Len(hist) : Holds(data, n)

----------------------------------------------------------------------------
(* feedAppendOnlyFile and flushAppendOnlyFile.                             *)

Cmd(i) == <<<<"cmd", i, 1>>, <<"cmd", i, 2>>>>
Multi == <<<<"multi", 0, 1>>>>
Exec == <<<<"exec", 0, 1>>>>

\* feedAppendOnlyFile: SELECT if the database changed, then the command, into
\* aof_buf when the AOF is on and into the rewrite buffer while a child runs.
feedAppendOnlyFile(s, d, bytes) ==
    LET select == IF d # s.aof_selected_db THEN <<<<"sel", d, 1>>>> ELSE <<>>
        buf == select \o bytes
    IN [s EXCEPT
          !.aof_selected_db = d,
          !.aof_buf = IF s.aof_state = "ON" THEN @ \o buf ELSE @,
          !.aof_rewrite_buf = IF s.aof_child_pid # None THEN @ \o buf ELSE @]

\* propagate feeds the AOF unless it is off.
propagate(s, d, bytes) ==
    IF s.aof_state = "OFF" THEN s ELSE feedAppendOnlyFile(s, d, bytes)

HasChildren(s) == s.aof_child_pid # None \/ s.rdb_child

Write(k, f, bytes) == [k EXCEPT !.data[f] = @ \o bytes]

\* fsync makes the whole file durable; once it has run on the file the name
\* points to, the rename that put it there is durable as well.
Fsync(k, f) ==
    [k EXCEPT !.synced[f] = Len(k.data[f]),
              !.durable = IF f = k.name THEN {f} ELSE @]

\* Mutant: the policy "always" leaves the fsync to the kernel.
FlushWrittenNoFsync(s, k, b, syncing) ==
    [server |-> [s EXCEPT !.aof_buf = <<>>, !.postponed = None,
                          !.aof_last_write_status = "OK",
                          !.aof_current_size = @ + Len(s.aof_buf)],
     disk |-> Write(k, s.aof_fd, s.aof_buf), bio |-> b, errors |-> 0,
     exit |-> FALSE]

\* What flushAppendOnlyFile does once write(2) has taken the whole buffer.
FlushWritten(s, k, b, syncing) ==
    LET s1 == [s EXCEPT !.aof_buf = <<>>, !.postponed = None,
                        !.aof_last_write_status = "OK",
                        !.aof_current_size = @ + Len(s.aof_buf)]
        k1 == Write(k, s.aof_fd, s.aof_buf)
        skip == used.case.noFsyncOnRewrite /\ HasChildren(s)
    IN CASE ~skip /\ Policy = "always" ->
              [server |-> [s1 EXCEPT !.sinceFsync = 0],
               disk |-> Fsync(k1, s.aof_fd), bio |-> b, errors |-> 0,
               exit |-> FALSE]
         [] ~skip /\ Policy = "everysec" /\ s.sinceFsync > 0 ->
              [server |-> [s1 EXCEPT !.sinceFsync = 0], disk |-> k1,
               bio |-> IF syncing THEN b
                       ELSE [b EXCEPT !.jobs = Append(@, s.aof_fd)],
               errors |-> 0, exit |-> FALSE]
         [] OTHER -> [server |-> s1, disk |-> k1, bio |-> b, errors |-> 0,
                      exit |-> FALSE]

\* What it does when write(2) took only the first n bytes (0 stands for an
\* error): ftruncate removes them, or they stay and leave the buffer.
FlushFailed(s, k, b, n, truncated) ==
    LET kept == IF truncated THEN 0 ELSE n
        s1 == [s EXCEPT !.postponed = None, !.aof_last_write_status = "ERR",
                        !.aof_buf = SubSeq(@, kept + 1, Len(@)),
                        !.aof_current_size = @ + kept]
        all == k.data[s.aof_fd] \o SubSeq(s.aof_buf, 1, n)
        data == IF truncated THEN SubSeq(all, 1, s.aof_current_size) ELSE all
    IN [server |-> s1, bio |-> b, errors |-> 1, exit |-> Policy = "always",
        disk |-> IF n = 0 THEN k
                 ELSE [k EXCEPT !.data[s.aof_fd] = data,
                                !.synced[s.aof_fd] = IF @ <= Len(data) THEN @
                                                     ELSE Len(data)]]

\* Mutant: the flush is postponed for as long as an fsync is in progress.
flushPostponedForEver(s, k, b, force, mayFail) ==
    LET syncing == Policy = "everysec" /\ b.jobs # <<>>
        stay == [server |-> s, disk |-> k, bio |-> b, errors |-> 0,
                 exit |-> FALSE]
    IN IF s.aof_buf = <<>> THEN {stay}
       ELSE IF syncing /\ ~force
       THEN {[stay EXCEPT !.server.postponed = IF @ = None THEN 0 ELSE @]}
       ELSE IF s.aof_fd = NoFd \/ s.fd_closed
       THEN {FlushFailed(s, k, b, 0, TRUE)}
       ELSE {FlushWritten(s, k, b, syncing)}

\* flushAppendOnlyFile: the set of results it can have.  With the policy
\* "always" a failed write ends the process.  A write(2) behind a running
\* fsync of the same file may not return before the fsync: see Blocked.
flushAppendOnlyFile(s, k, b, force, mayFail) ==
    LET syncing == Policy = "everysec" /\ b.jobs # <<>>
        stay == [server |-> s, disk |-> k, bio |-> b, errors |-> 0,
                 exit |-> FALSE]
        badFd == s.aof_fd = NoFd \/ s.fd_closed
        short == {FlushFailed(s, k, b, n, t) :
                      n \in 1 .. Len(s.aof_buf) - 1, t \in BOOLEAN}
    IN CASE s.aof_buf = <<>> -> {stay}
         [] s.aof_buf # <<>> /\ syncing /\ ~force /\ s.postponed < 2 ->
              {[stay EXCEPT !.server.postponed = IF @ = None THEN 0 ELSE @]}
         [] OTHER ->
              (IF badFd THEN {} ELSE {FlushWritten(s, k, b, syncing)})
              \cup (IF badFd THEN {[FlushFailed(s, k, b, 0, TRUE) EXCEPT !.errors = 0]}
                    ELSE IF mayFail THEN {FlushFailed(s, k, b, 0, TRUE)} ELSE {})
              \cup (IF mayFail /\ ~badFd THEN short ELSE {})

----------------------------------------------------------------------------
(* Client commands, seen by the main thread while it serves file events.   *)

MayFail == used.errors < used.case.errors

\* processCommand refuses writes while aof_last_write_status is C_ERR.
ProcessWrite(d) ==
    /\ loop = "events"
    /\ server.aof_last_write_status = "OK"
    /\ Len(hist) < MaxWrites
    /\ hist' = Append(hist, [db |-> d])
    /\ server' = propagate(server, d, Cmd(Len(hist) + 1))
    /\ UNCHANGED <<child, disk, bio, loop, acked, used>>

\* EXEC of two queued writes: MULTI, the writes and EXEC are fed in order.
ProcessExec(d) ==
    /\ loop = "events" /\ used.case.transactions
    /\ server.aof_last_write_status = "OK"
    /\ Len(hist) + 2 <= MaxWrites
    /\ hist' = hist \o <<[db |-> d], [db |-> d]>>
    /\ server' = propagate(server, d,
                     Multi \o Cmd(Len(hist) + 1) \o Cmd(Len(hist) + 2) \o Exec)
    /\ UNCHANGED <<child, disk, bio, loop, acked, used>>

\* Mutant: the first write of the diff may come without its SELECT.
ForkedKeepsDb(s, pid) ==
    [s EXCEPT !.aof_rewrite_scheduled = FALSE, !.aof_child_pid = pid,
              !.aof_stop_sending_diff = FALSE]

\* rewriteAppendOnlyFileBackground when no child exists: aofCreatePipes and
\* fork succeed.  (When one of them fails nothing below changes.)
Forked(s, pid) ==
    [s EXCEPT !.aof_rewrite_scheduled = FALSE, !.aof_child_pid = pid,
              !.aof_selected_db = None, !.aof_stop_sending_diff = FALSE]

ForkedChild == [NoChild EXCEPT !.pc = "write", !.snap = Len(hist)]

rewriteAppendOnlyFileBackground(s) ==
    /\ ~HasChildren(s)
    /\ used.forks < MaxForks
    /\ server' = Forked(s, used.forks + 1)
    /\ child' = ForkedChild
    /\ used' = [used EXCEPT !.forks = @ + 1]

\* bgrewriteaofCommand.
bgrewriteaofCommand ==
    /\ loop = "events"
    /\ server.aof_child_pid = None
    /\ \/ /\ server.rdb_child
          /\ server' = [server EXCEPT !.aof_rewrite_scheduled = TRUE]
          /\ UNCHANGED <<child, used>>
       \/ rewriteAppendOnlyFileBackground(server)
    /\ UNCHANGED <<disk, bio, loop, hist, acked>>

\* stopAppendOnly, from CONFIG SET appendonly no: a forced flush, an fsync,
\* the descriptor closed, a running child killed and waited for.
stopAppendOnly ==
    /\ loop = "events" /\ server.aof_state # "OFF"
    /\ used.toggles < used.case.toggles
    /\ \E r \in flushAppendOnlyFile(server, disk, bio, TRUE, MayFail) :
         /\ bio' = r.bio
         /\ used' = [used EXCEPT !.toggles = @ + 1, !.errors = @ + r.errors]
         /\ IF r.exit
            THEN /\ loop' = "down" /\ disk' = r.disk
                 /\ UNCHANGED <<server, child>>
            ELSE /\ disk' = Fsync(r.disk, server.aof_fd)
                 /\ server' = [r.server EXCEPT
                                 !.aof_fd = NoFd, !.fd_closed = FALSE,
                                 !.aof_selected_db = None, !.aof_state = "OFF",
                                 !.aof_rewrite_buf = <<>>,
                                 !.aof_child_pid = None]
                 /\ child' = NoChild
                 /\ UNCHANGED loop
    /\ UNCHANGED <<hist, acked>>

\* startAppendOnly, from CONFIG SET appendonly yes: the AOF is opened and a
\* rewrite is started, or scheduled when an RDB child is active.  When the
\* rewrite cannot start the descriptor is closed and the state stays AOF_OFF,
\* but aof_fd keeps the closed descriptor.
startAppendOnly ==
    /\ loop = "events" /\ server.aof_state = "OFF"
    /\ used.toggles < used.case.toggles
    /\ LET opened == [server EXCEPT !.aof_fd = disk.name, !.fd_closed = FALSE,
                                    !.sinceFsync = 0]
           u == [used EXCEPT !.toggles = @ + 1]
       IN \/ /\ server.rdb_child
             /\ server' = [opened EXCEPT !.aof_rewrite_scheduled = TRUE,
                                         !.aof_state = "WAIT_REWRITE"]
             /\ used' = u /\ UNCHANGED child
          \/ /\ ~HasChildren(server) /\ used.forks < MaxForks
             /\ server' = [Forked(opened, used.forks + 1) EXCEPT
                             !.aof_state = "WAIT_REWRITE"]
             /\ child' = ForkedChild
             /\ used' = [u EXCEPT !.forks = @ + 1]
          \/ /\ ~server.rdb_child
             /\ server.aof_child_pid # None \/ MayFail
             /\ server' = [opened EXCEPT !.fd_closed = TRUE]
             /\ used' = [u EXCEPT !.errors =
                             IF server.aof_child_pid # None THEN @ ELSE @ + 1]
             /\ UNCHANGED child
          \/ /\ MayFail   \* open(2) fails
             /\ server' = [server EXCEPT !.aof_fd = NoFd, !.fd_closed = FALSE,
                                         !.sinceFsync = 0]
             /\ used' = [u EXCEPT !.errors = @ + 1] /\ UNCHANGED child
    /\ UNCHANGED <<disk, bio, loop, hist, acked>>

\* BGSAVE started by a client, the save points or a slave.
StartRdbChild ==
    /\ loop = "events" /\ used.case.saves /\ ~HasChildren(server)
    /\ server' = [server EXCEPT !.rdb_child = TRUE]
    /\ UNCHANGED <<child, disk, bio, loop, hist, acked, used>>

----------------------------------------------------------------------------
(* The rewrite: diff pipe, stop handshake and child.                       *)

\* aofChildWriteDiffData moves a non-empty prefix of the rewrite buffer into
\* the pipe, as much as the pipe takes, unless told to stop.
aofChildWriteDiffData ==
    /\ loop = "events"
    /\ server.aof_child_pid # None /\ ~server.aof_stop_sending_diff
    /\ \E n \in 1 .. Len(server.aof_rewrite_buf) :
         /\ child' = [child EXCEPT
                        !.pipe = @ \o SubSeq(server.aof_rewrite_buf, 1, n)]
         /\ server' = [server EXCEPT
                         !.aof_rewrite_buf = SubSeq(@, n + 1, Len(@))]
    /\ UNCHANGED <<disk, bio, loop, hist, acked, used>>

\* aofChildPipeReadable: the child asked to stop; the ack may not get through.
aofChildPipeReadable ==
    /\ loop = "events"
    /\ server.aof_child_pid # None /\ child.ask
    /\ server' = [server EXCEPT !.aof_stop_sending_diff = TRUE]
    /\ \E sent \in {TRUE, ~MayFail} :
         /\ child' = [child EXCEPT !.ask = FALSE, !.ack = sent]
         /\ used' = [used EXCEPT !.errors = IF sent THEN @ ELSE @ + 1]
    /\ UNCHANGED <<disk, bio, loop, hist, acked>>

\* aofReadDiffFromParent, called from time to time by the child.
aofReadDiffFromParent ==
    /\ child.pc = "write" /\ child.pipe # <<>>
    /\ child' = [child EXCEPT !.diff = @ \o child.pipe, !.pipe = <<>>]
    /\ UNCHANGED <<server, disk, bio, loop, hist, acked, used>>

\* The child has written the dataset and asks the parent to stop.
ChildAsk ==
    /\ child.pc = "write"
    /\ child' = [child EXCEPT !.pc = "asked", !.ask = TRUE]
    /\ UNCHANGED <<server, disk, bio, loop, hist, acked, used>>

\* The ack arrived: the final diff is read, everything is written and fsynced
\* and the file is renamed to the name the parent will open.
ChildFinish ==
    /\ child.pc = "asked" /\ child.ack
    /\ LET f == server.aof_child_pid
           data == <<<<"snap", child.snap, 1>>>> \o child.diff \o child.pipe
       IN disk' = [disk EXCEPT !.data[f] = data, !.synced[f] = Len(data)]
    /\ child' = [child EXCEPT !.pc = "exit0", !.pipe = <<>>]
    /\ UNCHANGED <<server, bio, loop, hist, acked, used>>

\* rewriteAppendOnlyFile fails (a write error, or no ack within the timeout),
\* or the child is killed by a signal.
ChildFail ==
    /\ child.pc \in {"write", "asked"} /\ MayFail
    /\ \E how \in {"exit1", "signal"} : child' = [child EXCEPT !.pc = how]
    /\ used' = [used EXCEPT !.errors = @ + 1]
    /\ UNCHANGED <<server, disk, bio, loop, hist, acked>>

\* Mutant: the child waits for the ack without a timeout.
ChildAckNoTimeout ==
    child.pc = "asked" /\ child.ask /\ child.ack /\ UNCHANGED vars

\* With the ack lost, the child gives up after its timeout.
ChildAckTimeout ==
    /\ child.pc = "asked" /\ ~child.ask /\ ~child.ack
    /\ child' = [child EXCEPT !.pc = "exit1"]
    /\ UNCHANGED <<server, disk, bio, loop, hist, acked, used>>

----------------------------------------------------------------------------
(* serverCron, in the order of its body, and backgroundRewriteDoneHandler. *)

Older(age) == IF age = None THEN None ELSE IF age < 2 THEN age + 1 ELSE age

\* updateCachedTime, then the start of a scheduled rewrite.
CronBegin(tick) ==
    /\ loop = "events" /\ loop' = "children"
    /\ LET s == IF tick
                THEN [server EXCEPT !.sinceFsync = 1,
                                    !.postponed = Older(@)]
                ELSE server
       IN IF s.aof_rewrite_scheduled /\ ~HasChildren(s) /\ used.forks < MaxForks
          THEN rewriteAppendOnlyFileBackground(s)
          ELSE server' = s /\ UNCHANGED <<child, used>>
    /\ UNCHANGED <<disk, bio, hist, acked>>

\* Mutant: the pid of the dead child is kept.
RewriteCleanupKeepsPid(s) ==
    [s EXCEPT !.aof_rewrite_buf = <<>>,
              !.aof_rewrite_scheduled = @ \/ s.aof_state = "WAIT_REWRITE"]

\* Mutant: a failed first rewrite is not scheduled again.
RewriteCleanupNoRetry(s) ==
    [s EXCEPT !.aof_rewrite_buf = <<>>, !.aof_child_pid = None]

\* The cleanup label of backgroundRewriteDoneHandler.
RewriteCleanup(s) ==
    [s EXCEPT !.aof_rewrite_buf = <<>>, !.aof_child_pid = None,
              !.aof_rewrite_scheduled = @ \/ s.aof_state = "WAIT_REWRITE"]

\* The child ended with an error or a signal, or a system call of the success
\* path fails (open, the write of the residual diff, rename).
RewriteFailed ==
    /\ loop = "children" /\ loop' = "postponed"
    /\ \/ child.pc \in {"exit1", "signal"} /\ UNCHANGED <<disk, used>>
       \/ /\ child.pc = "exit0" /\ MayFail
          /\ used' = [used EXCEPT !.errors = @ + 1]
          /\ UNCHANGED disk   \* the temp file is removed
    /\ server' = RewriteCleanup(server)
    /\ child' = NoChild
    /\ UNCHANGED <<bio, hist, acked>>

\* The success path as far as rename(2): the residual diff is appended to the
\* child's file, which takes the AOF's name.
RewriteRename ==
    /\ loop = "children" /\ child.pc = "exit0" /\ loop' = "renamed"
    /\ LET f == server.aof_child_pid
       IN disk' = [Write(disk, f, server.aof_rewrite_buf) EXCEPT
                     !.name = f, !.durable = @ \cup {f}]
    /\ UNCHANGED <<server, child, bio, hist, acked, used>>

\* Mutant: aof_buf survives the switch to the rewritten file.
RewriteSwitchKeepsBuf ==
    /\ loop = "renamed" /\ loop' = "postponed"
    /\ LET f == server.aof_child_pid
       IN /\ server' = RewriteCleanup([server EXCEPT
                !.aof_state = IF @ = "WAIT_REWRITE" THEN "ON" ELSE @,
                !.aof_fd = f, !.aof_selected_db = None,
                !.aof_current_size = Len(disk.data[f])])
          /\ disk' = Fsync(disk, f)
    /\ child' = NoChild
    /\ UNCHANGED <<bio, hist, acked, used>>

\* Mutant: aofUpdateCurrentSize is not called after the switch.
RewriteSwitchOldSize ==
    /\ loop = "renamed" /\ loop' = "postponed"
    /\ LET f == server.aof_child_pid
       IN /\ server' = RewriteCleanup([server EXCEPT
                !.aof_state = IF @ = "WAIT_REWRITE" THEN "ON" ELSE @,
                !.aof_fd = f, !.aof_selected_db = None, !.aof_buf = <<>>])
          /\ disk' = Fsync(disk, f)
    /\ child' = NoChild
    /\ UNCHANGED <<bio, hist, acked, used>>

\* The rest of the success path: the new descriptor replaces the old one, the
\* new file is fsynced as the policy says, and aof_buf is dropped because the
\* rewrite buffer held it.  With aof_fd == -1 the AOF is taken to be disabled.
RewriteSwitch ==
    /\ loop = "renamed" /\ loop' = "postponed"
    /\ LET f == server.aof_child_pid
           off == [server EXCEPT
                     !.aof_state = IF @ = "WAIT_REWRITE" THEN "ON" ELSE @]
           on == [off EXCEPT !.aof_fd = f, !.fd_closed = FALSE,
                             !.aof_selected_db = None, !.aof_buf = <<>>,
                             !.aof_current_size = Len(disk.data[f])]
       IN /\ server' = RewriteCleanup(IF server.aof_fd = NoFd THEN off ELSE on)
          /\ disk' = IF server.aof_fd # NoFd /\ Policy = "always"
                     THEN Fsync(disk, f) ELSE disk
          /\ bio' = IF server.aof_fd # NoFd /\ Policy = "everysec"
                    THEN [bio EXCEPT !.jobs = Append(@, f)] ELSE bio
    /\ child' = NoChild
    /\ UNCHANGED <<hist, acked, used>>

\* wait3 reports the RDB child, or no child at all; or there was none, and the
\* growth of the file may start an automatic rewrite.
CronNoRewriteDone ==
    /\ loop = "children" /\ loop' = "postponed"
    /\ \/ /\ server.rdb_child
          /\ server' = [server EXCEPT !.rdb_child = FALSE]
          /\ UNCHANGED <<child, used>>
       \/ /\ child.pc \notin {"exit0", "exit1", "signal"}
          /\ UNCHANGED <<server, child, used>>
       \/ /\ server.aof_current_size > 0
          /\ rewriteAppendOnlyFileBackground(server)
    /\ UNCHANGED <<disk, bio, hist, acked>>

\* One flush by the main thread, on its way from one point of the loop to the
\* next one; with the policy "always" an error ends the process.
FlushStep(next) ==
    \E r \in flushAppendOnlyFile(server, disk, bio, FALSE, MayFail) :
      /\ server' = r.server /\ disk' = r.disk /\ bio' = r.bio
      /\ used' = [used EXCEPT !.errors = @ + r.errors]
      /\ loop' = IF r.exit THEN "down" ELSE next
      /\ UNCHANGED <<child, hist>>

\* if (server.aof_flush_postponed_start) flushAppendOnlyFile(0).
CronPostponed ==
    /\ loop = "postponed"
    /\ IF server.postponed # None THEN FlushStep("retry")
       ELSE loop' = "retry" /\ UNCHANGED <<server, disk, bio, used, child, hist>>
    /\ UNCHANGED acked

\* Once a second, a flush while the last write failed.
CronRetry ==
    /\ loop = "retry"
    /\ \/ server.aof_last_write_status = "ERR" /\ FlushStep("before")
       \/ loop' = "before" /\ UNCHANGED <<server, disk, bio, used, child, hist>>
    /\ UNCHANGED acked

\* beforeSleep: the AOF is flushed, then the replies are sent.
beforeSleep ==
    /\ loop \in {"events", "before"}
    /\ FlushStep("events")
    /\ acked' = IF loop' = "down" \/ Len(hist) = used.loaded THEN acked
                ELSE Len(hist)

\* prepareForShutdown: a running child is killed (refused while it writes the
\* first AOF), the AOF is fsynced, the process exits.
prepareForShutdown ==
    /\ loop = "events" /\ server.aof_state # "OFF"
    /\ used.crashes < used.case.crashes
    /\ ~(server.aof_state = "WAIT_REWRITE" /\ server.aof_child_pid # None)
    /\ disk' = Fsync(disk, server.aof_fd)
    /\ loop' = "shutdown"
    /\ used' = [used EXCEPT !.crashes = @ + 1]
    /\ UNCHANGED <<server, child, bio, hist, acked>>

----------------------------------------------------------------------------
(* The BIO_AOF_FSYNC thread, crashes and restarts.                         *)

\* The thread fsyncs the head job: what is in the file at this moment.
BioFsync ==
    /\ bio.jobs # <<>> /\ ~bio.ran /\ loop \notin {"down", "shutdown"}
    /\ disk' = Fsync(disk, Head(bio.jobs))
    /\ bio' = [bio EXCEPT !.ran = TRUE]
    /\ UNCHANGED <<server, child, loop, hist, acked, used>>

\* The job is counted off: bioPendingJobsOfType no longer sees it.
BioRetire ==
    /\ bio.ran /\ loop \notin {"down", "shutdown"}
    /\ bio' = [jobs |-> Tail(bio.jobs), ran |-> FALSE]
    /\ UNCHANGED <<server, child, disk, loop, hist, acked, used>>

\* What the AOF can hold after a power loss: any file the name may durably
\* refer to, cut anywhere past its last fsync.
PowerLossImages ==
    UNION {{SubSeq(disk.data[f], 1, n) : n \in disk.synced[f] .. Len(disk.data[f])}
           : f \in disk.durable}

\* The memory of the process, its child and its threads are gone.
Die ==
    /\ loop' = "down"
    /\ server' = [InitServer EXCEPT !.aof_state = server.aof_state]
    /\ child' = NoChild /\ bio' = NoFsyncJobs
    /\ UNCHANGED <<hist, acked>>

\* The process is killed: the files stay as they are.
Kill ==
    /\ loop \notin {"down", "shutdown"} /\ used.crashes < used.case.crashes
    /\ Die /\ used' = [used EXCEPT !.crashes = @ + 1]
    /\ UNCHANGED disk

\* The machine loses power.
PowerLoss ==
    /\ loop \notin {"down", "shutdown"} /\ used.crashes < used.case.crashes
    /\ \E f \in disk.durable :
         \E n \in disk.synced[f] .. Len(disk.data[f]) :
           disk' = [disk EXCEPT !.data[f] = SubSeq(@, 1, n), !.synced[f] = n,
                                !.name = f, !.durable = {f}]
    /\ Die /\ used' = [used EXCEPT !.crashes = @ + 1]

\* Mutant: the tail that could not be loaded stays in the file.
RestartNoTruncate ==
    /\ loop \in {"down", "shutdown"}
    /\ LET f == disk.name
           st == Load(disk.data[f])
           n == Recovered(disk.data[f])
       IN /\ ~st.bad /\ UNCHANGED disk
          /\ hist' = SubSeq(hist, 1, n)
          /\ acked' = IF acked <= n THEN acked ELSE n
          /\ server' = [InitServer EXCEPT !.aof_fd = f,
                           !.aof_current_size = Len(disk.data[f])]
          /\ used' = [used EXCEPT !.loaded = n]
    /\ child' = NoChild /\ bio' = NoFsyncJobs /\ loop' = "events"

\* main with appendonly yes: initServer opens the AOF, loadAppendOnlyFile
\* replays it and, aof-load-truncated being on, cuts what follows the last
\* complete command.  A format error ends the process again.
Restart ==
    /\ loop \in {"down", "shutdown"}
    /\ LET f == disk.name
           st == Load(disk.data[f])
           n == Recovered(disk.data[f])
       IN /\ ~st.bad
          /\ disk' = [disk EXCEPT !.data[f] = SubSeq(@, 1, st.valid),
                                  !.synced[f] = IF @ <= st.valid THEN @
                                                ELSE st.valid]
          /\ hist' = SubSeq(hist, 1, n)
          /\ acked' = IF acked <= n THEN acked ELSE n
          /\ server' = [InitServer EXCEPT !.aof_fd = f,
                                          !.aof_current_size = st.valid]
          /\ used' = [used EXCEPT !.loaded = n]
    /\ child' = NoChild /\ bio' = NoFsyncJobs /\ loop' = "events"

----------------------------------------------------------------------------
Main ==
    \/ \E tick \in BOOLEAN : CronBegin(tick)
    \/ RewriteFailed \/ RewriteRename \/ RewriteSwitch \/ CronNoRewriteDone
    \/ CronPostponed \/ CronRetry \/ beforeSleep
    \/ aofChildWriteDiffData \/ aofChildPipeReadable

Commands ==
    \/ \E d \in DBs : ProcessWrite(d) \/ ProcessExec(d)
    \/ bgrewriteaofCommand \/ stopAppendOnly \/ startAppendOnly
    \/ StartRdbChild \/ prepareForShutdown

Child == aofReadDiffFromParent \/ ChildAsk \/ ChildFinish \/ ChildAckTimeout

Bio == BioFsync \/ BioRetire

Next == Main \/ Commands \/ Child \/ ChildFail \/ Bio \/ Kill \/ PowerLoss \/ Restart

Spec == Init /\ [][Next]_vars

\* The event loop never stops; its timer event fires again and again and time
\* passes between two of them; a readable pipe is reported by the poll that
\* follows; the child runs.
LoopStep ==
    \/ RewriteFailed \/ RewriteRename \/ RewriteSwitch \/ CronNoRewriteDone
    \/ CronPostponed \/ CronRetry \/ beforeSleep

\* The main thread has reached a flush that writes to the file the background
\* thread is syncing: "on Linux write(2) will be blocked by the background
\* fsync".  The thread may go on only when the fsync has returned, so nothing
\* is assumed of it before.
Blocked ==
    /\ \/ loop = "before"
       \/ loop = "postponed" /\ server.postponed # None
    /\ bio.jobs # <<>> /\ ~bio.ran /\ Head(bio.jobs) = server.aof_fd
    /\ \E r \in flushAppendOnlyFile(server, disk, bio, FALSE, FALSE) :
          r.disk # disk

Fairness ==
    /\ WF_vars(~Blocked /\ LoopStep) /\ SF_vars(CronBegin(TRUE))
    /\ SF_vars(aofChildPipeReadable) /\ WF_vars(Child)

FairSpec == Spec /\ Fairness

\* The fsync thread runs: every fsync it was given returns.
FsyncsReturn == WF_vars(Bio)

FairBioSpec == FairSpec /\ FsyncsReturn

----------------------------------------------------------------------------
(* Properties.                                                             *)

Up == loop \notin {"down", "shutdown"}

\* Every variable has its type; the child exists exactly while its pid is
\* recorded, and a pending fsync has run only if there is one.
TypeOK ==
    /\ server.aof_state \in {"OFF", "ON", "WAIT_REWRITE"}
    /\ server.aof_fd \in FileIds \cup {NoFd}
    /\ server.aof_selected_db \in DBs \cup {None}
    /\ server.aof_child_pid \in (1 .. MaxForks) \cup {None}
    /\ server.postponed \in -1 .. 2
    /\ loop \in Loop
    /\ acked \in 0 .. Len(hist)
    /\ disk.name \in disk.durable
    /\ Up => (server.aof_child_pid = None <=> child.pc = "none")
    /\ bio.ran => bio.jobs # <<>>

\* While the AOF is on, its file followed by aof_buf replays to exactly the
\* writes executed so far: across SELECTs, short writes kept or truncated,
\* and the switch to a rewritten file, which drops aof_buf.
LogComplete ==
    (Up /\ server.aof_state = "ON" /\ loop # "renamed") =>
        /\ server.aof_fd = disk.name
        /\ Holds(disk.data[server.aof_fd] \o server.aof_buf, Len(hist))

\* While a rewrite runs with the AOF enabled, the child's snapshot followed by
\* the diff it has read, the pipe and the rewrite buffer replays to exactly
\* the writes executed so far, whatever way they are split between the four.
RewriteComplete ==
    LET f == server.aof_child_pid
        start == IF child.pc = "exit0" THEN disk.data[f]
                 ELSE <<<<"snap", child.snap, 1>>>> \o child.diff \o child.pipe
    IN (Up /\ server.aof_state # "OFF" /\ loop # "renamed"
            /\ child.pc \in {"write", "asked", "exit0"})
         => Holds(start \o server.aof_rewrite_buf, Len(hist))

\* aof_current_size, the length ftruncate cuts a failed write back to, is the
\* length of the file whenever writes go to it.
SizeTracksFile ==
    (Up /\ server.aof_state = "ON" /\ loop # "renamed") =>
        server.aof_current_size = Len(disk.data[server.aof_fd])

\* With the AOF on, whatever instant the process dies or the power fails, the
\* file that is left loads and holds a prefix of the history: no gap, no
\* duplicate, no write in another database.
CrashLeavesPrefix ==
    server.aof_state = "ON" =>
        \A image \in PowerLossImages \cup {disk.data[disk.name]} :
            \E n \in 0 .. Len(hist) : Holds(image, n)

\* With appendfsync always, a write whose reply was sent survives a kill of
\* the process and, unless a rewritten file has been renamed but not fsynced
\* since, a loss of power.
AckedSurvivesCrash ==
    (Policy = "always" /\ server.aof_state = "ON" /\ Up) =>
        \A image \in {disk.data[disk.name]} \cup
                     (IF disk.durable # {disk.name} THEN {} ELSE PowerLossImages) :
            \E n \in acked .. Len(hist) : Holds(image, n)

\* While the AOF waits for its first rewrite, a rewrite is running or
\* scheduled, whatever failed before.
WaitHasRewrite ==
    (Up /\ server.aof_state = "WAIT_REWRITE") =>
        (server.aof_child_pid # None \/ server.aof_rewrite_scheduled)

\* A write buffered while the AOF is on is not postponed for ever: even if an
\* fsync never returns, the main thread gets as far as write(2), where it may
\* have to wait; and if every fsync returns the write reaches the file.
FlushReachesFile ==
    LET waits == server.aof_state = "ON" /\ server.aof_buf # <<>>
    IN  /\ waits ~> (~waits \/ Blocked)
        /\ FsyncsReturn => (waits ~> ~waits)

\* CONFIG SET appendonly yes ends with the AOF on, or off again by command:
\* failed rewrites are retried until one switches it on, as long as the main
\* thread does not hang behind an fsync.
\* (The bound on forks is not the system's.)
WaitRewriteEnds ==
    FsyncsReturn =>
        (server.aof_state = "WAIT_REWRITE"
            ~> (server.aof_state # "WAIT_REWRITE" \/ used.forks = MaxForks))

\* A rewrite, once started, is over at some point: the stop handshake with the
\* child cannot hang, whichever message of it is lost, as long as the main
\* thread does not hang behind an fsync.
RewriteEnds ==
    FsyncsReturn => (server.aof_child_pid # None ~> server.aof_child_pid = None)

----------------------------------------------------------------------------
(* Statements of the comments and of redis.conf that the code does not     *)
(* keep; each is checked by a run of its own, which finds a counterexample.*)

\* "Redis can lose just one second of writes in a dramatic event like a server
\* power outage" (redis.conf, for the default policy "everysec"): a write that
\* was acknowledged is made durable some time later.
EverysecSyncs ==
    acked = MaxWrites ~>
        \A image \in PowerLossImages : Holds(image, Len(hist))

\* "clear the AOF error in case of success to make the DB writable again"
\* (serverCron): once writes work again, the error status is cleared.
WritesAcceptedAgain ==
    server.aof_last_write_status = "ERR" ~> server.aof_last_write_status = "OK"

============================================================================
