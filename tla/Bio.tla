-------------------------------- MODULE Bio --------------------------------
(***************************************************************************)
(* The background I/O service of bio.c: one queue, one mutex, one          *)
(* condition variable and one thread for each job type (BIO_CLOSE_FILE,    *)
(* BIO_AOF_FSYNC).  The main thread enqueues jobs and asks how many are    *)
(* pending; the thread of a type runs them in order.                       *)
(*                                                                         *)
(* Granularity: every pthread_mutex_lock is a step, what is done between a *)
(* lock and its unlock is the unlocking step, and running a job, which     *)
(* happens without the lock, is a step of its own.                         *)
(***************************************************************************)
EXTENDS Naturals, Sequences

CONSTANTS
    Types,      \* the job types, BIO_CLOSE_FILE and BIO_AOF_FSYNC
    MaxJobs     \* bound: the number of jobs the main thread ever creates

ASSUME MaxJobsAssumption == MaxJobs \in Nat

VARIABLES
    jobs,       \* jobs[t]: the list bio_jobs[t], a sequence of job numbers
    pending,    \* pending[t]: bio_pending[t]
    mutex,      \* mutex[t]: who holds bio_mutex[t]
    thread,     \* thread[t]: control point of the thread of type t
    main,       \* control point of the main thread
    njobs,      \* number of jobs created so far; the jobs are 1, 2, ...
    executed,   \* executed[t]: the jobs run by thread t, in that order
    created     \* created[t]: the jobs handed to type t, in that order

vars == <<jobs, pending, mutex, thread, main, njobs, executed, created>>

\* Control points of a thread.  "start": before the first lock; "check": holds
\* the lock at the top of the loop; "wait": inside pthread_cond_wait; "woken":
\* signalled, must take the lock again; "run": lock released, about to run the
\* first job; "relock": job run, about to take the lock; "cancelled": killed.
ThreadPoints == {"start", "check", "wait", "woken", "run", "relock", "cancelled"}

MainPoints == [at : {"idle", "dead"}] \cup [at : {"create", "count"}, type : Types]

Idle == [at |-> "idle"]

----------------------------------------------------------------------------

\* bioInit
Init ==
    /\ jobs = [t \in Types |-> <<>>]
    /\ pending = [t \in Types |-> 0]
    /\ mutex = [t \in Types |-> "free"]
    /\ thread = [t \in Types |-> "start"]
    /\ main = Idle
    /\ njobs = 0
    /\ executed = [t \in Types |-> <<>>]
    /\ created = [t \in Types |-> <<>>]

\* bioCreateBackgroundJob, up to and including pthread_mutex_lock.
CreateLock(t) ==
    /\ main = Idle
    /\ njobs < MaxJobs
    /\ mutex[t] = "free"
    /\ mutex' = [mutex EXCEPT ![t] = "main"]
    /\ main' = [at |-> "create", type |-> t]
    /\ UNCHANGED <<jobs, pending, thread, njobs, executed, created>>

\* Mutant: bioCreateBackgroundJob without pthread_cond_signal.
CreateUnlockNoSignal(t) ==
    /\ main = [at |-> "create", type |-> t]
    /\ njobs' = njobs + 1
    /\ jobs' = [jobs EXCEPT ![t] = Append(@, njobs + 1)]
    /\ created' = [created EXCEPT ![t] = Append(@, njobs + 1)]
    /\ pending' = [pending EXCEPT ![t] = @ + 1]
    /\ mutex' = [mutex EXCEPT ![t] = "free"]
    /\ main' = Idle
    /\ UNCHANGED <<executed, thread>>

\* Mutant: the job is added at the head of the list.
CreateUnlockAtHead(t) ==
    /\ main = [at |-> "create", type |-> t]
    /\ njobs' = njobs + 1
    /\ jobs' = [jobs EXCEPT ![t] = <<njobs + 1>> \o @]
    /\ created' = [created EXCEPT ![t] = Append(@, njobs + 1)]
    /\ pending' = [pending EXCEPT ![t] = @ + 1]
    /\ thread' = [thread EXCEPT ![t] = IF @ = "wait" THEN "woken" ELSE @]
    /\ mutex' = [mutex EXCEPT ![t] = "free"]
    /\ main' = Idle
    /\ UNCHANGED executed

\* bioCreateBackgroundJob: append, count, signal, unlock.  The signal wakes the
\* thread only if it is waiting; otherwise it is lost.
CreateUnlock(t) ==
    /\ main = [at |-> "create", type |-> t]
    /\ njobs' = njobs + 1
    /\ jobs' = [jobs EXCEPT ![t] = Append(@, njobs + 1)]
    /\ created' = [created EXCEPT ![t] = Append(@, njobs + 1)]
    /\ pending' = [pending EXCEPT ![t] = @ + 1]
    /\ thread' = [thread EXCEPT ![t] = IF @ = "wait" THEN "woken" ELSE @]
    /\ mutex' = [mutex EXCEPT ![t] = "free"]
    /\ main' = Idle
    /\ UNCHANGED executed

\* bioPendingJobsOfType: lock, read the counter, unlock.
CountLock(t) ==
    /\ main = Idle
    /\ mutex[t] = "free"
    /\ mutex' = [mutex EXCEPT ![t] = "main"]
    /\ main' = [at |-> "count", type |-> t]
    /\ UNCHANGED <<jobs, pending, thread, njobs, executed, created>>

CountUnlock(t) ==
    /\ main = [at |-> "count", type |-> t]
    /\ mutex' = [mutex EXCEPT ![t] = "free"]
    /\ main' = Idle
    /\ UNCHANGED <<jobs, pending, thread, njobs, executed, created>>

\* bioProcessBackgroundJobs: the lock before the loop, or the one
\* pthread_cond_wait takes before it returns.
ThreadLock(t) ==
    /\ thread[t] \in {"start", "woken"}
    /\ mutex[t] = "free"
    /\ mutex' = [mutex EXCEPT ![t] = "thread"]
    /\ thread' = [thread EXCEPT ![t] = "check"]
    /\ UNCHANGED <<jobs, pending, main, njobs, executed, created>>

\* The queue is empty: wait on the condition variable, releasing the lock.
ThreadWait(t) ==
    /\ thread[t] = "check"
    /\ Len(jobs[t]) = 0
    /\ mutex' = [mutex EXCEPT ![t] = "free"]
    /\ thread' = [thread EXCEPT ![t] = "wait"]
    /\ UNCHANGED <<jobs, pending, main, njobs, executed, created>>

\* POSIX lets pthread_cond_wait return without a signal.
SpuriousWakeup(t) ==
    /\ thread[t] = "wait"
    /\ thread' = [thread EXCEPT ![t] = "woken"]
    /\ UNCHANGED <<jobs, pending, mutex, main, njobs, executed, created>>

\* Mutant: the job is counted off when it is picked, before it runs.
ThreadPickCountsOff(t) ==
    /\ thread[t] = "check"
    /\ Len(jobs[t]) # 0
    /\ mutex' = [mutex EXCEPT ![t] = "free"]
    /\ pending' = [pending EXCEPT ![t] = @ - 1]
    /\ thread' = [thread EXCEPT ![t] = "run"]
    /\ UNCHANGED <<jobs, main, njobs, executed, created>>

\* The queue is not empty: look at the first job, leave it in the list, unlock.
ThreadPick(t) ==
    /\ thread[t] = "check"
    /\ Len(jobs[t]) # 0
    /\ mutex' = [mutex EXCEPT ![t] = "free"]
    /\ thread' = [thread EXCEPT ![t] = "run"]
    /\ UNCHANGED <<jobs, pending, main, njobs, executed, created>>

\* close() or fdatasync(), without the lock.
ThreadRun(t) ==
    /\ thread[t] = "run"
    /\ executed' = [executed EXCEPT ![t] = Append(@, Head(jobs[t]))]
    /\ thread' = [thread EXCEPT ![t] = "relock"]
    /\ UNCHANGED <<jobs, pending, mutex, main, njobs, created>>

\* Mutant: the job is deleted but bio_pending is not decremented.
ThreadRetireNoCount(t) ==
    /\ thread[t] = "relock"
    /\ mutex[t] = "free"
    /\ mutex' = [mutex EXCEPT ![t] = "thread"]
    /\ jobs' = [jobs EXCEPT ![t] = Tail(@)]
    /\ thread' = [thread EXCEPT ![t] = "check"]
    /\ UNCHANGED <<pending, main, njobs, executed, created>>

\* Mutant: the loop goes on without taking the lock again.
ThreadRetireNoLock(t) ==
    /\ thread[t] = "relock"
    /\ jobs' = [jobs EXCEPT ![t] = Tail(@)]
    /\ pending' = [pending EXCEPT ![t] = @ - 1]
    /\ thread' = [thread EXCEPT ![t] = "check"]
    /\ UNCHANGED <<mutex, main, njobs, executed, created>>

\* Take the lock again, delete the job from the list, count it off.
ThreadRetire(t) ==
    /\ thread[t] = "relock"
    /\ mutex[t] = "free"
    /\ mutex' = [mutex EXCEPT ![t] = "thread"]
    /\ jobs' = [jobs EXCEPT ![t] = Tail(@)]
    /\ pending' = [pending EXCEPT ![t] = @ - 1]
    /\ thread' = [thread EXCEPT ![t] = "check"]
    /\ UNCHANGED <<main, njobs, executed, created>>

\* One turn of the loop of bioKillThreads, called by the crash handler
\* (debug.c): thread t is cancelled wherever it is, and joined, while the other
\* threads go on; the main thread never goes back to its own loop.  The loop
\* takes the types in order of their numbers, the model in any order.
KillThread(t) ==
    /\ thread[t] # "cancelled"
    /\ main' = [at |-> "dead"]
    /\ thread' = [thread EXCEPT ![t] = "cancelled"]
    /\ UNCHANGED <<jobs, pending, mutex, njobs, executed, created>>

Next ==
    \E t \in Types :
        \/ CreateLock(t)
        \/ CreateUnlock(t)
        \/ CountLock(t)
        \/ CountUnlock(t)
        \/ ThreadLock(t)
        \/ ThreadWait(t)
        \/ SpuriousWakeup(t)
        \/ ThreadPick(t)
        \/ ThreadRun(t)
        \/ ThreadRetire(t)
        \/ KillThread(t)

Spec == Init /\ [][Next]_vars

----------------------------------------------------------------------------

\* The main thread always releases a lock it holds, and the system scheduler
\* eventually lets a thread that asks again and again for a lock have it.
Fairness ==
    \A t \in Types :
        /\ WF_vars(CreateUnlock(t) \/ CountUnlock(t))
        /\ SF_vars(ThreadLock(t) \/ ThreadRetire(t))
        /\ WF_vars(ThreadWait(t) \/ ThreadPick(t) \/ ThreadRun(t))

FairSpec == Spec /\ Fairness

----------------------------------------------------------------------------

\* Every variable of bio.c stays in its domain.
TypeOK ==
    /\ jobs \in [Types -> Seq(Nat)]
    /\ pending \in [Types -> Nat]
    /\ mutex \in [Types -> {"free", "main", "thread"}]
    /\ thread \in [Types -> ThreadPoints]
    /\ main \in MainPoints
    /\ njobs \in Nat
    /\ executed \in [Types -> Seq(Nat)]
    /\ created \in [Types -> Seq(Nat)]

\* What flushAppendOnlyFile relies on when it asks bioPendingJobsOfType: the
\* answer 0 means that every job ever created has been run to its end, the one
\* being run while the lock was free included.
ZeroPendingMeansAllRun ==
    \A t \in Types :
        main = [at |-> "count", type |-> t] /\ pending[t] = 0
            => executed[t] = created[t]

\* Jobs of a type run in the order of their creation, each one once: what was
\* run is always the beginning of what was created.
RunInOrderOnce ==
    \A t \in Types :
        /\ Len(executed[t]) <= Len(created[t])
        /\ \A i \in 1..Len(executed[t]) : executed[t][i] = created[t][i]

\* No wakeup is lost: a job in the queue is eventually run, unless the crash
\* handler kills the threads.
EveryJobRuns ==
    \A t \in Types : \A j \in 1..MaxJobs :
        (\E i \in 1..Len(created[t]) : created[t][i] = j)
            ~> (main.at = "dead" \/ \E i \in 1..Len(executed[t]) : executed[t][i] = j)

\* bio.c implements the queue it promises: the locks, the condition variable
\* and the unlocked run of a job are invisible but for the three counters.
Queue == INSTANCE BioQueue WITH Jobs <- 1..MaxJobs
QueueSpec == Queue!Spec

----------------------------------------------------------------------------

\* The retired jobs are those deleted from the list.
Retired(t) == Len(created[t]) - Len(jobs[t])

\* The inductive invariant behind the properties above: who holds which lock,
\* and how the list, the counter and the two histories fit together.
LockInv ==
    \A t \in Types :
        /\ main.at \in {"create", "count"} /\ main.type = t <=>
              mutex[t] = "main" /\ main.at # "dead"
        /\ thread[t] # "cancelled" => (thread[t] = "check" <=> mutex[t] = "thread")
        /\ thread[t] = "cancelled" => main.at = "dead"

QueueInvOf(t) ==
    /\ Len(jobs[t]) <= Len(created[t])
    /\ pending[t] = Len(jobs[t])
    /\ \A i \in 1..Len(jobs[t]) : jobs[t][i] = created[t][Retired(t) + i]
    /\ thread[t] \in {"run", "relock"} => Len(jobs[t]) > 0
    /\ thread[t] = "relock" => Len(executed[t]) = Retired(t) + 1
    /\ thread[t] \notin {"relock", "cancelled"} => Len(executed[t]) = Retired(t)
    /\ Len(executed[t]) <= Len(created[t])
    /\ \A i \in 1..Len(executed[t]) : executed[t][i] = created[t][i]

QueueInv == \A t \in Types : QueueInvOf(t)

BoundInv == main.at = "create" => njobs < MaxJobs

IndInv == TypeOK /\ LockInv /\ BoundInv /\ QueueInv

============================================================================
