----------------------------- MODULE BioProofs -----------------------------
(***************************************************************************)
(* Proofs about Bio: the inductive invariant, the two safety properties    *)
(* the rest of the server relies on, and the refinement of BioQueue.       *)
(***************************************************************************)
EXTENDS Bio, SequenceTheorems, TLAPS

\* The initial state of bioInit satisfies the inductive invariant.
LEMMA InitIndInv == Init => IndInv
  BY DEF Init, IndInv, TypeOK, LockInv, BoundInv, QueueInv,
         QueueInvOf, MainPoints, ThreadPoints, Idle, Retired

\* Every step of the main thread and of the background threads keeps the
\* variables in their domains.
LEMMA TypeStep == IndInv /\ [Next]_vars => TypeOK'
  <1> SUFFICES ASSUME IndInv, [Next]_vars PROVE TypeOK'
    OBVIOUS
  <1> USE DEF IndInv, TypeOK, MainPoints, ThreadPoints, Idle
  <1>1. ASSUME NEW t \in Types, CreateLock(t) PROVE TypeOK'
    BY <1>1 DEF CreateLock
  <1>2. ASSUME NEW t \in Types, CreateUnlock(t) PROVE TypeOK'
    BY SMTT(60), <1>2 DEF CreateUnlock
  <1>3. ASSUME NEW t \in Types, CountLock(t) PROVE TypeOK'
    BY <1>3 DEF CountLock
  <1>4. ASSUME NEW t \in Types, CountUnlock(t) PROVE TypeOK'
    BY <1>4 DEF CountUnlock
  <1>5. ASSUME NEW t \in Types, ThreadLock(t) PROVE TypeOK'
    BY <1>5 DEF ThreadLock
  <1>6. ASSUME NEW t \in Types, ThreadWait(t) PROVE TypeOK'
    BY <1>6 DEF ThreadWait
  <1>7. ASSUME NEW t \in Types, SpuriousWakeup(t) PROVE TypeOK'
    BY <1>7 DEF SpuriousWakeup
  <1>8. ASSUME NEW t \in Types, ThreadPick(t) PROVE TypeOK'
    BY <1>8 DEF ThreadPick
  <1>9. ASSUME NEW t \in Types, ThreadRun(t) PROVE TypeOK'
    BY SMTT(60), <1>9 DEF ThreadRun, QueueInv, QueueInvOf
  <1>10. ASSUME NEW t \in Types, ThreadRetire(t) PROVE TypeOK'
    BY SMTT(60), <1>10 DEF ThreadRetire, QueueInv, QueueInvOf
  <1>11. ASSUME NEW t \in Types, KillThread(t) PROVE TypeOK'
    BY <1>11 DEF KillThread
  <1>12. CASE UNCHANGED vars
    BY <1>12 DEF vars
  <1> QED
    BY Zenon, <1>1, <1>2, <1>3, <1>4, <1>5, <1>6, <1>7, <1>8, <1>9, <1>10, <1>11,
       <1>12 DEF Next

\* A lock has the holder its control points say, and a job is created only
\* below the bound.
LEMMA LockStep == IndInv /\ [Next]_vars => (LockInv /\ BoundInv)'
  <1> SUFFICES ASSUME IndInv, [Next]_vars PROVE (LockInv /\ BoundInv)'
    OBVIOUS
  <1> USE DEF IndInv, TypeOK, MainPoints, ThreadPoints, Idle, LockInv, BoundInv
  <1>1. ASSUME NEW t \in Types, CreateLock(t) PROVE (LockInv /\ BoundInv)'
    BY <1>1 DEF CreateLock
  <1>2. ASSUME NEW t \in Types, CreateUnlock(t) PROVE (LockInv /\ BoundInv)'
    BY SMTT(60), <1>2 DEF CreateUnlock
  <1>3. ASSUME NEW t \in Types, CountLock(t) PROVE (LockInv /\ BoundInv)'
    BY <1>3 DEF CountLock
  <1>4. ASSUME NEW t \in Types, CountUnlock(t) PROVE (LockInv /\ BoundInv)'
    BY <1>4 DEF CountUnlock
  <1>5. ASSUME NEW t \in Types, ThreadLock(t) PROVE (LockInv /\ BoundInv)'
    BY <1>5 DEF ThreadLock
  <1>6. ASSUME NEW t \in Types, ThreadWait(t) PROVE (LockInv /\ BoundInv)'
    BY <1>6 DEF ThreadWait
  <1>7. ASSUME NEW t \in Types, SpuriousWakeup(t) PROVE (LockInv /\ BoundInv)'
    BY <1>7 DEF SpuriousWakeup
  <1>8. ASSUME NEW t \in Types, ThreadPick(t) PROVE (LockInv /\ BoundInv)'
    BY <1>8 DEF ThreadPick
  <1>9. ASSUME NEW t \in Types, ThreadRun(t) PROVE (LockInv /\ BoundInv)'
    BY <1>9 DEF ThreadRun
  <1>10. ASSUME NEW t \in Types, ThreadRetire(t) PROVE (LockInv /\ BoundInv)'
    BY <1>10 DEF ThreadRetire
  <1>11. ASSUME NEW t \in Types, KillThread(t) PROVE (LockInv /\ BoundInv)'
    BY <1>11 DEF KillThread
  <1>12. CASE UNCHANGED vars
    BY <1>12 DEF vars
  <1> QED
    BY <1>1, <1>2, <1>3, <1>4, <1>5, <1>6, <1>7, <1>8, <1>9, <1>10, <1>11,
       <1>12 DEF Next

\* What Append and Tail do to the length and the elements of a sequence.
LEMMA AppendFacts ==
  ASSUME NEW S, NEW s \in Seq(S), NEW x \in S
  PROVE  /\ Append(s, x) \in Seq(S)
         /\ Len(Append(s, x)) = Len(s) + 1
         /\ \A i \in 1..Len(s) : Append(s, x)[i] = s[i]
         /\ Append(s, x)[Len(s) + 1] = x
  OBVIOUS

LEMMA TailFacts ==
  ASSUME NEW S, NEW s \in Seq(S), Len(s) > 0
  PROVE  /\ Tail(s) \in Seq(S)
         /\ Len(Tail(s)) = Len(s) - 1
         /\ \A i \in 1..Len(s) - 1 : Tail(s)[i] = s[i + 1]
  OBVIOUS

\* The list holds the tail of what was created, the counter its length, and
\* the history of runs stops where the list begins, or one job further while
\* the thread waits for the lock.
LEMMA QueueStep == IndInv /\ [Next]_vars => QueueInv'
  <1> SUFFICES ASSUME IndInv, [Next]_vars, NEW u \in Types PROVE QueueInvOf(u)'
    BY DEF QueueInv
  <1>a. QueueInvOf(u)
    BY DEF IndInv, QueueInv
  <1>b. /\ jobs[u] \in Seq(Nat) /\ created[u] \in Seq(Nat) /\ executed[u] \in Seq(Nat)
        /\ pending[u] \in Nat /\ thread[u] \in ThreadPoints /\ njobs \in Nat
        /\ jobs \in [Types -> Seq(Nat)] /\ created \in [Types -> Seq(Nat)]
        /\ executed \in [Types -> Seq(Nat)] /\ pending \in [Types -> Nat]
        /\ thread \in [Types -> ThreadPoints]
    BY DEF IndInv, TypeOK
  <1>d. Retired(u) \in Nat /\ Retired(u) = Len(created[u]) - Len(jobs[u])
    BY <1>a, <1>b DEF QueueInvOf, Retired
  <1> DEFINE Same == /\ jobs'[u] = jobs[u] /\ created'[u] = created[u]
                     /\ executed'[u] = executed[u] /\ pending'[u] = pending[u]
  <1>c. ASSUME Same, thread'[u] = thread[u] PROVE QueueInvOf(u)'
    BY Zenon, <1>a, <1>c DEF QueueInvOf, Retired
  <1>1. ASSUME NEW t \in Types, CreateLock(t) PROVE QueueInvOf(u)'
    BY <1>1, <1>a, <1>b DEF CreateLock, QueueInvOf, Retired, ThreadPoints
  <1>2. ASSUME NEW t \in Types, CreateUnlock(t) PROVE QueueInvOf(u)'
    <2>1. CASE u # t
      BY <1>2, <1>b, <1>c, <2>1 DEF CreateUnlock
    <2>2. CASE u = t
      <3>1. /\ jobs'[u] = Append(jobs[u], njobs + 1)
            /\ created'[u] = Append(created[u], njobs + 1)
            /\ pending'[u] = pending[u] + 1
            /\ executed'[u] = executed[u]
            /\ thread'[u] = IF thread[u] = "wait" THEN "woken" ELSE thread[u]
        BY <1>2, <1>b, <2>2 DEF CreateUnlock
      <3>2. /\ Len(jobs'[u]) = Len(jobs[u]) + 1
            /\ \A i \in 1..Len(jobs[u]) : jobs'[u][i] = jobs[u][i]
            /\ jobs'[u][Len(jobs[u]) + 1] = njobs + 1
        BY <3>1, <1>b, AppendFacts
      <3>3. /\ Len(created'[u]) = Len(created[u]) + 1
            /\ \A i \in 1..Len(created[u]) : created'[u][i] = created[u][i]
            /\ created'[u][Len(created[u]) + 1] = njobs + 1
        BY <3>1, <1>b, AppendFacts
      <3>4. Retired(u)' = Retired(u)
        BY <3>2, <3>3, <1>b DEF Retired
      <3>5. ASSUME NEW i \in 1..Len(jobs'[u])
            PROVE  jobs'[u][i] = created'[u][Retired(u)' + i]
        <4>1. CASE i \in 1..Len(jobs[u])
          <5>1. Retired(u) + i \in 1..Len(created[u])
            BY <4>1, <1>b, <1>d
          <5>2. jobs[u][i] = created[u][Retired(u) + i]
            BY <4>1, <1>a DEF QueueInvOf
          <5> QED
            BY SMTT(60), <4>1, <5>1, <5>2, <3>2, <3>3, <3>4
        <4>2. CASE i = Len(jobs[u]) + 1
          <5>1. Retired(u) + i = Len(created[u]) + 1
            BY <4>2, <1>b, <1>d
          <5> QED
            BY <4>2, <5>1, <3>2, <3>3, <3>4
        <4> QED
          BY SMTT(60), <3>2, <4>1, <4>2, <1>b
      <3>6. ASSUME NEW i \in 1..Len(executed'[u])
            PROVE  executed'[u][i] = created'[u][i]
        BY <3>1, <3>3, <1>a, <1>b DEF QueueInvOf
      <3>7. /\ Len(jobs'[u]) <= Len(created'[u])
            /\ pending'[u] = Len(jobs'[u])
            /\ Len(executed'[u]) <= Len(created'[u])
            /\ Len(jobs'[u]) > 0
        BY <3>1, <3>2, <3>3, <1>a, <1>b DEF QueueInvOf
      <3>8. /\ thread'[u] = "relock" => Len(executed'[u]) = Retired(u)' + 1
            /\ thread'[u] \notin {"relock", "cancelled"} => Len(executed'[u]) = Retired(u)'
        BY <3>1, <3>4, <1>a DEF QueueInvOf
      <3> QED
        BY <3>5, <3>6, <3>7, <3>8 DEF QueueInvOf
    <2> QED
      BY <2>1, <2>2
  <1>3. ASSUME NEW t \in Types, CountLock(t) PROVE QueueInvOf(u)'
    BY <1>3, <1>a, <1>b DEF CountLock, QueueInvOf, Retired, ThreadPoints
  <1>4. ASSUME NEW t \in Types, CountUnlock(t) PROVE QueueInvOf(u)'
    BY <1>4, <1>a, <1>b DEF CountUnlock, QueueInvOf, Retired, ThreadPoints
  <1>5. ASSUME NEW t \in Types, ThreadLock(t) PROVE QueueInvOf(u)'
    BY SMTT(60), <1>5, <1>a, <1>b DEF ThreadLock, QueueInvOf, Retired, ThreadPoints
  <1>6. ASSUME NEW t \in Types, ThreadWait(t) PROVE QueueInvOf(u)'
    BY <1>6, <1>a, <1>b DEF ThreadWait, QueueInvOf, Retired, ThreadPoints
  <1>7. ASSUME NEW t \in Types, SpuriousWakeup(t) PROVE QueueInvOf(u)'
    BY <1>7, <1>a, <1>b DEF SpuriousWakeup, QueueInvOf, Retired, ThreadPoints
  <1>8. ASSUME NEW t \in Types, ThreadPick(t) PROVE QueueInvOf(u)'
    BY <1>8, <1>a, <1>b DEF ThreadPick, QueueInvOf, Retired, ThreadPoints
  <1>9. ASSUME NEW t \in Types, ThreadRun(t) PROVE QueueInvOf(u)'
    <2>1. CASE u # t
      BY <1>9, <1>b, <1>c, <2>1 DEF ThreadRun
    <2>2. CASE u = t
      <3>1. /\ thread[u] = "run" /\ thread'[u] = "relock"
            /\ executed'[u] = Append(executed[u], Head(jobs[u]))
            /\ jobs'[u] = jobs[u] /\ created'[u] = created[u] /\ pending'[u] = pending[u]
        BY <1>9, <1>b, <2>2 DEF ThreadRun
      <3>2. /\ Len(jobs[u]) > 0 /\ Len(executed[u]) = Retired(u)
            /\ Head(jobs[u]) = created[u][Len(executed[u]) + 1]
            /\ Head(jobs[u]) \in Nat
        BY SMTT(60), <3>1, <1>a, <1>b DEF QueueInvOf
      <3>3. /\ Len(executed'[u]) = Len(executed[u]) + 1
            /\ \A i \in 1..Len(executed[u]) : executed'[u][i] = executed[u][i]
            /\ executed'[u][Len(executed[u]) + 1] = Head(jobs[u])
        BY SMTT(60), <3>1, <3>2, <1>b, AppendFacts
      <3>4. Retired(u)' = Retired(u)
        BY <3>1 DEF Retired
      <3>5. ASSUME NEW i \in 1..Len(executed'[u])
            PROVE  executed'[u][i] = created'[u][i]
        <4>1. CASE i \in 1..Len(executed[u])
          BY <4>1, <3>1, <3>3, <1>a DEF QueueInvOf
        <4>2. CASE i = Len(executed[u]) + 1
          BY <4>2, <3>1, <3>2, <3>3
        <4> QED
          BY SMTT(60), <3>3, <4>1, <4>2, <1>b
      <3>6. /\ Len(jobs'[u]) <= Len(created'[u])
            /\ pending'[u] = Len(jobs'[u])
            /\ Len(executed'[u]) <= Len(created'[u])
            /\ Len(jobs'[u]) > 0
            /\ Len(executed'[u]) = Retired(u)' + 1
        BY <3>1, <3>2, <3>3, <3>4, <1>a, <1>b, <1>d DEF QueueInvOf
      <3>7. \A i \in 1..Len(jobs'[u]) : jobs'[u][i] = created'[u][Retired(u)' + i]
        BY <3>1, <3>4, <1>a DEF QueueInvOf
      <3> QED
        BY <3>1, <3>5, <3>6, <3>7 DEF QueueInvOf
    <2> QED
      BY <2>1, <2>2
  <1>10. ASSUME NEW t \in Types, ThreadRetire(t) PROVE QueueInvOf(u)'
    <2>1. CASE u # t
      BY <1>10, <1>b, <1>c, <2>1 DEF ThreadRetire
    <2>2. CASE u = t
      <3>1. /\ thread[u] = "relock" /\ thread'[u] = "check"
            /\ jobs'[u] = Tail(jobs[u]) /\ pending'[u] = pending[u] - 1
            /\ executed'[u] = executed[u] /\ created'[u] = created[u]
        BY <1>10, <1>b, <2>2 DEF ThreadRetire
      <3>2. Len(jobs[u]) > 0
        BY <3>1, <1>a DEF QueueInvOf
      <3>3. /\ Len(jobs'[u]) = Len(jobs[u]) - 1
            /\ \A i \in 1..Len(jobs[u]) - 1 : jobs'[u][i] = jobs[u][i + 1]
        BY <3>1, <3>2, <1>b, TailFacts
      <3>4. Retired(u)' = Retired(u) + 1
        <4>1. Retired(u)' = Len(created[u]) - Len(jobs'[u])
          BY <3>1 DEF Retired
        <4> QED
          BY <4>1, <3>3, <1>b, <1>d
      <3>5. ASSUME NEW i \in 1..Len(jobs'[u])
            PROVE  jobs'[u][i] = created'[u][Retired(u)' + i]
        <4>1. i \in 1..Len(jobs[u]) - 1 /\ i + 1 \in 1..Len(jobs[u])
          <5>1. Len(jobs[u]) \in Nat /\ i \in 1..(Len(jobs[u]) - 1)
            BY <3>3, <1>b
          <5> QED
            BY <5>1
        <4>2. jobs[u][i + 1] = created[u][Retired(u) + (i + 1)]
          BY <4>1, <1>a DEF QueueInvOf
        <4>3. Retired(u) + (i + 1) = Retired(u)' + i
          BY <4>1, <3>4, <1>b, <1>d
        <4> QED
          BY <4>1, <4>2, <4>3, <3>1, <3>3
      <3>6. /\ Len(jobs'[u]) <= Len(created'[u])
            /\ pending'[u] = Len(jobs'[u])
            /\ Len(executed'[u]) <= Len(created'[u])
            /\ Len(executed'[u]) = Retired(u)'
        BY <3>1, <3>2, <3>3, <3>4, <1>a, <1>b, <1>d DEF QueueInvOf
      <3>7. \A i \in 1..Len(executed'[u]) : executed'[u][i] = created'[u][i]
        BY <3>1, <1>a DEF QueueInvOf
      <3> QED
        BY <3>1, <3>5, <3>6, <3>7 DEF QueueInvOf
    <2> QED
      BY <2>1, <2>2
  <1>11. ASSUME NEW t \in Types, KillThread(t) PROVE QueueInvOf(u)'
    <2>1. CASE u # t
      BY <1>11, <1>b, <1>c, <2>1 DEF KillThread
    <2>2. CASE u = t
      <3>1. Same /\ thread'[u] = "cancelled"
        BY <1>11, <1>b, <2>2 DEF KillThread
      <3> QED
        BY Zenon, <3>1, <1>a DEF QueueInvOf, Retired
    <2> QED
      BY <2>1, <2>2
  <1>12. CASE UNCHANGED vars
    BY <1>12, <1>c DEF vars
  <1> QED
    BY <1>1, <1>2, <1>3, <1>4, <1>5, <1>6, <1>7, <1>8, <1>9, <1>10, <1>11,
       <1>12 DEF Next

\* The invariant of the locks and of the queues holds in every reachable state
\* of bio.c, for any number of jobs and of job types.
THEOREM BioInvariant == Spec => []IndInv
  <1>1. IndInv /\ [Next]_vars => IndInv'
    BY TypeStep, LockStep, QueueStep DEF IndInv
  <1> QED
    BY InitIndInv, <1>1, PTL DEF Spec

\* bioPendingJobsOfType answers 0 only when every job has been run to its end.
THEOREM ZeroPendingSafe == Spec => []ZeroPendingMeansAllRun
  <1>1. IndInv => ZeroPendingMeansAllRun
    <2> SUFFICES ASSUME IndInv, NEW t \in Types,
                        main = [at |-> "count", type |-> t], pending[t] = 0
                 PROVE  executed[t] = created[t]
      BY DEF ZeroPendingMeansAllRun
    <2>1. QueueInvOf(t)
      BY DEF IndInv, QueueInv
    <2>2. executed[t] \in Seq(Nat) /\ created[t] \in Seq(Nat) /\ jobs[t] \in Seq(Nat)
      BY DEF IndInv, TypeOK
    <2>3. thread[t] \notin {"relock", "cancelled"}
      BY <2>1, <2>2 DEF IndInv, LockInv, QueueInvOf
    <2>4. Len(executed[t]) = Retired(t) /\ Len(jobs[t]) = 0
      BY <2>1, <2>3 DEF QueueInvOf
    <2>5. Len(executed[t]) = Len(created[t])
      BY <2>2, <2>4 DEF Retired
    <2>6. \A i \in 1..Len(executed[t]) : executed[t][i] = created[t][i]
      BY <2>1 DEF QueueInvOf
    <2> QED
      BY Zenon, <2>2, <2>5, <2>6, SeqEqual
  <1> QED
    BY BioInvariant, <1>1, PTL

\* Jobs are run in the order of their creation and none twice.
THEOREM InOrderSafe == Spec => []RunInOrderOnce
  <1>1. IndInv => RunInOrderOnce
    BY Zenon DEF IndInv, QueueInv, QueueInvOf, RunInOrderOnce
  <1> QED
    BY BioInvariant, <1>1, PTL

\* Every step of bio.c is a step of the promised queue or leaves it unchanged.
THEOREM BioImplementsQueue == Spec => QueueSpec
  <1>1. Init => Queue!Init
    BY DEF Init, Queue!Init
  <1>2. IndInv /\ [Next]_vars => [Queue!Next]_(Queue!vars)
    <2> SUFFICES ASSUME IndInv, [Next]_vars PROVE [Queue!Next]_(Queue!vars)
      OBVIOUS
    <2> USE DEF Queue!vars
    <2>1. ASSUME NEW t \in Types, CreateUnlock(t) PROVE Queue!Next
      <3>1. njobs + 1 \in 1..MaxJobs
        BY <2>1, MaxJobsAssumption DEF CreateUnlock, IndInv, BoundInv, TypeOK
      <3> QED
        BY Zenon, <2>1, <3>1 DEF CreateUnlock, Queue!Next, Queue!Create
    <2>2. ASSUME NEW t \in Types, ThreadRun(t) PROVE Queue!Next
      <3>1. QueueInvOf(t) /\ thread[t] = "run"
        BY <2>2 DEF IndInv, QueueInv, ThreadRun
      <3>2. /\ executed[t] \in Seq(Nat) /\ created[t] \in Seq(Nat)
            /\ jobs[t] \in Seq(Nat) /\ executed \in [Types -> Seq(Nat)]
        BY DEF IndInv, TypeOK
      <3>3. /\ pending[t] = Queue!Waiting(t)
            /\ Queue!Waiting(t) > 0
        BY <3>1, <3>2 DEF QueueInvOf, Retired, Queue!Waiting
      <3>4. Head(jobs[t]) = created[t][Len(executed[t]) + 1]
        BY SMTT(60), <3>1, <3>2 DEF QueueInvOf
      <3> QED
        BY Zenon, <2>2, <3>2, <3>3, <3>4 DEF ThreadRun, Queue!Next, Queue!Run
    <2>3. ASSUME NEW t \in Types, ThreadRetire(t) PROVE Queue!Next
      <3>1. QueueInvOf(t) /\ thread[t] = "relock"
        BY <2>3 DEF IndInv, QueueInv, ThreadRetire
      <3>2. /\ executed[t] \in Seq(Nat) /\ created[t] \in Seq(Nat)
            /\ jobs[t] \in Seq(Nat)
        BY DEF IndInv, TypeOK
      <3>3. pending[t] = Len(jobs[t]) /\ Len(executed[t]) = Retired(t) + 1
        BY <3>1 DEF QueueInvOf
      <3>4. pending[t] = Queue!Waiting(t) + 1
        BY <3>2, <3>3 DEF Retired, Queue!Waiting
      <3> QED
        BY Zenon, <2>3, <3>4 DEF ThreadRetire, Queue!Next, Queue!CountOff
    <2>4. ASSUME NEW t \in Types,
                 \/ CreateLock(t) \/ CountLock(t) \/ CountUnlock(t) \/ ThreadLock(t)
                 \/ ThreadWait(t) \/ SpuriousWakeup(t) \/ ThreadPick(t) \/ KillThread(t)
          PROVE  UNCHANGED Queue!vars
      BY <2>4 DEF CreateLock, CountLock, CountUnlock, ThreadLock, ThreadWait,
                  SpuriousWakeup, ThreadPick, KillThread
    <2>5. CASE UNCHANGED vars
      BY <2>5 DEF vars
    <2> QED
      BY <2>1, <2>2, <2>3, <2>4, <2>5 DEF Next
  <1> QED
    BY BioInvariant, <1>1, <1>2, PTL DEF Spec, QueueSpec, Queue!Spec

============================================================================
