------------------------------ MODULE BioQueue ------------------------------
(***************************************************************************)
(* What bio.c promises, without threads and locks: for each job type a     *)
(* queue that runs its jobs in order, one at a time, and counts a job as   *)
(* pending from its creation until some time after it has run.             *)
(***************************************************************************)
EXTENDS Naturals, Sequences

CONSTANTS Types, Jobs

VARIABLES
    created,    \* created[t]: the jobs of type t, in order of creation
    executed,   \* executed[t]: the jobs of type t that have run
    pending     \* pending[t]: the answer of bioPendingJobsOfType(t)

vars == <<created, executed, pending>>

Init ==
    /\ created = [t \in Types |-> <<>>]
    /\ executed = [t \in Types |-> <<>>]
    /\ pending = [t \in Types |-> 0]

Waiting(t) == Len(created[t]) - Len(executed[t])

Create(t) ==
    /\ \E j \in Jobs : created' = [created EXCEPT ![t] = Append(@, j)]
    /\ pending' = [pending EXCEPT ![t] = @ + 1]
    /\ UNCHANGED executed

\* The next job runs only when the previous one has been counted off.
Run(t) ==
    /\ pending[t] = Waiting(t)
    /\ Waiting(t) > 0
    /\ executed' = [executed EXCEPT ![t] = Append(@, created[t][Len(@) + 1])]
    /\ UNCHANGED <<created, pending>>

CountOff(t) ==
    /\ pending[t] = Waiting(t) + 1
    /\ pending' = [pending EXCEPT ![t] = @ - 1]
    /\ UNCHANGED <<created, executed>>

Next == \E t \in Types : Create(t) \/ Run(t) \/ CountOff(t)

Spec == Init /\ [][Next]_vars

=============================================================================
