------------------------------ MODULE ThreadPool ------------------------------
(***************************************************************************)
(* The thread pool of the front end (ThreadPool.cpp): jobs with a key are  *)
(* not accepted while another job with that key is pending.                *)
(***************************************************************************)
EXTENDS Naturals, Sequences

CONSTANTS
    Submitters,     \* threads that submit jobs
    Workers,        \* threads of the pool
    Keys,           \* the keys; NoKey stands for key 0
    NoKey,
    NoJob           \* what an idle thread holds

ASSUME KeysAssumption == NoKey \notin Keys /\ NoJob \notin Keys \cup {NoKey}

VARIABLES
    pending_keys,
    accepting,      \* per submitter: the job between the check of its key and pool.submit_task
    queue,          \* the queue of BS::thread_pool, of keys
    running,        \* per worker: the key of its job
    returned,       \* per worker: whether func has returned and the key is still to be erased
    thrown          \* history: keys of jobs that ended with an exception

poolVars == <<pending_keys, accepting, queue, running, returned, thrown>>

Job == Keys \cup {NoKey}

PoolInit ==
    /\ pending_keys = {}
    /\ accepting = [s \in Submitters |-> NoJob]
    /\ queue = << >>
    /\ running = [w \in Workers |-> NoJob]
    /\ returned = [w \in Workers |-> FALSE]
    /\ thrown = {}

-----------------------------------------------------------------------------
(* Mutants                                                                 *)

\* The set of keys is not looked at.
submit_task_without_test(s, key) ==
    /\ accepting[s] = NoJob
    /\ pending_keys' = pending_keys \cup ({key} \ {NoKey})
    /\ accepting' = [accepting EXCEPT ![s] = key]
    /\ UNCHANGED <<queue, running, returned, thrown>>

\* A job waits until the pool is idle before it erases its key.
erase_key_when_idle(w) ==
    /\ returned[w]
    /\ \A v \in Workers : running[v] = NoJob
    /\ pending_keys' = pending_keys \ {running[w]}
    /\ running' = [running EXCEPT ![w] = NoJob]
    /\ returned' = [returned EXCEPT ![w] = FALSE]
    /\ UNCHANGED <<accepting, queue, thrown>>

-----------------------------------------------------------------------------
(* submit_task                                                             *)

\* The key is tested and inserted under mtx.
submit_task(s, key) ==
    /\ accepting[s] = NoJob
    /\ IF key = NoKey \/ key \notin pending_keys
       THEN /\ pending_keys' = pending_keys \cup ({key} \ {NoKey})
            /\ accepting' = [accepting EXCEPT ![s] = key]
       ELSE UNCHANGED <<pending_keys, accepting>>
    /\ UNCHANGED <<queue, running, returned, thrown>>

\* pool.submit_task
enqueue(s) ==
    /\ accepting[s] # NoJob
    /\ queue' = Append(queue, accepting[s])
    /\ accepting' = [accepting EXCEPT ![s] = NoJob]
    /\ UNCHANGED <<pending_keys, running, returned, thrown>>

\* A worker of BS::thread_pool takes the oldest job.
run_task(w) ==
    /\ running[w] = NoJob
    /\ queue # << >>
    /\ running' = [running EXCEPT ![w] = Head(queue)]
    /\ queue' = Tail(queue)
    /\ UNCHANGED <<pending_keys, accepting, returned, thrown>>

\* func() returns; without a key that is the end of the job.
func_returns(w) ==
    /\ running[w] # NoJob
    /\ ~returned[w]
    /\ IF running[w] = NoKey
       THEN running' = [running EXCEPT ![w] = NoJob] /\ UNCHANGED returned
       ELSE returned' = [returned EXCEPT ![w] = TRUE] /\ UNCHANGED running
    /\ UNCHANGED <<pending_keys, accepting, queue, thrown>>

\* func() throws: the pool keeps the exception in a future that nobody reads,
\* and the key is not erased.
func_throws(w) ==
    /\ running[w] # NoJob
    /\ ~returned[w]
    /\ running' = [running EXCEPT ![w] = NoJob]
    /\ thrown' = thrown \cup {running[w]}
    /\ UNCHANGED <<pending_keys, accepting, queue, returned>>

erase_key(w) ==
    /\ returned[w]
    /\ pending_keys' = pending_keys \ {running[w]}
    /\ running' = [running EXCEPT ![w] = NoJob]
    /\ returned' = [returned EXCEPT ![w] = FALSE]
    /\ UNCHANGED <<accepting, queue, thrown>>

PoolNext ==
    \/ \E s \in Submitters : enqueue(s) \/ \E key \in Job : submit_task(s, key)
    \/ \E w \in Workers : run_task(w) \/ func_returns(w) \/ func_throws(w) \/ erase_key(w)

PoolSpec == PoolInit /\ [][PoolNext]_poolVars

-----------------------------------------------------------------------------
(* Properties                                                              *)

\* Where the jobs with a key are.
Places(key) ==
    {<<"accepting", s>> : s \in {x \in Submitters : accepting[x] = key}}
        \cup {<<"queue", i>> : i \in {x \in 1 .. Len(queue) : queue[x] = key}}
        \cup {<<"running", w>> : w \in {x \in Workers : running[x] = key}}

\* A keyed command (close, start, reset, play movie) never runs or waits twice
\* at the same time, whoever submits it and however the threads interleave
\* (pending_keys in submit_task).
OneJobPerKey ==
    \A key \in Keys : \A p, q \in Places(key) : p = q

=============================================================================
