---------------------------- MODULE FrontEnd_proofs ----------------------------
(***************************************************************************)
(* Proofs about the services of the front end, for any number of workers,  *)
(* keys and messages, any budget and either setting of fast_dispatcher:    *)
(* every step of the front end is a step of each service or leaves it      *)
(* alone, and each service keeps an inductive invariant.                   *)
(***************************************************************************)
EXTENDS FrontEnd, FiniteSetTheorems, SequenceTheorems, WellFoundedInduction, TLAPS

-----------------------------------------------------------------------------
(* The thread pool                                                         *)

PoolTypeOK ==
    /\ pending_keys \subseteq Keys
    /\ accepting \in [Submitters -> Job \cup {NoJob}]
    /\ queue \in Seq(Job)
    /\ running \in [Workers -> Job \cup {NoJob}]
    /\ returned \in [Workers -> BOOLEAN]

\* A job with a key is in one place only, wherever it is.
OneSubmitter ==
    \A r, s \in Submitters : accepting[r] \in Keys /\ accepting[r] = accepting[s] => r = s

OneEntry ==
    \A i, j \in 1 .. Len(queue) : queue[i] \in Keys /\ queue[i] = queue[j] => i = j

OneWorker ==
    \A v, w \in Workers : running[v] \in Keys /\ running[v] = running[w] => v = w

OneKindOfPlace ==
    /\ \A s \in Submitters : accepting[s] \in Keys =>
         /\ \A i \in 1 .. Len(queue) : queue[i] # accepting[s]
         /\ \A w \in Workers : running[w] # accepting[s]
    /\ \A w \in Workers : running[w] \in Keys =>
         \A i \in 1 .. Len(queue) : queue[i] # running[w]

\* The key of a job that waits or runs is in the set that submit_task tests.
KeysArePending ==
    /\ \A s \in Submitters : accepting[s] \in Keys => accepting[s] \in pending_keys
    /\ \A i \in 1 .. Len(queue) : queue[i] \in Keys => queue[i] \in pending_keys
    /\ \A w \in Workers : running[w] \in Keys => running[w] \in pending_keys

OnlyKeyedJobsErase == \A w \in Workers : returned[w] => running[w] \in Keys

PoolInv ==
    /\ PoolTypeOK
    /\ OneSubmitter /\ OneEntry /\ OneWorker /\ OneKindOfPlace
    /\ KeysArePending
    /\ OnlyKeyedJobsErase

\* The queue after a job is appended or the oldest one is taken.
LEMMA QueueSteps ==
    ASSUME NEW q \in Seq(Job)
    PROVE  /\ \A j \in Job : /\ Append(q, j) \in Seq(Job)
                             /\ Len(Append(q, j)) = Len(q) + 1
                             /\ \A i \in 1 .. Len(q) : Append(q, j)[i] = q[i]
                             /\ Append(q, j)[Len(q) + 1] = j
           /\ q # << >> => /\ Head(q) \in Job
                           /\ Head(q) = q[1]
                           /\ 1 \in 1 .. Len(q)
                           /\ Tail(q) \in Seq(Job)
                           /\ Len(Tail(q)) = Len(q) - 1
                           /\ \A i \in 1 .. Len(q) - 1 : Tail(q)[i] = q[i + 1]
  OBVIOUS

\* submit_task accepts a key only when no job with it waits or runs.
LEMMA SubmitKeepsPool ==
    ASSUME PoolInv, NEW s \in Submitters, NEW key \in Job, submit_task(s, key)
    PROVE  PoolInv'
<1> USE DEF PoolInv
<1>1. CASE key = NoKey \/ key \notin pending_keys
  <2>1. /\ pending_keys' = pending_keys \cup ({key} \ {NoKey})
        /\ accepting' = [accepting EXCEPT ![s] = key]
        /\ queue' = queue /\ running' = running /\ returned' = returned
    BY <1>1 DEF submit_task
  <2>2. PoolTypeOK'
    BY <2>1 DEF PoolTypeOK, Job
  <2>3. ASSUME key \in Keys
        PROVE  /\ \A r \in Submitters : accepting[r] # key
               /\ \A i \in 1 .. Len(queue) : queue[i] # key
               /\ \A w \in Workers : running[w] # key
    BY <1>1, <2>3, KeysAssumption DEF KeysArePending
  <2>4. /\ accepting'[s] = key
        /\ \A r \in Submitters : r # s => accepting'[r] = accepting[r]
    BY <2>1 DEF PoolTypeOK
  <2>5. OneSubmitter'
    BY <2>3, <2>4 DEF OneSubmitter
  <2>6. OneEntry' /\ OneWorker' /\ OnlyKeyedJobsErase'
    BY <2>1 DEF OneEntry, OneWorker, OnlyKeyedJobsErase
  <2>7. OneKindOfPlace'
    BY <2>1, <2>3, <2>4 DEF OneKindOfPlace
  <2>8. KeysArePending'
    BY <2>1, <2>4, KeysAssumption DEF KeysArePending
  <2> QED
    BY <2>2, <2>5, <2>6, <2>7, <2>8
<1>2. CASE ~(key = NoKey \/ key \notin pending_keys)
  BY <1>2 DEF submit_task, PoolTypeOK, OneSubmitter, OneEntry, OneWorker, OneKindOfPlace,
              KeysArePending, OnlyKeyedJobsErase
<1> QED
  BY <1>1, <1>2

\* A job moves from its submitter to the end of the queue.
LEMMA EnqueueKeepsPool ==
    ASSUME PoolInv, NEW s \in Submitters, enqueue(s)
    PROVE  PoolInv'
<1> USE DEF PoolInv
<1> DEFINE job == accepting[s]
<1>1. /\ job \in Job
      /\ queue' = Append(queue, job)
      /\ accepting' = [accepting EXCEPT ![s] = NoJob]
      /\ pending_keys' = pending_keys /\ running' = running /\ returned' = returned
  BY DEF enqueue, PoolTypeOK
<1>2. /\ accepting'[s] = NoJob
      /\ \A r \in Submitters : r # s => accepting'[r] = accepting[r]
  BY <1>1 DEF PoolTypeOK
<1>3. /\ queue' \in Seq(Job)
      /\ Len(queue') = Len(queue) + 1
      /\ \A i \in 1 .. Len(queue) : queue'[i] = queue[i]
      /\ queue'[Len(queue) + 1] = job
  BY <1>1, QueueSteps DEF PoolTypeOK
<1>4. \A i \in 1 .. Len(queue') : i \in 1 .. Len(queue) \/ i = Len(queue) + 1
  BY <1>3 DEF PoolTypeOK
<1>5. NoJob \notin Keys
  BY KeysAssumption
<1>6. PoolTypeOK'
  BY <1>1, <1>3 DEF PoolTypeOK
<1>7. OneSubmitter'
  BY <1>2, <1>5 DEF OneSubmitter
<1>8. OneEntry'
  <2> SUFFICES ASSUME NEW i \in 1 .. Len(queue'), NEW j \in 1 .. Len(queue'),
                      queue'[i] \in Keys, queue'[i] = queue'[j]
               PROVE  i = j
    BY DEF OneEntry
  <2>1. CASE i \in 1 .. Len(queue) /\ j \in 1 .. Len(queue)
    BY <1>3, <2>1 DEF OneEntry
  <2>2. CASE i \notin 1 .. Len(queue) /\ j \in 1 .. Len(queue)
    BY <1>3, <1>4, <2>2 DEF OneKindOfPlace
  <2>3. CASE i \in 1 .. Len(queue) /\ j \notin 1 .. Len(queue)
    BY <1>3, <1>4, <2>3 DEF OneKindOfPlace
  <2>4. CASE i \notin 1 .. Len(queue) /\ j \notin 1 .. Len(queue)
    BY <1>4, <2>4
  <2> QED
    BY <2>1, <2>2, <2>3, <2>4
<1>9. OneWorker' /\ OnlyKeyedJobsErase'
  BY <1>1 DEF OneWorker, OnlyKeyedJobsErase
<1>10. OneKindOfPlace'
  <2>1. ASSUME NEW r \in Submitters, accepting'[r] \in Keys
        PROVE  /\ \A i \in 1 .. Len(queue') : queue'[i] # accepting'[r]
               /\ \A w \in Workers : running'[w] # accepting'[r]
    <3>1. r # s /\ accepting'[r] = accepting[r]
      BY <1>2, <1>5, <2>1
    <3>2. accepting[r] # job
      BY <2>1, <3>1 DEF OneSubmitter
    <3> QED
      BY <1>1, <1>3, <1>4, <2>1, <3>1, <3>2 DEF OneKindOfPlace
  <2>2. ASSUME NEW w \in Workers, running'[w] \in Keys,
               NEW i \in 1 .. Len(queue')
        PROVE  queue'[i] # running'[w]
    BY <1>1, <1>3, <1>4, <2>2 DEF OneKindOfPlace
  <2> QED
    BY <2>1, <2>2 DEF OneKindOfPlace
<1>11. KeysArePending'
  <2>1. \A i \in 1 .. Len(queue') : queue'[i] \in Keys => queue'[i] \in pending_keys
    BY <1>3, <1>4 DEF KeysArePending
  <2> QED
    BY <1>1, <1>2, <1>5, <2>1 DEF KeysArePending
<1> QED
  BY <1>6, <1>7, <1>8, <1>9, <1>10, <1>11

\* A job moves from the front of the queue to a worker.
LEMMA RunKeepsPool ==
    ASSUME PoolInv, NEW w \in Workers, run_task(w)
    PROVE  PoolInv'
<1> USE DEF PoolInv
<1> DEFINE job == Head(queue)
<1>1. /\ queue # << >>
      /\ running[w] = NoJob
      /\ queue' = Tail(queue)
      /\ running' = [running EXCEPT ![w] = job]
      /\ pending_keys' = pending_keys /\ accepting' = accepting /\ returned' = returned
  BY DEF run_task
<1>2. /\ job \in Job
      /\ job = queue[1]
      /\ 1 \in 1 .. Len(queue)
      /\ queue' \in Seq(Job)
      /\ Len(queue') = Len(queue) - 1
      /\ \A i \in 1 .. Len(queue') : queue'[i] = queue[i + 1]
  BY <1>1, QueueSteps DEF PoolTypeOK
<1>3. \A i \in 1 .. Len(queue') : i + 1 \in 1 .. Len(queue) /\ i + 1 # 1
  BY <1>2 DEF PoolTypeOK
<1>4. /\ running'[w] = job
      /\ \A v \in Workers : v # w => running'[v] = running[v]
  BY <1>1 DEF PoolTypeOK
<1>5. PoolTypeOK'
  BY <1>1, <1>2 DEF PoolTypeOK
<1>6. OneSubmitter'
  BY <1>1 DEF OneSubmitter
<1>7. OneEntry'
  <2> SUFFICES ASSUME NEW i \in 1 .. Len(queue'), NEW j \in 1 .. Len(queue'),
                      queue'[i] \in Keys, queue'[i] = queue'[j]
               PROVE  i = j
    BY DEF OneEntry
  <2>1. i + 1 = j + 1
    BY <1>2, <1>3 DEF OneEntry
  <2> QED
    BY <2>1
<1>8. OneWorker'
  BY <1>2, <1>4 DEF OneWorker, OneKindOfPlace
<1>9. OneKindOfPlace'
  <2>1. \A v \in Workers : running'[v] \in Keys =>
            \A i \in 1 .. Len(queue') : queue'[i] # running'[v]
    BY <1>2, <1>3, <1>4 DEF OneKindOfPlace, OneEntry
  <2>2. ASSUME NEW s \in Submitters, accepting[s] \in Keys
        PROVE  /\ \A i \in 1 .. Len(queue') : queue'[i] # accepting[s]
               /\ \A v \in Workers : running'[v] # accepting[s]
    BY <1>2, <1>3, <1>4, <2>2 DEF OneKindOfPlace
  <2> QED
    BY <1>1, <2>1, <2>2 DEF OneKindOfPlace
<1>10. KeysArePending'
  BY <1>1, <1>2, <1>3, <1>4 DEF KeysArePending
<1>11. OnlyKeyedJobsErase'
  BY <1>1, <1>4, KeysAssumption DEF OnlyKeyedJobsErase
<1> QED
  BY <1>5, <1>6, <1>7, <1>8, <1>9, <1>10, <1>11

\* A job ends, with or without an exception; only then, and only when it has
\* a key, is that key given back.
LEMMA EndKeepsPool ==
    ASSUME PoolInv, NEW w \in Workers, func_returns(w) \/ func_throws(w) \/ erase_key(w)
    PROVE  PoolInv'
<1> USE DEF PoolInv
<1>1. accepting' = accepting /\ queue' = queue
  BY DEF func_returns, func_throws, erase_key
<1>2. running' \in [Workers -> Job \cup {NoJob}] /\ returned' \in [Workers -> BOOLEAN]
  BY DEF func_returns, func_throws, erase_key, PoolTypeOK
<1>3. \A v \in Workers : running'[v] = running[v] \/ running'[v] = NoJob
  BY DEF func_returns, func_throws, erase_key, PoolTypeOK
<1>4. NoJob \notin Keys /\ NoKey \notin Keys
  BY KeysAssumption
<1>5. \A v \in Workers : returned'[v] => running'[v] \in Keys
  <2> SUFFICES ASSUME NEW v \in Workers, returned'[v] PROVE running'[v] \in Keys
    OBVIOUS
  <2>1. CASE func_returns(w)
    <3>1. CASE v = w
      BY <2>1, <3>1 DEF func_returns, PoolTypeOK, Job
    <3>2. CASE v # w
      BY <2>1, <3>2 DEF func_returns, PoolTypeOK, OnlyKeyedJobsErase
    <3> QED
      BY <3>1, <3>2
  <2>2. CASE func_throws(w)
    BY <2>2 DEF func_throws, PoolTypeOK, OnlyKeyedJobsErase
  <2>3. CASE erase_key(w)
    BY <2>3 DEF erase_key, PoolTypeOK, OnlyKeyedJobsErase
  <2> QED
    BY <2>1, <2>2, <2>3
<1>6. \/ pending_keys' = pending_keys
      \/ /\ running[w] \in Keys
         /\ pending_keys' = pending_keys \ {running[w]}
         /\ running'[w] = NoJob
  BY DEF func_returns, func_throws, erase_key, PoolTypeOK, OnlyKeyedJobsErase
<1>7. PoolTypeOK'
  BY <1>1, <1>2, <1>6 DEF PoolTypeOK
<1>8. OneSubmitter' /\ OneEntry'
  BY <1>1 DEF OneSubmitter, OneEntry
<1>9. OneWorker'
  BY <1>3, <1>4 DEF OneWorker
<1>10. OneKindOfPlace'
  BY <1>1, <1>3, <1>4 DEF OneKindOfPlace
<1>11. KeysArePending'
  BY <1>1, <1>3, <1>4, <1>6 DEF KeysArePending, OneKindOfPlace, OneWorker
<1> QED
  BY <1>5, <1>7, <1>8, <1>9, <1>10, <1>11 DEF OnlyKeyedJobsErase

\* The pool starts empty.
LEMMA PoolInitInv == PoolInit => PoolInv
  BY KeysAssumption, EmptySeq DEF PoolInit, PoolInv, PoolTypeOK, OneSubmitter, OneEntry, OneWorker,
     OneKindOfPlace, KeysArePending, OnlyKeyedJobsErase, Job

\* Every step of the pool keeps the invariant.
LEMMA PoolStepInv == PoolInv /\ [PoolNext]_poolVars => PoolInv'
<1> SUFFICES ASSUME PoolInv, [PoolNext]_poolVars PROVE PoolInv'
  OBVIOUS
<1>1. CASE UNCHANGED poolVars
  BY <1>1 DEF poolVars, PoolInv, PoolTypeOK, OneSubmitter, OneEntry, OneWorker,
     OneKindOfPlace, KeysArePending, OnlyKeyedJobsErase
<1>2. ASSUME NEW s \in Submitters, enqueue(s) PROVE PoolInv'
  BY <1>2, EnqueueKeepsPool
<1>3. ASSUME NEW s \in Submitters, NEW key \in Job, submit_task(s, key) PROVE PoolInv'
  BY <1>3, SubmitKeepsPool
<1>4. ASSUME NEW w \in Workers,
             run_task(w) \/ func_returns(w) \/ func_throws(w) \/ erase_key(w)
      PROVE  PoolInv'
  BY <1>4, RunKeepsPool, EndKeepsPool
<1> QED
  BY <1>1, <1>2, <1>3, <1>4 DEF PoolNext

\* No two places hold a job with the same key.
LEMMA PoolInvOneJob == PoolInv => OneJobPerKey
  BY DEF PoolInv, OneJobPerKey, Places, OneSubmitter, OneEntry, OneWorker, OneKindOfPlace

\* The pool alone, with any number of threads that submit jobs, keeps its
\* promise: a keyed job never waits or runs twice (pending_keys in submit_task).
THEOREM PoolSafe == PoolSpec => []OneJobPerKey
<1>1. PoolSpec => []PoolInv
  BY PoolInitInv, PoolStepInv, PTL DEF PoolSpec
<1> QED
  BY <1>1, PoolInvOneJob, PTL

\* A step of the front end is a step of the pool, or does not touch it.
LEMMA FrontEndStepsPool == [Next]_vars => [PoolNext]_poolVars
<1> SUFFICES ASSUME [Next]_vars PROVE PoolNext \/ UNCHANGED poolVars
  OBVIOUS
<1>1. ui \in Submitters
  BY ThreadsAssumption
<1> QED
  BY <1>1 DEF Next, vars, PoolNext, UserSubmits, UiEnqueues, UiBroadcasts, CallbackBroadcasts,
     UiDispatches, UserOpensOrCloses, UserChangesSettings, WorkerTakes, JobEnds,
     JobThrows, KeyErased, Invoked, JobBroadcasts, BusStep, Callback, show, RollProceeds,
     RollSubscribes, RollUnsubscribes, RollStep, RollReturns, RollOpens, UserClosesRoll, RollEnds

\* The front end uses the pool as the pool is specified.
THEOREM FrontEndImplementsPool == Spec => PoolSpec
<1>1. Init => PoolInit
  BY DEF Init
<1> QED
  BY <1>1, FrontEndStepsPool, PTL DEF Spec, PoolSpec

\* In the front end a keyed command never waits or runs twice at the same time,
\* for any pool, any keys and any user.
THEOREM FrontEndOneJobPerKey == Spec => []OneJobPerKey
  BY PoolSafe, FrontEndImplementsPool, PTL

-----------------------------------------------------------------------------
(* The dispatcher of the UI thread                                         *)

DispatcherNext ==
    \/ \E t \in Callers : invoke(t) \/ push(t) \/ m_execute_callback(t) \/ invoke_returns(t)
    \/ loop_executes \/ window_executes \/ dialog_opens_or_closes \/ settings_change

Holding == {"pushed", "awaits_event", "sent", "handled"}

DispatcherTypeOK ==
    /\ m_mutex \in Callers \cup {Nobody}
    /\ m_queue \in Seq(Callers)
    /\ call \in [Callers -> {"none", "invoked"} \cup Holding]

\* invoke holds m_mutex from its push until it returns.
MutexHeld == \A t \in Callers : call[t] \in Holding <=> m_mutex = t

\* A function that waits in the queue is that of a call under way.
QueuedCalls ==
    \A i \in 1 .. Len(m_queue) : call[m_queue[i]] \in {"pushed", "awaits_event", "sent"}

\* An event is signalled only while the holder of m_mutex waits for the answer,
\* and the answer is given after its function was executed.
EventsBelongToHolder ==
    /\ dispatcher_event =>
         m_mutex \in Callers /\ call[m_mutex] = "awaits_event" /\ ~dispatcher_done_event
    /\ dispatcher_done_event =>
         m_mutex \in Callers /\ call[m_mutex] = "awaits_event" /\ m_queue = << >>

DispatcherInv == DispatcherTypeOK /\ MutexHeld /\ QueuedCalls /\ EventsBelongToHolder

\* The steps of a thread that invokes.
LEMMA CallerKeepsDispatcher ==
    ASSUME DispatcherInv, NEW t \in Callers,
           invoke(t) \/ push(t) \/ m_execute_callback(t) \/ invoke_returns(t)
    PROVE  DispatcherInv'
<1> USE DEF DispatcherInv
<1>n. Nobody \notin Callers
  BY CallersAssumption
<1>1. CASE invoke(t)
  <2>1. DispatcherTypeOK' /\ MutexHeld'
    BY <1>1 DEF invoke, DispatcherTypeOK, Holding, MutexHeld
  <2>2. QueuedCalls' /\ EventsBelongToHolder'
    BY <1>1 DEF invoke, DispatcherTypeOK, QueuedCalls, EventsBelongToHolder
  <2> QED
    BY <2>1, <2>2
<1>2. CASE push(t)
  <2>1. /\ Append(m_queue, t) \in Seq(Callers)
        /\ Len(m_queue') = Len(m_queue) + 1
        /\ \A i \in 1 .. Len(m_queue) : m_queue'[i] = m_queue[i]
        /\ m_queue'[Len(m_queue) + 1] = t
    BY <1>2 DEF push, DispatcherTypeOK
  <2>2. ~dispatcher_event /\ ~dispatcher_done_event
    BY <1>2, <1>n DEF push, EventsBelongToHolder
  <2>3. DispatcherTypeOK' /\ MutexHeld' /\ EventsBelongToHolder'
    BY <1>2, <1>n, <2>1, <2>2
    DEF push, DispatcherTypeOK, Holding, MutexHeld, EventsBelongToHolder
  <2>4. QueuedCalls'
    <3> SUFFICES ASSUME NEW i \in 1 .. Len(m_queue')
                 PROVE  call'[m_queue'[i]] \in {"pushed", "awaits_event", "sent"}
      BY DEF QueuedCalls
    <3>1. CASE i \in 1 .. Len(m_queue)
      BY <1>2, <2>1, <3>1 DEF push, DispatcherTypeOK, QueuedCalls
    <3>2. CASE i = Len(m_queue) + 1
      BY <1>2, <2>1, <3>2 DEF push, DispatcherTypeOK
    <3> QED
      BY <2>1, <3>1, <3>2 DEF DispatcherTypeOK
  <2> QED
    BY <2>3, <2>4
<1>3. CASE m_execute_callback(t)
  <2>1. m_mutex = t /\ ~dispatcher_done_event
    BY <1>3 DEF m_execute_callback, MutexHeld, Holding, EventsBelongToHolder
  <2>2. DispatcherTypeOK' /\ MutexHeld' /\ EventsBelongToHolder'
    BY <1>3, <2>1
    DEF m_execute_callback, DispatcherTypeOK, Holding, MutexHeld, EventsBelongToHolder
  <2>3. QueuedCalls'
    BY <1>3 DEF m_execute_callback, DispatcherTypeOK, QueuedCalls
  <2> QED
    BY <2>2, <2>3
<1>4. CASE invoke_returns(t)
  <2>1. m_mutex = t /\ m_mutex' = Nobody
    BY <1>4 DEF invoke_returns, MutexHeld, Holding
  <2>2. m_queue' = m_queue /\ \A i \in 1 .. Len(m_queue) : m_queue[i] # t
    BY <1>4, <2>1 DEF invoke_returns, QueuedCalls, EventsBelongToHolder
  <2>3. call' = [call EXCEPT ![t] = "none"]
    BY <1>4 DEF invoke_returns
  <2>4. ~dispatcher_event' /\ ~dispatcher_done_event'
    BY <1>4, <2>1 DEF invoke_returns, EventsBelongToHolder
  <2>5. DispatcherTypeOK'
    BY <1>4, <2>1, <2>3, <2>4 DEF invoke_returns, DispatcherTypeOK
  <2>6. MutexHeld'
    BY <1>n, <2>1, <2>3 DEF DispatcherTypeOK, Holding, MutexHeld
  <2>7. QueuedCalls'
    BY <2>2, <2>3 DEF DispatcherTypeOK, QueuedCalls
  <2> QED
    BY <2>4, <2>5, <2>6, <2>7 DEF EventsBelongToHolder
<1> QED
  BY <1>1, <1>2, <1>3, <1>4

\* The steps of the UI thread.
LEMMA UiKeepsDispatcher ==
    ASSUME DispatcherInv,
           loop_executes \/ window_executes \/ dialog_opens_or_closes \/ settings_change
    PROVE  DispatcherInv'
<1> USE DEF DispatcherInv
<1>e. << >> \in Seq(Callers) /\ Len(<< >>) = 0
  OBVIOUS
<1>1. CASE loop_executes
  <2>1. DispatcherTypeOK' /\ MutexHeld'
    BY <1>1, <1>e DEF loop_executes, DispatcherTypeOK, MutexHeld
  <2>2. QueuedCalls' /\ EventsBelongToHolder'
    BY <1>1, <1>e DEF loop_executes, QueuedCalls, EventsBelongToHolder
  <2> QED
    BY <2>1, <2>2
<1>2. CASE window_executes
  <2>1. PICK t \in Callers :
          /\ call[t] = "sent"
          /\ m_queue' = << >>
          /\ call' = [call EXCEPT ![t] = "handled"]
          /\ UNCHANGED <<m_mutex, dispatcher_event, dispatcher_done_event, fast_dispatcher, modal>>
    BY <1>2 DEF window_executes
  <2>2. m_mutex = t
    BY <2>1 DEF MutexHeld, Holding
  <2> QED
    BY <1>e, <2>1, <2>2
    DEF DispatcherTypeOK, MutexHeld, Holding, QueuedCalls, EventsBelongToHolder
<1>3. CASE dialog_opens_or_closes \/ settings_change
  BY <1>3 DEF dialog_opens_or_closes, settings_change, DispatcherTypeOK, MutexHeld, Holding,
              QueuedCalls, EventsBelongToHolder
<1> QED
  BY <1>1, <1>2, <1>3

\* A step of the front end is a step of the dispatcher, or does not touch it.
LEMMA FrontEndStepsDispatcher == [Next]_vars => [DispatcherNext]_dispatcherVars
<1> SUFFICES ASSUME [Next]_vars PROVE DispatcherNext \/ UNCHANGED dispatcherVars
  OBVIOUS
<1>1. Callers = Workers
  BY ThreadsAssumption
<1> QED
  BY <1>1 DEF Next, vars, DispatcherNext, UserSubmits, UiEnqueues, UiBroadcasts,
     CallbackBroadcasts, UiDispatches, UserOpensOrCloses, UserChangesSettings, show, RollProceeds,
     WorkerTakes, JobEnds, JobThrows, KeyErased, Invoked, JobBroadcasts, BusStep, Callback,
     RollSubscribes, RollUnsubscribes, RollStep, RollReturns, RollOpens, UserClosesRoll, RollEnds

\* The answer that a call of invoke takes is its own: when it is about to
\* return, its function has been executed, whatever fast_dispatcher is and
\* however often the settings change it.
THEOREM FrontEndInvokeIsSynchronous == Spec => []InvokeIsSynchronous
<1>1. Init => DispatcherInv
  BY CallersAssumption DEF Init, DispatcherInit, DispatcherInv, DispatcherTypeOK, MutexHeld,
     Holding, QueuedCalls, EventsBelongToHolder
<1>2. DispatcherInv /\ [Next]_vars => DispatcherInv'
  <2> SUFFICES ASSUME DispatcherInv, [DispatcherNext]_dispatcherVars PROVE DispatcherInv'
    BY FrontEndStepsDispatcher
  <2>1. CASE UNCHANGED dispatcherVars
    BY <2>1 DEF dispatcherVars, DispatcherInv, DispatcherTypeOK, MutexHeld, Holding,
       QueuedCalls, EventsBelongToHolder
  <2>2. ASSUME NEW t \in Callers,
               invoke(t) \/ push(t) \/ m_execute_callback(t) \/ invoke_returns(t)
        PROVE  DispatcherInv'
    BY <2>2, CallerKeepsDispatcher
  <2>3. CASE loop_executes \/ window_executes \/ dialog_opens_or_closes \/ settings_change
    BY <2>3, UiKeepsDispatcher
  <2> QED
    BY <2>1, <2>2, <2>3 DEF DispatcherNext
<1>3. DispatcherInv => InvokeIsSynchronous
  <2> SUFFICES ASSUME DispatcherInv, NEW t \in Callers,
                      call[t] = "handled" \/ (call[t] = "awaits_event" /\ dispatcher_done_event),
                      NEW i \in 1 .. Len(m_queue)
               PROVE  m_queue[i] # t
    BY DEF InvokeIsSynchronous
  <2> QED
    BY DEF DispatcherInv, QueuedCalls, EventsBelongToHolder
<1> QED
  BY <1>1, <1>2, <1>3, PTL DEF Spec

-----------------------------------------------------------------------------
(* The message bus                                                         *)

\* A set of natural numbers that is not empty has a least element.
LEMMA NatMin ==
    ASSUME NEW T \in SUBSET Nat, T # {}
    PROVE  \E x \in T : \A y \in T : x <= y
<1> DEFINE Less == {ss \in Nat \X Nat : ss[1] < ss[2]}
<1>1. IsWellFoundedOn(Less, Nat)
  BY NatLessThanWellFounded DEF OpToRel
<1>2. \A a, b \in Nat : <<a, b>> \in Less <=> a < b
  OBVIOUS
<1> HIDE DEF Less
<1>3. \E x \in T : \A y \in T : <<y, x>> \notin Less
  BY <1>1, WFMin
<1>4. PICK x \in T : \A y \in T : <<y, x>> \notin Less
  BY <1>3
<1>5. ASSUME NEW y \in T PROVE x <= y
  <2>1. x \in Nat /\ y \in Nat
    OBVIOUS
  <2>2. ~(y < x)
    BY <1>2, <1>4, <2>1
  <2> QED
    BY <2>1, <2>2
<1> QED
  BY <1>5

\* Keep finds an element for each of its indices: the first k with i indices up
\* to it is one of them.
LEMMA KeepIndices ==
    ASSUME NEW n \in Nat, NEW K \in SUBSET (1 .. n)
    PROVE  /\ Cardinality(K) \in Nat
           /\ \A i \in 1 .. Cardinality(K) :
                \E k \in K : Cardinality({j \in K : j <= k}) = i
<1> DEFINE UpTo(x) == {j \in K : j <= x}
<1>1. IsFiniteSet(1 .. n)
  BY FS_Interval
<1>2. \A T \in SUBSET K : IsFiniteSet(T) /\ Cardinality(T) \in Nat
  BY <1>1, FS_Subset, FS_CardinalityType
<1>3. \A x \in Nat : UpTo(x) \in SUBSET K
  OBVIOUS
<1>k. \A j \in K : j \in Nat /\ 1 <= j /\ j <= n
  OBVIOUS
<1>4. UpTo(n) = K /\ UpTo(0) = {}
  <2>1. \A j \in K : j <= n /\ ~(j <= 0)
    BY <1>k
  <2> QED
    BY <2>1
<1> HIDE DEF UpTo
<1>5. ASSUME NEW i \in 1 .. Cardinality(K)
      PROVE  \E k \in K : Cardinality(UpTo(k)) = i
  <2> DEFINE T == {x \in Nat : Cardinality(UpTo(x)) >= i}
  <2>1. Cardinality(K) \in Nat
    BY <1>2
  <2>2. n \in T
    BY <1>4, <2>1
  <2>3. PICK k \in T : \A y \in T : k <= y
    BY <2>2, NatMin
  <2>4. k # 0
    BY <1>4, <2>3, FS_EmptySet
  <2>5. k - 1 \in Nat /\ k - 1 \notin T
    BY <2>3, <2>4
  <2>6. UpTo(k) = IF k \in K THEN UpTo(k - 1) \cup {k} ELSE UpTo(k - 1)
    <3>1. \A j \in K : j <= k <=> j <= k - 1 \/ j = k
      BY <1>k, <2>5
    <3> QED
      BY <3>1, <2>5 DEF UpTo
  <2>7. k \notin UpTo(k - 1)
    BY <2>5 DEF UpTo
  <2>8. /\ IsFiniteSet(UpTo(k - 1))
        /\ Cardinality(UpTo(k - 1)) \in Nat
        /\ Cardinality(UpTo(k)) \in Nat
    BY <1>2, <1>3, <2>5
  <2>9. Cardinality(UpTo(k - 1) \cup {k}) = Cardinality(UpTo(k - 1)) + 1
    BY <2>7, <2>8, FS_AddElement
  <2>10. Cardinality(UpTo(k - 1)) < i /\ Cardinality(UpTo(k)) >= i
    BY <2>3, <2>5, <2>8
  <2>11. k \in K /\ Cardinality(UpTo(k)) = i
    BY <2>6, <2>8, <2>9, <2>10
  <2> QED
    BY <2>11
<1> QED
  BY <1>2, <1>5 DEF UpTo

\* Keep returns a sequence of elements of the vector.
LEMMA KeepType ==
    ASSUME NEW S, NEW vector \in Seq(S), NEW K \in SUBSET (1 .. Len(vector))
    PROVE  /\ Keep(vector, K) \in Seq(S)
           /\ Len(Keep(vector, K)) = Cardinality(K)
<1>1. /\ Cardinality(K) \in Nat
      /\ \A i \in 1 .. Cardinality(K) : \E k \in K : Cardinality({j \in K : j <= k}) = i
  <2>1. Len(vector) \in Nat
    OBVIOUS
  <2> QED
    BY <2>1, KeepIndices
<1>2. \A i \in 1 .. Cardinality(K) :
          vector[CHOOSE k \in K : Cardinality({j \in K : j <= k}) = i] \in S
  <2> TAKE i \in 1 .. Cardinality(K)
  <2>1. \E k \in K : Cardinality({j \in K : j <= k}) = i
    BY <1>1
  <2>2. (CHOOSE k \in K : Cardinality({j \in K : j <= k}) = i) \in K
    BY <2>1
  <2> DEFINE c == CHOOSE k \in K : Cardinality({j \in K : j <= k}) = i
  <2> HIDE DEF c
  <2>3. c \in 1 .. Len(vector)
    BY <2>2 DEF c
  <2>4. vector[c] \in S
    BY <2>3
  <2> QED
    BY <2>4 DEF c
<1>3. Keep(vector, K) \in [1 .. Cardinality(K) -> S]
  BY <1>2 DEF Keep
<1> QED
  BY <1>1, <1>3, SeqDef, LenProperties

Subscriber == [uid : Nat, message : Messages]

\* What a message's subscribers are is a sequence of their identifiers.
LEMMA SubscribedType ==
    ASSUME NEW s \in Seq(Subscriber), NEW m
    PROVE  Subscribed(s, m) \in Seq(Nat)
<1> DEFINE K == {k \in 1 .. Len(s) : s[k].message = m}
           found == Keep(s, K)
<1>1. found \in Seq(Subscriber)
  <2>1. K \in SUBSET (1 .. Len(s))
    OBVIOUS
  <2> HIDE DEF K
  <2> QED
    BY <2>1, KeepType
<1>2. Subscribed(s, m) = [i \in 1 .. Len(found) |-> found[i].uid]
  BY DEF Subscribed
<1> HIDE DEF found
<1>3. Len(found) \in Nat /\ \A i \in 1 .. Len(found) : found[i] \in Subscriber
  BY <1>1
<1>4. \A i \in 1 .. Len(found) : found[i].uid \in Nat
  BY <1>3 DEF Subscriber
<1> QED
  BY <1>2, <1>3, <1>4, SeqDef

\* Unsubscribing leaves a sequence of subscribers.
LEMMA WithoutType ==
    ASSUME NEW s \in Seq(Subscriber), NEW uid
    PROVE  Without(s, uid) \in Seq(Subscriber)
  BY KeepType DEF Without

Stages == {"none", "waiting", "waiting_for_subscribers", "entering", "changed", "cleared",
           "leaving"}

Entry == [at : Stages, message : Messages \cup {""}, uid : Nat]

BusTypeOK ==
    /\ g_subscribers \in Seq(Subscriber)
    /\ g_uid_accumulator \in Nat \ {0}
    /\ overlapped \in BOOLEAN
    /\ subscription \in [BusThreads -> Entry]

\* The functions that unsubscribe belong to subscriptions.
RollsTypeOK == rolls \in [Rolls -> [stage : {"none", "subscribing", "open", "unsubscribing"},
                                    unsubscribe_funcs : Seq(Nat)]]

Inside(t) == subscription[t].at \in {"changed", "cleared", "leaving"}

\* As long as subscriptions did not overlap, at most one thread is inside, and
\* the counter is its own.
OneInside ==
    ~overlapped =>
        /\ \A t, u \in BusThreads : Inside(t) /\ Inside(u) => t = u
        /\ (\E t \in BusThreads : Inside(t)) => g_subscribing = 1
        /\ (\A t \in BusThreads : ~Inside(t)) => g_subscribing = 0

\* The cache is current except between the change of the subscribers and the
\* end of the rebuild; in between it is emptied.
CacheFollows ==
    ~overlapped =>
        /\ (\A t \in BusThreads : subscription[t].at \notin {"changed", "cleared"}) =>
             \A m \in Messages : g_subscriber_cache[m] = Subscribed(g_subscribers, m)
        /\ \A t \in BusThreads :
             subscription[t].at = "cleared" => g_subscriber_cache = [m \in Messages |-> << >>]

BusInv == BusTypeOK /\ OneInside /\ CacheFollows

\* What a thread does in subscribe and in the function that unsubscribes.
SubscriberNext(t) ==
    \/ \E m \in Messages : subscribe(t, m)
    \/ \E uid \in Nat : unsubscribe(t, uid)
    \/ SubscribeStep(t)
    \/ subscription_ends(t)

cacheVars == <<g_subscribers, g_subscriber_cache, g_uid_accumulator, g_subscribing, overlapped,
               subscription>>

\* A step of the front end changes the subscribers only on the thread of a piano
\* roll, which unsubscribes what it subscribed.
LEMMA FrontEndStepsCache ==
    ASSUME BusTypeOK, RollsTypeOK, [Next]_vars
    PROVE  (\E t \in BusThreads : SubscriberNext(t)) \/ UNCHANGED cacheVars
<1>1. CASE UNCHANGED busVars
  BY <1>1 DEF busVars, cacheVars
<1>2. ASSUME NEW t \in BusThreads, BroadcastStep(t) \/ call_subscriber(t)
      PROVE  UNCHANGED cacheVars
  BY <1>2 DEF BroadcastStep, call_subscriber, wait_for_subscribe_end, broadcast_begins,
     broadcast_ends, SubscribersUnchanged, cacheVars
<1>3. ASSUME NEW t \in BusThreads, NEW m \in Messages, broadcast(t, m)
      PROVE  UNCHANGED cacheVars
  BY <1>3 DEF broadcast, SubscribersUnchanged, cacheVars
<1>5. ui \in BusThreads /\ Workers \subseteq BusThreads /\ Rolls \subseteq BusThreads
  BY ThreadsAssumption
<1>4. ASSUME NEW r \in Rolls, RollUnsubscribes(r)
      PROVE  SubscriberNext(r)
  <2>1. /\ unsubscribe(r, Head(rolls[r].unsubscribe_funcs))
        /\ rolls[r].unsubscribe_funcs # << >>
        /\ rolls[r].unsubscribe_funcs \in Seq(Nat)
    BY <1>4 DEF RollUnsubscribes, RollsTypeOK
  <2>2. Head(rolls[r].unsubscribe_funcs) \in Nat
    BY <2>1
  <2> QED
    BY <2>1, <2>2 DEF SubscriberNext
<1>6. ASSUME NEW r \in Rolls, RollSubscribes(r)
      PROVE  SubscriberNext(r)
  <2> DEFINE n == Len(rolls[r].unsubscribe_funcs)
  <2>1. n < Len(RollMessages) /\ subscribe(r, RollMessages[n + 1])
    BY <1>6 DEF RollSubscribes
  <2>2. n \in Nat
    BY DEF RollsTypeOK
  <2> HIDE DEF n
  <2>3. RollMessages[n + 1] \in Messages
    BY <2>1, <2>2, ThreadsAssumption
  <2> QED
    BY <2>1, <2>3 DEF SubscriberNext
<1>7. ASSUME NEW r \in Rolls, show(r) \/ RollProceeds(r) \/ UserClosesRoll(r)
      PROVE  SubscriberNext(r) \/ UNCHANGED busVars
  BY <1>4, <1>6, <1>7 DEF SubscriberNext, show, RollProceeds, RollStep, RollReturns, RollOpens,
     RollEnds, UserClosesRoll
<1> QED
  BY <1>1, <1>2, <1>3, <1>5, <1>7 DEF Next, vars, UserSubmits, UiEnqueues, UiBroadcasts,
     CallbackBroadcasts, UiDispatches, UserOpensOrCloses, UserChangesSettings,
     WorkerTakes, JobEnds, JobThrows, KeyErased, Invoked, JobBroadcasts, BusStep, Callback,
     busVars, cacheVars

\* A piano roll keeps the functions that its calls of subscribe returned.
LEMMA RollsKeepType ==
    ASSUME BusTypeOK, RollsTypeOK, [Next]_vars
    PROVE  RollsTypeOK'
<1>1. CASE UNCHANGED rolls
  BY <1>1 DEF RollsTypeOK
<1>2. ASSUME NEW r \in Rolls, NEW funcs \in Seq(Nat),
             NEW stage \in {"none", "subscribing", "open", "unsubscribing"},
             SetRoll(r, stage, funcs)
      PROVE  RollsTypeOK'
  BY <1>2 DEF SetRoll, RollsTypeOK
<1>3. ASSUME NEW r \in Rolls, show(r) \/ RollProceeds(r) \/ UserClosesRoll(r)
      PROVE  RollsTypeOK'
  <2> DEFINE funcs == rolls[r].unsubscribe_funcs
  <2>1. funcs \in Seq(Nat) /\ rolls[r].stage \in {"none", "subscribing", "open", "unsubscribing"}
    BY DEF RollsTypeOK
  <2>2. << >> \in Seq(Nat)
    OBVIOUS
  <2>3. r \in BusThreads
    BY ThreadsAssumption
  <2>4. subscription[r].uid \in Nat
    BY <2>3 DEF BusTypeOK, Entry
  <2>5. CASE RollReturns(r) /\ Unsubscribing(r)
    <3>1. SetRoll(r, rolls[r].stage, Tail(funcs))
      BY <2>5 DEF RollReturns
    <3>2. CASE funcs # << >>
      <4>1. Tail(funcs) \in Seq(Nat)
        BY <2>1, <3>2
      <4> QED
        BY <1>2, <2>1, <3>1, <4>1
    <3>3. CASE funcs = << >>
      <4>1. Tail(funcs) = << >>
        BY <3>3
      <4> QED
        BY <1>2, <2>1, <2>2, <3>1, <4>1
    <3> QED
      BY <3>2, <3>3
  <2>6. CASE RollReturns(r) /\ ~Unsubscribing(r)
    <3>1. SetRoll(r, rolls[r].stage, Append(funcs, subscription[r].uid))
      BY <2>6 DEF RollReturns
    <3>2. Append(funcs, subscription[r].uid) \in Seq(Nat)
      BY <2>1, <2>4
    <3> QED
      BY <1>2, <2>1, <3>1, <3>2
  <2>7. CASE show(r) \/ RollEnds(r)
    BY <1>2, <2>2, <2>7 DEF show, RollEnds
  <2>8. CASE RollOpens(r) \/ UserClosesRoll(r)
    BY <1>2, <2>1, <2>8 DEF RollOpens, UserClosesRoll
  <2>9. CASE RollSubscribes(r) \/ RollUnsubscribes(r) \/ RollStep(r)
    BY <1>1, <2>9 DEF RollSubscribes, RollUnsubscribes, RollStep, rollVars
  <2> QED
    BY <1>3, <2>5, <2>6, <2>7, <2>8, <2>9 DEF RollProceeds
<1> QED
  BY <1>1, <1>3 DEF Next, vars, rollVars, UserSubmits, UiEnqueues, UiBroadcasts,
     CallbackBroadcasts, UiDispatches, UserOpensOrCloses, UserChangesSettings,
     WorkerTakes, JobEnds, JobThrows, KeyErased, Invoked, JobBroadcasts, BusStep, Callback

\* The steps of subscribe and of the function that unsubscribes, on any thread.
LEMMA SubscriberKeepsCache ==
    ASSUME BusInv, NEW t \in BusThreads, SubscriberNext(t)
    PROVE  BusInv'
<1> USE DEF BusInv
<1> DEFINE at == subscription[t].at
<1>s. subscription \in [BusThreads -> Entry] /\ subscription[t] \in Entry
  BY DEF BusTypeOK
<1>a. ASSUME NEW e \in Entry, subscription' = [subscription EXCEPT ![t] = e]
      PROVE  /\ subscription' \in [BusThreads -> Entry]
             /\ subscription'[t] = e
             /\ \A u \in BusThreads : u # t => subscription'[u] = subscription[u]
  BY <1>a, <1>s
<1>1. ASSUME NEW e \in Entry, ~Inside(t), e.at \notin {"changed", "cleared", "leaving"},
             subscription' = [subscription EXCEPT ![t] = e],
             UNCHANGED <<g_subscribers, g_subscriber_cache, g_uid_accumulator, g_subscribing,
                         overlapped>>
      PROVE  BusInv'
  <2>1. BusTypeOK'
    BY <1>1, <1>a DEF BusTypeOK
  <2>2. \A u \in BusThreads : Inside(u)' <=> Inside(u)
    BY <1>1, <1>a DEF Inside
  <2>3. OneInside'
    BY <1>1, <2>2 DEF OneInside
  <2>4. \A u \in BusThreads : /\ subscription'[u].at = "cleared" <=> subscription[u].at = "cleared"
                              /\ subscription'[u].at = "changed" <=> subscription[u].at = "changed"
    BY <1>1, <1>a DEF Inside
  <2>5. CacheFollows'
    BY <1>1, <2>4 DEF CacheFollows
  <2> QED
    BY <2>1, <2>3, <2>5
<1>2. ASSUME NEW m \in Messages, subscribe(t, m) PROVE BusInv'
  <2> DEFINE e == [NoSubscription EXCEPT !.at = "waiting", !.message = m]
  <2>1. e \in Entry /\ e.at = "waiting"
    BY DEF NoSubscription, Stages, Entry
  <2> HIDE DEF e
  <2> QED
    BY <1>1, <1>2, <2>1 DEF subscribe, Subscribing, SubscribersUnchanged, e, Inside
<1>3. ASSUME NEW uid \in Nat, unsubscribe(t, uid) PROVE BusInv'
  <2> DEFINE e == [at |-> "waiting", message |-> "", uid |-> uid]
  <2>1. e \in Entry /\ e.at = "waiting"
    BY DEF Stages, Entry
  <2> HIDE DEF e
  <2> QED
    BY <1>1, <1>3, <2>1 DEF unsubscribe, Subscribing, SubscribersUnchanged, e, Inside
<1>4. ASSUME NEW next \in Stages, SubscribingNext(t, next)
      PROVE  /\ [subscription[t] EXCEPT !.at = next] \in Entry
             /\ [subscription[t] EXCEPT !.at = next].at = next
             /\ subscription' = [subscription EXCEPT ![t] = [subscription[t] EXCEPT !.at = next]]
  BY <1>4, <1>s DEF SubscribingNext, Entry
<1>5. CASE wait_for_broadcast_end(t) \/ wait_for_other_subscriptions(t)
  <2>1. PICK next \in {"waiting_for_subscribers", "entering"} : SubscribingNext(t, next)
    BY <1>5 DEF wait_for_broadcast_end, wait_for_other_subscriptions
  <2>2. ~Inside(t) /\ UNCHANGED <<g_subscribers, g_subscriber_cache, g_uid_accumulator,
                                  g_subscribing, overlapped>>
    BY <1>5 DEF wait_for_broadcast_end, wait_for_other_subscriptions, Subscribing, Inside,
       SubscribersUnchanged
  <2> DEFINE e == [subscription[t] EXCEPT !.at = next]
  <2>3. e \in Entry /\ e.at = next /\ subscription' = [subscription EXCEPT ![t] = e]
    BY <1>4, <2>1 DEF Stages
  <2> HIDE DEF e
  <2> QED
    BY <1>1, <2>2, <2>3
<1>6. CASE change_subscribers(t)
  <2>1. at = "entering" /\ g_subscribing' = g_subscribing + 1
    BY <1>6 DEF change_subscribers, Change, Subscribing
  <2>2. overlapped' = (overlapped \/ Racing)
    BY <1>6 DEF change_subscribers, Change
  <2>3. /\ g_subscribers' \in Seq(Subscriber) /\ g_uid_accumulator' \in Nat \ {0}
        /\ \E e \in Entry : e.at = "changed" /\ subscription' = [subscription EXCEPT ![t] = e]
    <3>1. CASE Unsubscribing(t)
      <4>1. /\ g_subscribers' \in Changed(Without(g_subscribers, subscription[t].uid))
            /\ SubscribingNext(t, "changed") /\ g_uid_accumulator' = g_uid_accumulator
        BY <1>6, <3>1 DEF change_subscribers, Change
      <4>2. g_subscribers' \in Seq(Subscriber)
        BY <4>1, WithoutType DEF Changed, BusTypeOK
      <4>3. "changed" \in Stages
        BY DEF Stages
      <4> QED
        BY <1>4, <4>1, <4>2, <4>3 DEF BusTypeOK
    <3>2. CASE ~Unsubscribing(t)
      <4>1. PICK uid \in NextUids :
                /\ g_uid_accumulator' = uid + 1
                /\ g_subscribers' \in Changed(Append(g_subscribers,
                                      [uid |-> uid, message |-> subscription[t].message]))
                /\ subscription' = [subscription EXCEPT ![t].at = "changed", ![t].uid = uid]
        BY <1>6, <3>2 DEF change_subscribers, Change
      <4>2. uid \in Nat
        BY DEF NextUids, BusTypeOK
      <4>3. subscription[t].message \in Messages
        BY <1>s, <3>2 DEF Unsubscribing, Entry
      <4>4. [uid |-> uid, message |-> subscription[t].message] \in Subscriber
        BY <4>2, <4>3 DEF Subscriber
      <4>5. \A s \in Seq(Subscriber), e \in Subscriber : Append(s, e) \in Seq(Subscriber)
        OBVIOUS
      <4>6. g_subscribers' \in Seq(Subscriber)
        BY <4>1, <4>4, <4>5 DEF Changed, BusTypeOK
      <4>7. g_uid_accumulator' \in Nat \ {0}
        BY <4>1, <4>2
      <4> DEFINE e == [subscription[t] EXCEPT !.at = "changed", !.uid = uid]
      <4>8. e \in Entry /\ e.at = "changed"
        BY <1>s, <4>2 DEF Entry, Stages
      <4>9. subscription' = [subscription EXCEPT ![t] = e]
        BY <1>s, <4>1
      <4> QED
        BY <4>6, <4>7, <4>8, <4>9
    <3> QED
      BY <3>1, <3>2
  <2>4. PICK e \in Entry : e.at = "changed" /\ subscription' = [subscription EXCEPT ![t] = e]
    BY <2>3
  <2>5. /\ subscription' \in [BusThreads -> Entry]
        /\ subscription'[t].at = "changed"
        /\ \A u \in BusThreads : u # t => subscription'[u] = subscription[u]
    BY <1>a, <2>4
  <2>6. BusTypeOK'
    BY <2>2, <2>3, <2>5 DEF BusTypeOK
  <2>7. ASSUME ~overlapped'
        PROVE  /\ \A u \in BusThreads : ~Inside(u)
               /\ g_subscribing' = 1
    <3>1. ~overlapped /\ ~Racing
      BY <2>2, <2>7 DEF BusTypeOK
    <3>2. \A u \in BusThreads : ~Inside(u)
      <4> SUFFICES ASSUME NEW u \in BusThreads, Inside(u) PROVE FALSE
        OBVIOUS
      <4>1. g_subscribing = 1
        BY <3>1 DEF OneInside
      <4> QED
        BY <3>1, <4>1 DEF Racing
    <3>3. g_subscribing = 0
      BY <3>1, <3>2 DEF OneInside
    <3> QED
      BY <2>1, <3>2, <3>3
  <2>8. OneInside'
    <3> SUFFICES ASSUME ~overlapped'
                 PROVE  /\ \A u, v \in BusThreads : Inside(u)' /\ Inside(v)' => u = v
                        /\ g_subscribing' = 1
                        /\ Inside(t)'
      BY DEF OneInside
    <3> QED
      BY <2>5, <2>7 DEF Inside
  <2>9. CacheFollows'
    <3> SUFFICES ASSUME ~overlapped'
                 PROVE  \A u \in BusThreads : subscription'[u].at = "cleared" => FALSE
      BY <2>5 DEF CacheFollows
    <3> QED
      BY <2>5, <2>7 DEF Inside
  <2> QED
    BY <2>6, <2>8, <2>9
<1>7. ASSUME NEW next \in {"cleared", "leaving"}, SubscribingNext(t, next), Inside(t),
             UNCHANGED <<g_subscribers, g_uid_accumulator, g_subscribing, overlapped>>
      PROVE  /\ BusTypeOK' /\ OneInside'
             /\ subscription'[t].at = next
             /\ ~overlapped => \A u \in BusThreads :
                                 u # t => ~Inside(u) /\ subscription'[u] = subscription[u]
  <2> DEFINE e == [subscription[t] EXCEPT !.at = next]
  <2>1. e \in Entry /\ e.at = next /\ subscription' = [subscription EXCEPT ![t] = e]
    BY <1>4, <1>7 DEF Stages
  <2> HIDE DEF e
  <2>2. /\ subscription' \in [BusThreads -> Entry]
        /\ subscription'[t] = e
        /\ \A u \in BusThreads : u # t => subscription'[u] = subscription[u]
    BY <1>a, <2>1
  <2>3. BusTypeOK'
    BY <1>7, <2>2 DEF BusTypeOK
  <2>4. \A u \in BusThreads : Inside(u)' <=> Inside(u)
    BY <1>7, <2>1, <2>2 DEF Inside
  <2>5. OneInside'
    BY <1>7, <2>4 DEF OneInside
  <2>6. ~overlapped => \A u \in BusThreads : u # t => ~Inside(u)
    BY <1>7 DEF OneInside
  <2> QED
    BY <2>1, <2>2, <2>3, <2>5, <2>6
<1>8. CASE clear_subscriber_cache(t)
  <2>1. /\ SubscribingNext(t, "cleared") /\ Inside(t)
        /\ UNCHANGED <<g_subscribers, g_uid_accumulator, g_subscribing, overlapped>>
        /\ g_subscriber_cache' = [m \in Messages |-> << >>]
    BY <1>8 DEF clear_subscriber_cache, Subscribing, Inside
  <2>2. BusTypeOK' /\ OneInside' /\ subscription'[t].at = "cleared"
    BY <1>7, <2>1
  <2>3. CacheFollows'
    BY <2>1, <2>2 DEF CacheFollows
  <2> QED
    BY <2>2, <2>3
<1>9. CASE rebuild_subscriber_cache(t)
  <2>1. /\ at = "cleared"
        /\ SubscribingNext(t, "leaving") /\ Inside(t)
        /\ UNCHANGED <<g_subscribers, g_uid_accumulator, g_subscribing, overlapped>>
        /\ g_subscriber_cache' = [m \in Messages |->
                                    g_subscriber_cache[m] \o Subscribed(g_subscribers, m)]
    BY <1>9 DEF rebuild_subscriber_cache, Subscribing, Inside
  <2>2. BusTypeOK' /\ OneInside' /\ subscription'[t].at = "leaving"
    BY <1>7, <2>1
  <2>3. ASSUME ~overlapped, NEW m \in Messages
        PROVE  g_subscriber_cache'[m] = Subscribed(g_subscribers, m)
    <3>1. g_subscriber_cache[m] = << >>
      BY <2>1, <2>3 DEF CacheFollows
    <3>2. Subscribed(g_subscribers, m) \in Seq(Nat)
      BY SubscribedType DEF BusTypeOK
    <3>3. << >> \o Subscribed(g_subscribers, m) = Subscribed(g_subscribers, m)
      BY <3>2, ConcatEmptySeq
    <3> QED
      BY <2>1, <3>1, <3>3
  <2>4. ~overlapped => \A u \in BusThreads : subscription'[u].at # "cleared"
    BY <1>7, <2>1, <2>2 DEF Inside
  <2>5. CacheFollows'
    BY <2>1, <2>3, <2>4 DEF CacheFollows
  <2> QED
    BY <2>2, <2>5
<1>10. CASE subscription_ends(t)
  <2>1. NoSubscription \in Entry /\ NoSubscription.at = "none"
    BY DEF NoSubscription, Stages, Entry
  <2>2. /\ at = "leaving"
        /\ g_subscribing' = g_subscribing - 1
        /\ subscription' = [subscription EXCEPT ![t] = NoSubscription]
        /\ UNCHANGED <<g_subscribers, g_subscriber_cache, g_uid_accumulator, overlapped>>
    BY <1>10 DEF subscription_ends, Subscribing, SubscribersUnchanged
  <2>3. /\ subscription' \in [BusThreads -> Entry]
        /\ subscription'[t] = NoSubscription
        /\ \A u \in BusThreads : u # t => subscription'[u] = subscription[u]
    BY <1>a, <2>1, <2>2
  <2>4. BusTypeOK'
    BY <2>2, <2>3 DEF BusTypeOK
  <2>5. ASSUME ~overlapped
        PROVE  g_subscribing' = 0 /\ \A u \in BusThreads : ~Inside(u)'
    <3>1. Inside(t)
      BY <2>2 DEF Inside
    <3>2. g_subscribing = 1 /\ \A u \in BusThreads : u # t => ~Inside(u)
      BY <2>5, <3>1 DEF OneInside
    <3>3. g_subscribing' = 0
      BY <2>2, <3>2
    <3>4. \A u \in BusThreads : ~Inside(u)'
      BY <2>1, <2>3, <3>2 DEF Inside
    <3> QED
      BY <3>3, <3>4
  <2>6. OneInside'
    BY <2>2, <2>5 DEF OneInside
  <2>7. CacheFollows'
    <3> SUFFICES ASSUME ~overlapped
                 PROVE  /\ \A m \in Messages : g_subscriber_cache[m] = Subscribed(g_subscribers, m)
                        /\ \A u \in BusThreads : subscription'[u].at # "cleared"
      BY <2>2 DEF CacheFollows
    <3>1. \A u \in BusThreads : u # t => ~Inside(u)
      BY <2>2 DEF OneInside, Inside
    <3>2. \A u \in BusThreads : subscription[u].at \notin {"changed", "cleared"}
      BY <2>2, <3>1 DEF Inside
    <3> QED
      BY <2>5, <3>2 DEF CacheFollows, Inside
  <2> QED
    BY <2>4, <2>6, <2>7
<1> QED
  BY <1>2, <1>3, <1>5, <1>6, <1>8, <1>9, <1>10 DEF SubscriberNext, SubscribeStep

\* Between subscriptions a broadcast finds exactly the subscribers in the cache,
\* for any messages, any number of piano-roll threads and any sequence of
\* subscriptions (rebuild_subscriber_cache), until two threads are inside
\* subscribe at once, the exception that CacheCurrent names.
THEOREM FrontEndCacheCurrent == Spec => []CacheCurrent
<1>1. Init => BusInv /\ RollsTypeOK
  <2> SUFFICES ASSUME Init PROVE BusInv /\ RollsTypeOK
    OBVIOUS
  <2> DEFINE m0 == CHOOSE m \in Messages : TRUE
  <2>1. m0 \in Messages
    BY MessagesAssumption
  <2>2. [uid |-> 0, message |-> m0] \in Subscriber
    BY <2>1 DEF Subscriber
  <2> HIDE DEF m0
  <2>3. << [uid |-> 0, message |-> m0] >> \in Seq(Subscriber)
    BY <2>2
  <2>4. g_subscribers \in Seq(Subscriber)
    BY <2>3 DEF Init, MessengerInit, m0
  <2>5. NoSubscription \in Entry /\ NoSubscription.at = "none"
    BY DEF NoSubscription, Stages, Entry
  <2>6. BusTypeOK /\ \A t \in BusThreads : subscription[t].at = "none"
    <3>1. /\ g_uid_accumulator = 1 /\ overlapped = FALSE
          /\ subscription = [t \in BusThreads |-> NoSubscription]
      BY DEF Init, MessengerInit
    <3> HIDE DEF Init
    <3>2. subscription \in [BusThreads -> Entry] /\ \A t \in BusThreads : subscription[t].at = "none"
      BY <2>5, <3>1
    <3>3. overlapped \in BOOLEAN
      BY <3>1, Zenon
    <3>4. g_uid_accumulator \in Nat \ {0}
      BY <3>1
    <3> QED
      BY <2>4, <3>2, <3>3, <3>4 DEF BusTypeOK
  <2>7. OneInside
    BY <2>6 DEF Init, MessengerInit, OneInside, Inside
  <2>8. CacheFollows
    BY <2>6 DEF Init, MessengerInit, CacheFollows
  <2>9. << >> \in Seq(Nat)
    OBVIOUS
  <2>10. RollsTypeOK
    BY <2>9 DEF Init, NoRoll, RollsTypeOK
  <2> QED
    BY <2>6, <2>7, <2>8, <2>10 DEF BusInv
<1>2. (BusInv /\ RollsTypeOK) /\ [Next]_vars => (BusInv /\ RollsTypeOK)'
  <2> SUFFICES ASSUME BusInv, RollsTypeOK, [Next]_vars PROVE BusInv' /\ RollsTypeOK'
    OBVIOUS
  <2>1. CASE UNCHANGED cacheVars
    <3>1. BusTypeOK'
      BY <2>1 DEF cacheVars, BusInv, BusTypeOK
    <3>2. OneInside'
      BY <2>1 DEF cacheVars, BusInv, OneInside, Inside
    <3>3. CacheFollows'
      BY <2>1 DEF cacheVars, BusInv, CacheFollows
    <3>4. RollsTypeOK'
      BY RollsKeepType DEF BusInv
    <3> QED
      BY <3>1, <3>2, <3>3, <3>4 DEF BusInv
  <2>2. RollsTypeOK'
    BY RollsKeepType DEF BusInv
  <2> QED
    BY <2>1, <2>2, SubscriberKeepsCache, FrontEndStepsCache DEF BusInv
<1>3. BusInv => CacheCurrent
  <2> SUFFICES ASSUME BusInv, ~overlapped, g_subscribing = 0
               PROVE  \A m \in Messages : g_subscriber_cache[m] = Subscribed(g_subscribers, m)
    BY DEF CacheCurrent
  <2>1. \A t \in BusThreads : ~Inside(t)
    BY DEF BusInv, OneInside
  <2> QED
    BY <2>1 DEF BusInv, CacheFollows, Inside
<1> QED
  BY <1>1, <1>2, <1>3, PTL DEF Spec

=============================================================================
