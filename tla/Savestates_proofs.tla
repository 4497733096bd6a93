------------------------- MODULE Savestates_proofs --------------------------
(***************************************************************************)
(* Proofs about the savestate task queue, for any set of clients and       *)
(* paths, any bounds, and either value of st_undo_load.                    *)
(***************************************************************************)
EXTENDS Savestates, FiniteSetTheorems, SequenceTheorems, TLAPS

-----------------------------------------------------------------------------
(* Lemmas about the operators                                              *)

\* Erasing one index of a task sequence leaves a sequence, one shorter, with
\* the other elements in their order (one iteration of erase_indices).
LEMMA RemoveIndexProperties ==
    ASSUME NEW S, NEW q \in Seq(S), NEW j \in 1 .. Len(q)
    PROVE  /\ RemoveIndex(q, j) \in Seq(S)
           /\ Len(RemoveIndex(q, j)) = Len(q) - 1
           /\ \A i \in 1 .. Len(q) - 1 :
                RemoveIndex(q, j)[i] = IF i < j THEN q[i] ELSE q[i + 1]
<1> DEFINE r == RemoveIndex(q, j)
<1>1. Len(q) - 1 \in Nat
  OBVIOUS
<1>2. \A i \in 1 .. Len(q) - 1 : q[i] \in S /\ q[i + 1] \in S
  OBVIOUS
<1>3. r \in [1 .. Len(q) - 1 -> S]
  BY <1>2 DEF RemoveIndex
<1>4. r \in Seq(S)
  BY <1>1, <1>3, SeqDef
<1>5. Len(r) = Len(q) - 1
  BY <1>1, <1>3, <1>4, LenProperties
<1> QED
  BY <1>4, <1>5 DEF RemoveIndex

\* Pushing a task at the front of the queue.
LEMMA PushFrontProperties ==
    ASSUME NEW S, NEW q \in Seq(S), NEW t \in S
    PROVE  /\ <<t>> \o q \in Seq(S)
           /\ Len(<<t>> \o q) = Len(q) + 1
           /\ (<<t>> \o q)[1] = t
           /\ \A i \in 2 .. Len(q) + 1 : (<<t>> \o q)[i] = q[i - 1]
  OBVIOUS

\* The duplicate counters are natural numbers, and the first index is never
\* a duplicate (nothing is in front of it).
LEMMA DuplicateIndicesProperties ==
    ASSUME NEW q \in Seq(Task)
    PROVE  /\ duplicate_indices(q) \in Seq(Nat)
           /\ Len(duplicate_indices(q)) = Len(q)
           /\ Len(q) > 0 => duplicate_indices(q)[1] = 0
<1>1. \A j \in 1 .. Len(q) : Cardinality(duplicates_of(q, j)) \in Nat
  <2> TAKE j \in 1 .. Len(q)
  <2>1. IsFiniteSet(1 .. j - 1)
    BY FS_Interval
  <2>2. duplicates_of(q, j) \subseteq 1 .. j - 1
    BY DEF duplicates_of
  <2> QED
    BY <2>1, <2>2, FS_Subset, FS_CardinalityType
<1>2. duplicate_indices(q) \in [1 .. Len(q) -> Nat]
  BY <1>1 DEF duplicate_indices
<1>3. duplicate_indices(q) \in Seq(Nat)
  BY <1>2, SeqDef
<1>4. Len(duplicate_indices(q)) = Len(q)
  BY <1>2, <1>3, LenProperties
<1>5. ASSUME Len(q) > 0 PROVE duplicate_indices(q)[1] = 0
  <2>1. duplicates_of(q, 1) = {}
    BY DEF duplicates_of
  <2>2. Cardinality({}) = 0
    BY FS_EmptySet
  <2>3. 1 \in 1 .. Len(q)
    BY <1>5
  <2>4. duplicate_indices(q)[1] = Cardinality(duplicates_of(q, 1))
    BY <2>3 DEF duplicate_indices
  <2> QED
    BY <2>1, <2>2, <2>4
<1> QED
  BY <1>3, <1>4, <1>5

-----------------------------------------------------------------------------
(* The inductive invariant                                                 *)

\* The mutex is held by the client that is about to insert, or by the
\* emulation thread while st_do_work runs.
MutexInv ==
    /\ stage # "none" => g_task_mutex = EmuThread /\ emu = "running"
    /\ stage = "none" => g_task_mutex # EmuThread
    /\ \A c \in Clients : request[c] # NoTask <=> g_task_mutex = c

\* No two tasks of the queue belong to the same request, and a request that
\* is not inserted yet is not in the queue.
IdsInv ==
    /\ \A i \in 1 .. Len(g_tasks) : g_tasks[i].id \in 0 .. issued
    /\ \A i, j \in 1 .. Len(g_tasks) : i # j => g_tasks[i].id # g_tasks[j].id
    /\ \A i \in 1 .. Len(g_tasks) :
          g_tasks[i].id = UndoId => /\ g_tasks[i] = UndoTask
                                    /\ stage \in {"simplify_again", "run"}
    /\ \A c \in Clients : request[c] # NoTask =>
          /\ request[c].id \in 1 .. issued
          /\ \A i \in 1 .. Len(g_tasks) : g_tasks[i].id # request[c].id

\* A request still to be performed, or not made yet, was not called back.
UncalledInv ==
    /\ \A i \in 1 .. Len(g_tasks) :
          (g_tasks[i].id # UndoId /\ (stage = "run" => i >= next))
              => called[g_tasks[i].id] = 0
    /\ \A c \in Clients : request[c] # NoTask => called[request[c].id] = 0
    /\ \A n \in issued + 1 .. MaxRequests : called[n] = 0

\* What makes the undo point right: the machine is the batch's until a load
\* succeeds, and the undo save is first in a queue that holds a load.
UndoInv ==
    /\ Len(duplicates) > 0 => duplicates[1] = 0
    /\ (stage # "none" /\ ~batch.loaded) => machine = batch.machine
    /\ stage \in {"simplify", "simplify_again"} => ~batch.loaded
    /\ (stage \in {"simplify_again", "run"} /\ StUndoLoad /\ queue_contains_load(g_tasks))
          => Len(g_tasks) > 0 /\ g_tasks[1].id = UndoId
    /\ (stage = "run" /\ next > 1 /\ StUndoLoad /\ queue_contains_load(g_tasks))
          => g_undo_savestate = batch.machine
    /\ (stage = "run" /\ batch.loaded) => next > 1 /\ queue_contains_load(g_tasks)

Inv == /\ TypeOK
       /\ MutexInv
       /\ IdsInv
       /\ UncalledInv
       /\ UndoInv
       /\ CallbackAtMostOnce
       /\ NoTaskOutlivesCore

\* The initial state satisfies the invariant: nothing was requested.
LEMMA InitInv == Init => Inv
  BY BoundsAssumption, NamesAssumption
  DEF Init, Inv, TypeOK, MutexInv, IdsInv, UncalledInv, UndoInv, NoBatch, Machine,
      CallbackAtMostOnce, NoTaskOutlivesCore, Savestate, queue_contains_load, NoTask

-----------------------------------------------------------------------------
(* One lemma per action: each preserves the invariant                      *)

USE DEF Machine, UndoId

\* core_st_do_file and core_st_do_memory: the request gets a fresh id and, unless
\* it is refused, the mutex.
LEMMA RequestInv ==
    ASSUME Inv, NEW c \in Clients, NEW job \in {"save", "load"},
           NEW medium \in {"path", "memory"}, NEW path \in Paths \cup {NoPath},
           medium = "path" => path \in Paths,
           NEW buffer \in Savestate, core_st_do(c, job, medium, path, buffer)
    PROVE  Inv'
<1> DEFINE t == [id |-> issued + 1, job |-> job, medium |-> medium,
                 path |-> path, buffer |-> buffer]
<1>1. t \in Task /\ t # NoTask
  BY DEF Inv, TypeOK, Task, NoTask
<1>2. issued + 1 \in 1 .. MaxRequests /\ issued' = issued + 1 /\ issued \in Nat
  BY BoundsAssumption DEF Inv, TypeOK, core_st_do
<1>3. UNCHANGED <<g_tasks, emu, stage, duplicates, next, machine, frames,
                  files, g_undo_savestate, batch>>
  BY DEF core_st_do
<1>4. g_task_mutex = NoClient /\ stage = "none" /\ \A d \in Clients : request[d] = NoTask
  BY NamesAssumption DEF core_st_do, Inv, MutexInv, TypeOK
<1>5. CASE can_push_work
  <2>1. g_task_mutex' = c /\ request' = [request EXCEPT ![c] = t] /\ called' = called
    BY <1>5 DEF core_st_do
  <2>2. TypeOK'
    BY <1>1, <1>2, <1>3, <2>1 DEF Inv, TypeOK
  <2>3. MutexInv'
    BY <1>1, <1>3, <1>4, <2>1, NamesAssumption DEF Inv, TypeOK, MutexInv
  <2>4. IdsInv'
    <3>1. \A i \in 1 .. Len(g_tasks) : g_tasks[i].id # issued + 1
      BY <1>2 DEF Inv, IdsInv
    <3>2. \A d \in Clients : request'[d] # NoTask => request'[d].id = issued + 1
      BY <1>4, <2>1 DEF Inv, TypeOK
    <3> QED
      BY <1>2, <1>3, <3>1, <3>2 DEF Inv, IdsInv
  <2>5. UncalledInv'
    <3>1. \A d \in Clients : request'[d] # NoTask => request'[d].id = issued + 1
      BY <1>4, <2>1 DEF Inv, TypeOK
    <3> QED
      BY <1>2, <1>3, <2>1, <3>1 DEF Inv, UncalledInv
  <2>6. UndoInv'
    BY <1>3 DEF Inv, UndoInv, queue_contains_load
  <2>7. CallbackAtMostOnce'
    BY <2>1 DEF Inv, CallbackAtMostOnce
  <2>8. NoTaskOutlivesCore'
    BY <1>3, <1>5 DEF can_push_work, core_executing, NoTaskOutlivesCore
  <2> QED
    BY <2>2, <2>3, <2>4, <2>5, <2>6, <2>7, <2>8 DEF Inv
<1>6. CASE ~can_push_work
  <2>1. g_task_mutex' = g_task_mutex /\ request' = request
        /\ called' = [called EXCEPT ![issued + 1] = @ + 1]
    BY <1>6 DEF core_st_do
  <2>2. TypeOK'
    <3>1. called' \in [1 .. MaxRequests -> Nat] /\ issued' \in 0 .. MaxRequests
      BY <1>2, <2>1 DEF Inv, TypeOK
    <3> QED
      BY <1>3, <2>1, <3>1 DEF Inv, TypeOK
  <2>3. MutexInv'
    BY <1>3, <2>1 DEF Inv, MutexInv
  <2>4. IdsInv'
    BY <1>2, <1>3, <1>4, <2>1 DEF Inv, IdsInv
  <2>5. called[issued + 1] = 0
    BY <1>2 DEF Inv, UncalledInv
  <2>6. UncalledInv'
    BY <1>2, <1>3, <1>4, <2>1 DEF Inv, TypeOK, IdsInv, UncalledInv
  <2>7. UndoInv'
    BY <1>3 DEF Inv, UndoInv, queue_contains_load
  <2>8. CallbackAtMostOnce'
    BY <1>2, <2>1, <2>5 DEF Inv, TypeOK, CallbackAtMostOnce
  <2>9. NoTaskOutlivesCore'
    BY <1>3, <2>1 DEF Inv, NoTaskOutlivesCore
  <2> QED
    BY <2>2, <2>3, <2>4, <2>6, <2>7, <2>8, <2>9 DEF Inv
<1> QED
  BY <1>5, <1>6

\* The insertion at the front: the new task's id is in no other task.
LEMMA InsertInv ==
    ASSUME Inv, NEW c \in Clients, insert_task(c)
    PROVE  Inv'
<1> DEFINE t == request[c]
<1>1. t \in Task /\ t # NoTask /\ g_task_mutex = c /\ stage = "none"
  BY NamesAssumption DEF insert_task, Inv, TypeOK, MutexInv
<1>2. /\ g_tasks' = <<t>> \o g_tasks
      /\ request' = [request EXCEPT ![c] = NoTask]
      /\ g_task_mutex' = NoClient
      /\ UNCHANGED <<emu, stage, duplicates, next, machine, frames, files,
                     g_undo_savestate, issued, called, batch>>
  BY DEF insert_task, history
<1>3. /\ g_tasks' \in Seq(Task)
      /\ Len(g_tasks') = Len(g_tasks) + 1
      /\ g_tasks'[1] = t
      /\ \A i \in 2 .. Len(g_tasks) + 1 : g_tasks'[i] = g_tasks[i - 1]
  BY <1>1, <1>2, PushFrontProperties DEF Inv, TypeOK
<1>4. \A d \in Clients : request'[d] = NoTask
  BY <1>1, <1>2 DEF Inv, TypeOK, MutexInv
<1>5. TypeOK'
  BY <1>2, <1>3 DEF Inv, TypeOK
<1>6. MutexInv'
  BY <1>1, <1>2, <1>4, NamesAssumption DEF MutexInv
<1>7. t.id \in 1 .. issued /\ \A i \in 1 .. Len(g_tasks) : g_tasks[i].id # t.id
  BY <1>1 DEF Inv, IdsInv
<1>8. \A i \in 1 .. Len(g_tasks') : i = 1 \/ (i - 1 \in 1 .. Len(g_tasks) /\ g_tasks'[i] = g_tasks[i - 1])
  <2>1. Len(g_tasks) \in Nat
    BY DEF Inv, TypeOK
  <2> QED
    BY <1>3, <2>1
<1>9. IdsInv'
  <2>1. \A i \in 1 .. Len(g_tasks') : g_tasks'[i].id \in 0 .. issued'
    BY <1>2, <1>3, <1>7, <1>8 DEF Inv, TypeOK, IdsInv
  <2>2. ASSUME NEW i \in 1 .. Len(g_tasks'), NEW j \in 1 .. Len(g_tasks'), i # j
        PROVE  g_tasks'[i].id # g_tasks'[j].id
    <3>1. CASE i = 1
      BY <2>2, <3>1, <1>3, <1>7, <1>8
    <3>2. CASE j = 1
      BY <2>2, <3>2, <1>3, <1>7, <1>8
    <3>3. CASE i # 1 /\ j # 1
      <4>1. /\ i - 1 \in 1 .. Len(g_tasks) /\ g_tasks'[i] = g_tasks[i - 1]
            /\ j - 1 \in 1 .. Len(g_tasks) /\ g_tasks'[j] = g_tasks[j - 1]
        BY <3>3, <1>8
      <4>2. i - 1 # j - 1
        BY <2>2
      <4> QED
        BY <4>1, <4>2 DEF Inv, IdsInv
    <3> QED
      BY <3>1, <3>2, <3>3
  <2>3. \A i \in 1 .. Len(g_tasks') : g_tasks'[i].id # UndoId
    BY <1>1, <1>3, <1>7, <1>8 DEF Inv, IdsInv
  <2> QED
    BY <1>4, <2>1, <2>2, <2>3 DEF IdsInv
<1>10. UncalledInv'
  BY <1>1, <1>2, <1>3, <1>4, <1>8 DEF Inv, UncalledInv
<1>11. UndoInv'
  BY <1>1, <1>2 DEF Inv, UndoInv
<1>12. CallbackAtMostOnce'
  BY <1>2 DEF Inv, CallbackAtMostOnce
<1>13. NoTaskOutlivesCore'
  BY <1>1, <1>2 DEF Inv, NoTaskOutlivesCore
<1> QED
  BY <1>5, <1>6, <1>9, <1>10, <1>11, <1>12, <1>13 DEF Inv

\* st_do_work takes the mutex and collects the duplicate indices.
LEMMA WorkBeginInv == ASSUME Inv, st_do_work_begin PROVE Inv'
<1>1. /\ emu = "running" /\ stage = "none" /\ g_task_mutex = NoClient /\ g_tasks # << >>
      /\ g_task_mutex' = EmuThread
      /\ stage' = "simplify"
      /\ duplicates' = duplicate_indices(g_tasks)
      /\ batch' = [newest |-> g_tasks[1].id, machine |-> machine, loaded |-> FALSE]
      /\ UNCHANGED <<g_tasks, emu, next, request, machine, frames, files,
                     g_undo_savestate, issued, called>>
  BY DEF st_do_work_begin, core_executing
<1>2. g_tasks[1] \in Task
  BY <1>1 DEF Inv, TypeOK
<1>3. duplicates' \in Seq(Nat) /\ (Len(duplicates') > 0 => duplicates'[1] = 0)
  BY <1>1, DuplicateIndicesProperties DEF Inv, TypeOK
<1>4. TypeOK'
  BY <1>1, <1>2, <1>3 DEF Inv, TypeOK, Task
<1>5. MutexInv'
  BY <1>1, NamesAssumption DEF Inv, MutexInv
<1>6. IdsInv'
  BY <1>1 DEF Inv, IdsInv
<1>7. UncalledInv'
  BY <1>1 DEF Inv, UncalledInv
<1>8. UndoInv'
  BY <1>1, <1>3 DEF UndoInv
<1>9. CallbackAtMostOnce' /\ NoTaskOutlivesCore'
  BY <1>1 DEF Inv, CallbackAtMostOnce, NoTaskOutlivesCore
<1> QED
  BY <1>4, <1>5, <1>6, <1>7, <1>8, <1>9 DEF Inv

\* One erase: it never hits the first task, so the undo save stays in front.
LEMMA EraseInv == ASSUME Inv, erase_indices PROVE Inv'
<1>1. PICK j \in DOMAIN duplicates :
         /\ duplicates[j] > 0
         /\ duplicates' = [duplicates EXCEPT ![j] = @ - 1]
         /\ IF j <= Len(g_tasks)
            THEN g_tasks' = RemoveIndex(g_tasks, j)
            ELSE UNCHANGED g_tasks
  BY DEF erase_indices
<1>2. /\ stage \in {"simplify", "simplify_again"}
      /\ UNCHANGED <<g_task_mutex, emu, stage, next, request, machine, frames,
                     files, g_undo_savestate, issued, called, batch>>
  BY DEF erase_indices
<1>3. j \in Nat /\ j > 1
  BY <1>1 DEF Inv, TypeOK, UndoInv
<1>4. duplicates' \in Seq(Nat) /\ (Len(duplicates') > 0 => duplicates'[1] = 0)
  BY <1>1, <1>3 DEF Inv, TypeOK, UndoInv
<1>5. CASE j > Len(g_tasks)
  <2>1. UNCHANGED g_tasks
    BY <1>1, <1>3, <1>5 DEF Inv, TypeOK
  <2>2. TypeOK'
    BY <1>2, <1>4, <2>1 DEF Inv, TypeOK
  <2>3. MutexInv' /\ IdsInv' /\ UncalledInv'
    BY <1>2, <2>1 DEF Inv, MutexInv, IdsInv, UncalledInv
  <2>4. UndoInv'
    BY <1>2, <1>4, <2>1 DEF Inv, UndoInv, queue_contains_load
  <2>5. CallbackAtMostOnce' /\ NoTaskOutlivesCore'
    BY <1>2, <2>1 DEF Inv, CallbackAtMostOnce, NoTaskOutlivesCore
  <2> QED
    BY <2>2, <2>3, <2>4, <2>5 DEF Inv
<1>6. CASE j <= Len(g_tasks)
  <2>1. /\ g_tasks' = RemoveIndex(g_tasks, j)
        /\ j \in 1 .. Len(g_tasks)
    BY <1>1, <1>3, <1>6 DEF Inv, TypeOK
  <2>2. /\ g_tasks' \in Seq(Task)
        /\ Len(g_tasks') = Len(g_tasks) - 1
        /\ \A i \in 1 .. Len(g_tasks) - 1 :
              g_tasks'[i] = IF i < j THEN g_tasks[i] ELSE g_tasks[i + 1]
    BY <2>1, RemoveIndexProperties DEF Inv, TypeOK
  <2>3. g_tasks[j] \in Task
    BY <2>1 DEF Inv, TypeOK
  <2>4. TypeOK'
    BY <1>2, <1>4, <2>1, <2>2, <2>3 DEF Inv, TypeOK
  <2>5. MutexInv'
    BY <1>2 DEF Inv, MutexInv
  <2>6. \A i \in 1 .. Len(g_tasks') :
           \E k \in 1 .. Len(g_tasks) :
              /\ g_tasks'[i] = g_tasks[k]
              /\ k = IF i < j THEN i ELSE i + 1
    BY <2>2 DEF Inv, TypeOK
  <2>7. IdsInv'
    <3>1. \A i \in 1 .. Len(g_tasks') : g_tasks'[i].id \in 0 .. issued'
      BY <1>2, <2>6 DEF Inv, IdsInv
    <3>2. ASSUME NEW i \in 1 .. Len(g_tasks'), NEW k \in 1 .. Len(g_tasks'), i # k
          PROVE  g_tasks'[i].id # g_tasks'[k].id
      <4>1. PICK i0 \in 1 .. Len(g_tasks) :
               g_tasks'[i] = g_tasks[i0] /\ i0 = IF i < j THEN i ELSE i + 1
        BY <2>6
      <4>2. PICK k0 \in 1 .. Len(g_tasks) :
               g_tasks'[k] = g_tasks[k0] /\ k0 = IF k < j THEN k ELSE k + 1
        BY <2>6
      <4>3. i0 # k0
        BY <1>3, <3>2, <4>1, <4>2
      <4> QED
        BY <4>1, <4>2, <4>3 DEF Inv, IdsInv
    <3>3. \A i \in 1 .. Len(g_tasks') :
             g_tasks'[i].id = UndoId => /\ g_tasks'[i] = UndoTask'
                                        /\ stage' \in {"simplify_again", "run"}
      BY <1>2, <2>6 DEF Inv, IdsInv, UndoTask
    <3>4. \A c \in Clients : request'[c] # NoTask =>
             /\ request'[c].id \in 1 .. issued'
             /\ \A i \in 1 .. Len(g_tasks') : g_tasks'[i].id # request'[c].id
      BY <1>2, <2>6 DEF Inv, IdsInv
    <3> QED
      BY <3>1, <3>2, <3>3, <3>4 DEF IdsInv
  <2>8. UncalledInv'
    BY <1>2, <2>6 DEF Inv, UncalledInv
  <2>9. queue_contains_load(g_tasks') => queue_contains_load(g_tasks)
    BY <2>6 DEF queue_contains_load
  <2>10. (Len(g_tasks') > 0 => g_tasks'[1] = g_tasks[1])
         /\ (queue_contains_load(g_tasks') => Len(g_tasks') > 0)
    <3>1. Len(g_tasks) \in Nat /\ Len(g_tasks') \in Nat
      BY <2>2 DEF Inv, TypeOK
    <3>2. Len(g_tasks') > 0 => g_tasks'[1] = g_tasks[1]
      BY <1>3, <2>1, <2>2, <3>1
    <3>3. queue_contains_load(g_tasks') => Len(g_tasks') > 0
      BY <3>1 DEF queue_contains_load
    <3> QED
      BY <3>2, <3>3
  <2>11. UndoInv'
    BY <1>2, <1>4, <2>9, <2>10 DEF Inv, UndoInv
  <2>12. CallbackAtMostOnce'
    BY <1>2 DEF Inv, CallbackAtMostOnce
  <2>13. NoTaskOutlivesCore'
    BY <1>2 DEF Inv, MutexInv, NoTaskOutlivesCore
  <2> QED
    BY <2>4, <2>5, <2>7, <2>8, <2>11, <2>12, <2>13 DEF Inv
<1> QED
  BY <1>3, <1>5, <1>6 DEF Inv, TypeOK

\* savestates_create_undo_point puts the undo save in front of a queue with a load.
LEMMA UndoPointInv == ASSUME Inv, savestates_create_undo_point PROVE Inv'
<1> DEFINE q == with_undo_point(g_tasks)
<1>1. /\ stage = "simplify" /\ stage' = "simplify_again"
      /\ g_tasks' = q
      /\ duplicates' = duplicate_indices(q)
      /\ UNCHANGED <<g_task_mutex, emu, next, request, machine, frames, files,
                     g_undo_savestate, issued, called, batch>>
  BY DEF savestates_create_undo_point, history
<1>2. UndoTask \in Task
  BY DEF UndoTask, Task, Savestate
<1>3. q \in Seq(Task)
  BY <1>2, PushFrontProperties DEF Inv, TypeOK, with_undo_point
<1>4. duplicates' \in Seq(Nat) /\ (Len(duplicates') > 0 => duplicates'[1] = 0)
  BY <1>1, <1>3, DuplicateIndicesProperties
<1>5. TypeOK'
  BY <1>1, <1>3, <1>4 DEF Inv, TypeOK
<1>6. MutexInv'
  BY <1>1 DEF Inv, MutexInv
<1>7. CallbackAtMostOnce' /\ NoTaskOutlivesCore'
  BY <1>1, <1>6 DEF Inv, MutexInv, CallbackAtMostOnce, NoTaskOutlivesCore
<1>8. CASE StUndoLoad /\ queue_contains_load(g_tasks)
  <2>1. q = <<UndoTask>> \o g_tasks
    BY <1>8 DEF with_undo_point
  <2>2. /\ Len(q) = Len(g_tasks) + 1
        /\ q[1] = UndoTask
        /\ \A i \in 2 .. Len(g_tasks) + 1 : q[i] = g_tasks[i - 1]
    BY <1>2, <2>1, PushFrontProperties DEF Inv, TypeOK
  <2>3. \A i \in 1 .. Len(q) : i = 1 \/ (i - 1 \in 1 .. Len(g_tasks) /\ q[i] = g_tasks[i - 1])
    BY <2>2 DEF Inv, TypeOK
  <2>4. \A i \in 1 .. Len(g_tasks) : g_tasks[i].id # UndoId
    BY <1>1 DEF Inv, IdsInv
  <2>5. UndoTask.id = UndoId
    BY DEF UndoTask
  <2>6. IdsInv'
    <3>1. ASSUME NEW i \in 1 .. Len(q)
          PROVE  q[i].id \in 0 .. issued
      <4>1. CASE i = 1
        BY <4>1, <2>2, <2>5 DEF Inv, TypeOK
      <4>2. CASE i # 1
        BY <4>2, <2>3 DEF Inv, IdsInv
      <4> QED
        BY <4>1, <4>2
    <3>2. ASSUME NEW i \in 1 .. Len(q), NEW k \in 1 .. Len(q), i # k
          PROVE  q[i].id # q[k].id
      <4>1. CASE i = 1
        BY <3>2, <4>1, <2>2, <2>3, <2>4, <2>5
      <4>2. CASE k = 1
        BY <3>2, <4>2, <2>2, <2>3, <2>4, <2>5
      <4>3. CASE i # 1 /\ k # 1
        <5>1. /\ i - 1 \in 1 .. Len(g_tasks) /\ q[i] = g_tasks[i - 1]
              /\ k - 1 \in 1 .. Len(g_tasks) /\ q[k] = g_tasks[k - 1]
          BY <4>3, <2>3
        <5>2. i - 1 # k - 1
          BY <3>2
        <5> QED
          BY <5>1, <5>2 DEF Inv, IdsInv
      <4> QED
        BY <4>1, <4>2, <4>3
    <3>3. \A i \in 1 .. Len(q) : q[i].id = UndoId => q[i] = UndoTask
      BY <2>2, <2>3, <2>4
    <3>4. \A c \in Clients : request[c] = NoTask
      BY <1>1, NamesAssumption DEF Inv, MutexInv
    <3> QED
      BY <1>1, <3>1, <3>2, <3>3, <3>4 DEF IdsInv, UndoTask
  <2>7. UncalledInv'
    BY <1>1, <2>2, <2>3, <2>4, <2>5 DEF Inv, UncalledInv
  <2>8. UndoInv'
    BY <1>1, <1>4, <2>2, <2>5 DEF Inv, TypeOK, UndoInv
  <2> QED
    BY <1>5, <1>6, <1>7, <2>6, <2>7, <2>8 DEF Inv
<1>9. CASE ~(StUndoLoad /\ queue_contains_load(g_tasks))
  <2>1. g_tasks' = g_tasks
    BY <1>1, <1>9 DEF with_undo_point
  <2>2. IdsInv'
    BY <1>1, <2>1 DEF Inv, IdsInv
  <2>3. UncalledInv'
    BY <1>1, <2>1 DEF Inv, UncalledInv
  <2>4. UndoInv'
    BY <1>1, <1>4, <1>9, <2>1 DEF Inv, UndoInv
  <2> QED
    BY <1>5, <1>6, <1>7, <2>2, <2>3, <2>4 DEF Inv
<1> QED
  BY <1>8, <1>9

\* The second simplification is done and the for loop starts at the first task.
LEMMA WorkLoopInv == ASSUME Inv, st_do_work_loop PROVE Inv'
<1>1. /\ stage = "simplify_again" /\ stage' = "run" /\ next' = 1
      /\ UNCHANGED <<g_tasks, g_task_mutex, emu, duplicates, request, machine,
                     frames, files, g_undo_savestate, issued, called, batch>>
  BY DEF st_do_work_loop, history
<1>2. TypeOK' /\ MutexInv' /\ IdsInv'
  BY <1>1 DEF Inv, TypeOK, MutexInv, IdsInv
<1>3. UncalledInv'
  BY <1>1 DEF Inv, UncalledInv
<1>4. UndoInv'
  BY <1>1 DEF Inv, UndoInv
<1>5. CallbackAtMostOnce' /\ NoTaskOutlivesCore'
  BY <1>1 DEF Inv, CallbackAtMostOnce, NoTaskOutlivesCore
<1> QED
  BY <1>2, <1>3, <1>4, <1>5 DEF Inv

\* One task of the for loop: its callback was not called before.
LEMMA WorkTaskInv == ASSUME Inv, st_do_work_task PROVE Inv'
<1> DEFINE t == g_tasks[next]
<1>1. /\ stage = "run" /\ next <= Len(g_tasks) /\ next' = next + 1
      /\ UNCHANGED <<g_tasks, g_task_mutex, emu, stage, duplicates, request,
                     frames, issued>>
  BY DEF st_do_work_task
<1>2. PICK ok \in BOOLEAN : \/ savestates_save_immediate_impl(t, ok)
                             \/ savestates_load_immediate_impl(t, ok)
  BY DEF st_do_work_task
<1>3. next \in 1 .. Len(g_tasks) /\ t \in Task
  BY <1>1 DEF Inv, TypeOK
<1>4. called' = called_back(t.id)
  BY <1>2 DEF savestates_save_immediate_impl, savestates_load_immediate_impl
<1>5. t.id = UndoId \/ (t.id \in 1 .. MaxRequests /\ called[t.id] = 0)
  <2>1. t.id \in 0 .. issued
    BY <1>3 DEF Inv, IdsInv
  <2>2. issued \in 0 .. MaxRequests
    BY DEF Inv, TypeOK
  <2>3. t.id # UndoId => called[t.id] = 0
    BY <1>1, <1>3 DEF Inv, UncalledInv
  <2>4. t.id = UndoId \/ t.id \in 1 .. MaxRequests
    BY <2>1, <2>2, BoundsAssumption
  <2> QED
    BY <2>3, <2>4
<1>6. called' \in [1 .. MaxRequests -> Nat]
  BY <1>4, <1>5 DEF Inv, TypeOK, called_back
<1>7. CallbackAtMostOnce'
  BY <1>4, <1>5 DEF Inv, TypeOK, CallbackAtMostOnce, called_back
<1>8. MutexInv' /\ IdsInv' /\ NoTaskOutlivesCore'
  BY <1>1 DEF Inv, MutexInv, IdsInv, UndoTask, NoTaskOutlivesCore
<1>9. UncalledInv'
  <2>1. ASSUME NEW i \in 1 .. Len(g_tasks), g_tasks[i].id # UndoId, i >= next + 1
        PROVE  called'[g_tasks[i].id] = 0
    <3>1. g_tasks[i].id # t.id /\ g_tasks[i].id \in 1 .. MaxRequests
      BY <1>3, <2>1, BoundsAssumption DEF Inv, TypeOK, IdsInv
    <3>2. called[g_tasks[i].id] = 0
      BY <1>3, <2>1 DEF Inv, UncalledInv
    <3> QED
      BY <1>4, <3>1, <3>2 DEF Inv, TypeOK, called_back
  <2>2. \A c \in Clients : request[c] = NoTask
    BY <1>1, NamesAssumption DEF Inv, MutexInv
  <2>3. \A n \in issued + 1 .. MaxRequests : n # t.id
    BY <1>3 DEF Inv, TypeOK, IdsInv
  <2>4. \A n \in issued + 1 .. MaxRequests : called'[n] = 0
    BY <1>4, <2>3 DEF Inv, TypeOK, UncalledInv, called_back
  <2> QED
    BY <1>1, <2>1, <2>2, <2>4 DEF UncalledInv
<1>10. CASE savestates_save_immediate_impl(t, ok)
  <2>1. /\ t.job = "save"
        /\ UNCHANGED <<machine, batch>>
        /\ files' = IF t.medium = "path" /\ ok
                    THEN [files EXCEPT ![t.path] = machine] ELSE files
        /\ g_undo_savestate' = IF t.id = UndoId THEN machine ELSE g_undo_savestate
    BY <1>10 DEF savestates_save_immediate_impl
  <2>2. files' \in [Paths -> Savestate]
    BY <2>1 DEF Inv, TypeOK, Savestate
  <2>3. g_undo_savestate' \in Savestate
    BY <2>1 DEF Inv, TypeOK, Savestate
  <2>4. TypeOK'
    BY <1>1, <1>3, <1>6, <2>1, <2>2, <2>3 DEF Inv, TypeOK
  <2>5. UndoInv'
    <3>1. ASSUME StUndoLoad, queue_contains_load(g_tasks)
          PROVE  g_undo_savestate' = batch.machine
      <4>1. g_tasks[1].id = UndoId
        BY <1>1, <3>1 DEF Inv, UndoInv
      <4>2. CASE next = 1
        <5>1. ~batch.loaded
          BY <1>1, <4>2 DEF Inv, UndoInv
        <5> QED
          BY <1>1, <2>1, <4>1, <4>2, <5>1 DEF Inv, UndoInv
      <4>3. CASE next > 1
        <5>1. t.id # UndoId
          BY <1>3, <4>1, <4>3 DEF Inv, IdsInv
        <5>2. g_undo_savestate = batch.machine
          BY <1>1, <3>1, <4>3 DEF Inv, UndoInv
        <5> QED
          BY <2>1, <5>1, <5>2
      <4> QED
        BY <1>3, <4>2, <4>3
    <3>2. next' > 1
      BY <1>1, <1>3
    <3> QED
      BY <1>1, <2>1, <3>1, <3>2 DEF Inv, UndoInv
  <2> QED
    BY <1>7, <1>8, <1>9, <2>4, <2>5 DEF Inv
<1>11. CASE savestates_load_immediate_impl(t, ok)
  <2> DEFINE st == IF t.medium = "path" THEN files[t.path] ELSE t.buffer
  <2>1. /\ t.job = "load"
        /\ st = NoState => ~ok
        /\ machine' = IF ok THEN st ELSE machine
        /\ batch' = IF ok THEN [batch EXCEPT !.loaded = TRUE] ELSE batch
        /\ UNCHANGED <<files, g_undo_savestate>>
    BY <1>11 DEF savestates_load_immediate_impl
  <2>2. t.medium = "path" => t.path \in Paths
    BY <1>3 DEF Task
  <2>3. st \in Savestate
    BY <1>3, <2>2 DEF Inv, TypeOK, Task
  <2>4. machine' \in Nat
    BY <2>1, <2>3 DEF Inv, TypeOK, Savestate
  <2>5. batch' \in [newest : Nat, machine : Machine, loaded : BOOLEAN]
    BY <2>1 DEF Inv, TypeOK
  <2>6. TypeOK'
    BY <1>1, <1>3, <1>6, <2>1, <2>4, <2>5 DEF Inv, TypeOK
  <2>7. UndoInv'
    <3>1. queue_contains_load(g_tasks) /\ next' > 1
      BY <1>1, <1>3, <2>1 DEF queue_contains_load
    <3>2. batch'.machine = batch.machine
      BY <2>1 DEF Inv, TypeOK
    <3>3. ASSUME StUndoLoad PROVE g_undo_savestate' = batch'.machine
      <4>1. g_tasks[1].id = UndoId /\ Len(g_tasks) > 0
        BY <1>1, <3>1, <3>3 DEF Inv, UndoInv
      <4>2. next # 1
        BY <2>1, <4>1 DEF Inv, IdsInv, UndoTask
      <4> QED
        BY <1>1, <1>3, <2>1, <3>1, <3>2, <3>3, <4>2 DEF Inv, UndoInv
    <3>4. ~batch'.loaded => machine' = batch'.machine
      BY <1>1, <2>1, <2>5 DEF Inv, TypeOK, UndoInv
    <3> QED
      BY <1>1, <3>1, <3>3, <3>4 DEF Inv, UndoInv
  <2> QED
    BY <1>7, <1>8, <1>9, <2>6, <2>7 DEF Inv
<1> QED
  BY <1>2, <1>10, <1>11

\* st_do_work clears the queue and releases the mutex.
LEMMA WorkEndInv == ASSUME Inv, st_do_work_end PROVE Inv'
<1>1. /\ stage = "run" /\ stage' = "none"
      /\ g_tasks' = << >> /\ g_task_mutex' = NoClient
      /\ UNCHANGED <<emu, duplicates, next, request, machine, frames, files,
                     g_undo_savestate, issued, called, batch>>
  BY DEF st_do_work_end, history
<1>2. \A c \in Clients : request[c] = NoTask
  BY <1>1, NamesAssumption DEF Inv, MutexInv
<1>3. TypeOK' /\ MutexInv' /\ IdsInv' /\ UncalledInv'
  BY <1>1, <1>2, NamesAssumption
  DEF Inv, TypeOK, MutexInv, IdsInv, UncalledInv
<1>4. UndoInv' /\ CallbackAtMostOnce' /\ NoTaskOutlivesCore'
  BY <1>1, <1>2 DEF Inv, UndoInv, CallbackAtMostOnce, NoTaskOutlivesCore
<1> QED
  BY <1>3, <1>4 DEF Inv

\* The steps of the core around the queue.
LEMMA CoreStepInv ==
    ASSUME Inv, EmulateFrame \/ core_start_returns \/ st_on_core_stop \/ core_starts
    PROVE  Inv'
<1>1. CASE EmulateFrame \/ core_start_returns
  <2>1. /\ stage = "none" /\ emu = "running" /\ machine' \in Nat /\ frames' \in Nat
        /\ emu' \in {"running", "stopping"}
        /\ UNCHANGED <<g_tasks, g_task_mutex, stage, duplicates, next, request, files,
                       g_undo_savestate, issued, called, batch>>
    BY <1>1 DEF Inv, TypeOK, EmulateFrame, core_start_returns, core_executing, history
  <2>2. TypeOK' /\ MutexInv' /\ IdsInv' /\ UncalledInv'
    BY <2>1 DEF Inv, TypeOK, MutexInv, IdsInv, UncalledInv
  <2>3. UndoInv' /\ CallbackAtMostOnce' /\ NoTaskOutlivesCore'
    BY <2>1 DEF Inv, UndoInv, CallbackAtMostOnce, NoTaskOutlivesCore
  <2> QED
    BY <2>2, <2>3 DEF Inv
<1>2. CASE st_on_core_stop
  <2>1. /\ emu = "stopping" /\ emu' = "stopped" /\ g_task_mutex = NoClient
        /\ g_tasks' = << >> /\ g_undo_savestate' = NoState
        /\ UNCHANGED <<g_task_mutex, stage, duplicates, next, request, machine,
                       frames, files, issued, called, batch>>
    BY <1>2 DEF st_on_core_stop, history
  <2>2. stage = "none" /\ \A c \in Clients : request[c] = NoTask
    BY <2>1, NamesAssumption DEF Inv, MutexInv
  <2>3. TypeOK' /\ MutexInv' /\ IdsInv' /\ UncalledInv'
    BY <2>1, <2>2 DEF Inv, TypeOK, Savestate, MutexInv, IdsInv, UncalledInv
  <2>4. UndoInv' /\ CallbackAtMostOnce' /\ NoTaskOutlivesCore'
    BY <2>1, <2>2 DEF Inv, UndoInv, CallbackAtMostOnce, NoTaskOutlivesCore
  <2> QED
    BY <2>3, <2>4 DEF Inv
<1>3. CASE core_starts
  <2>1. /\ emu = "stopped" /\ emu' = "running" /\ machine' = 0
        /\ UNCHANGED <<g_tasks, g_task_mutex, stage, duplicates, next, request,
                       frames, files, g_undo_savestate, issued, called, batch>>
    BY <1>3 DEF core_starts, history
  <2>2. stage = "none"
    BY <2>1 DEF Inv, MutexInv
  <2>3. TypeOK' /\ MutexInv' /\ IdsInv' /\ UncalledInv'
    BY <2>1, <2>2 DEF Inv, TypeOK, MutexInv, IdsInv, UncalledInv
  <2>4. UndoInv' /\ CallbackAtMostOnce' /\ NoTaskOutlivesCore'
    BY <2>1, <2>2 DEF Inv, UndoInv, CallbackAtMostOnce, NoTaskOutlivesCore
  <2> QED
    BY <2>3, <2>4 DEF Inv
<1> QED
  BY <1>1, <1>2, <1>3

\* A stuttering step changes nothing.
LEMMA StutterInv == ASSUME Inv, UNCHANGED vars PROVE Inv'
  BY DEF Inv, vars, TypeOK, MutexInv, IdsInv, UncalledInv, UndoInv, queue_contains_load,
         CallbackAtMostOnce, NoTaskOutlivesCore

\* Every step of the savestate system preserves the invariant.
LEMMA NextInv == Inv /\ [Next]_vars => Inv'
<1> SUFFICES ASSUME Inv, [Next]_vars PROVE Inv'
  OBVIOUS
<1>1. ASSUME NEW c \in Clients, NEW p \in Paths, NEW job \in {"save", "load"},
             core_st_do_file(c, p, job)
      PROVE  Inv'
  BY <1>1, RequestInv DEF core_st_do_file, Savestate
<1>2. ASSUME NEW c \in Clients, NEW job \in {"save", "load"}, core_st_do_memory(c, job)
      PROVE  Inv'
  <2> DEFINE buffer == IF job = "load" THEN g_undo_savestate ELSE NoState
  <2>1. buffer \in Savestate
    BY DEF Inv, TypeOK, Savestate
  <2>2. core_st_do(c, job, "memory", NoPath, buffer)
    BY <1>2 DEF core_st_do_memory
  <2> QED
    BY <2>1, <2>2, RequestInv
<1>3. CASE \E c \in Clients : insert_task(c)
  BY <1>3, InsertInv
<1>4. CASE st_do_work_begin \/ erase_indices \/ savestates_create_undo_point
           \/ st_do_work_loop \/ st_do_work_task \/ st_do_work_end
  BY <1>4, WorkBeginInv, EraseInv, UndoPointInv, WorkLoopInv, WorkTaskInv, WorkEndInv
<1>5. CASE EmulateFrame \/ core_start_returns \/ st_on_core_stop \/ core_starts
  BY <1>5, CoreStepInv
<1>6. CASE UNCHANGED vars
  BY <1>6, StutterInv
<1> QED
  BY <1>1, <1>2, <1>3, <1>4, <1>5, <1>6 DEF Next

-----------------------------------------------------------------------------
(* The newest request                                                      *)

\* Until the loop of st_do_work has performed it, the newest request of the batch is
\* at the front of the queue, with at most the undo save before it, and the
\* duplicate filter erases neither of the two.
NewestInv ==
    /\ batch.newest \in 0 .. issued
    /\ (stage = "none" /\ batch.newest # 0) => called[batch.newest] > 0
    /\ stage # "none" => batch.newest # 0
    /\ stage = "simplify" => Len(g_tasks) > 0 /\ g_tasks[1].id = batch.newest
    /\ stage \in {"simplify_again", "run"} =>
          \E p \in {1, 2} :
             /\ p <= Len(g_tasks)
             /\ g_tasks[p].id = batch.newest
             /\ stage = "simplify_again" =>
                   \A l \in 1 .. p : l <= Len(duplicates) => duplicates[l] = 0
             /\ (stage = "run" /\ next > p) => called[batch.newest] > 0

\* Behind the undo save, which has no path, no task is a duplicate at index 2.
LEMMA NothingRepeatsUndo ==
    ASSUME NEW q \in Seq(Task), Len(q) > 1, q[1] = UndoTask
    PROVE  duplicate_indices(q)[2] = 0
<1>1. duplicates_of(q, 2) = {}
  <2>1. \A i \in 1 .. 2 - 1 : i = 1
    OBVIOUS
  <2>2. q[1].medium # "path"
    BY DEF UndoTask
  <2> QED BY <2>1, <2>2 DEF duplicates_of
<1>2. 2 \in 1 .. Len(q)
  OBVIOUS
<1> QED BY <1>1, <1>2, FS_EmptySet DEF duplicate_indices

\* No step takes a callback back.
LEMMA CallsGrow ==
    ASSUME Inv, NEW n \in 1 .. MaxRequests, NEW i \in Nat, i = UndoId \/ i \in 1 .. MaxRequests
    PROVE  called_back(i)[n] >= called[n] /\ (i = n => called_back(i)[n] > 0)
<1>1. called \in [1 .. MaxRequests -> Nat]
  BY DEF Inv, TypeOK
<1>2. CASE i = UndoId
  BY <1>1, <1>2 DEF called_back
<1>3. CASE i \in 1 .. MaxRequests
  <2>1. called_back(i) = [called EXCEPT ![i] = @ + 1]
    BY <1>3 DEF called_back
  <2> QED BY <1>1, <1>3, <2>1
<1> QED BY <1>2, <1>3

\* Every step keeps the newest request within reach of the loop.
LEMMA NewestStep == Inv /\ Inv' /\ NewestInv /\ [Next]_vars => NewestInv'
<1> SUFFICES ASSUME Inv, Inv', NewestInv, [Next]_vars PROVE NewestInv'
  OBVIOUS
<1>t. /\ batch.newest \in 0 .. issued /\ issued \in 0 .. MaxRequests /\ MaxRequests \in Nat
      /\ called \in [1 .. MaxRequests -> Nat] /\ g_tasks \in Seq(Task) /\ duplicates \in Seq(Nat)
      /\ stage \in {"none", "simplify", "simplify_again", "run"} /\ next \in Nat \ {0}
  BY BoundsAssumption DEF Inv, TypeOK, NewestInv
<1>1. ASSUME NEW c \in Clients, NEW job, NEW medium, NEW path, NEW buffer,
             core_st_do(c, job, medium, path, buffer)
      PROVE  NewestInv'
  <2>1. /\ issued' = issued + 1 /\ issued < MaxRequests
        /\ called' = called \/ called' = [called EXCEPT ![issued + 1] = @ + 1]
        /\ g_task_mutex = NoClient
        /\ UNCHANGED <<g_tasks, stage, duplicates, next, batch>>
    BY <1>1 DEF core_st_do
  <2>2. stage = "none"
    BY <2>1, NamesAssumption DEF Inv, MutexInv
  <2>3. \A n \in 1 .. MaxRequests : called'[n] >= called[n]
    BY <2>1, <1>t
  <2>4. batch.newest # 0 => batch.newest \in 1 .. MaxRequests
    BY <1>t
  <2>5. called' \in [1 .. MaxRequests -> Nat]
    BY DEF Inv, TypeOK
  <2>6. batch.newest # 0 => called'[batch.newest] > 0
    BY <1>t, <2>2, <2>3, <2>4, <2>5 DEF NewestInv
  <2>7. batch'.newest \in 0 .. issued'
    BY <1>t, <2>1
  <2> QED BY <2>1, <2>2, <2>6, <2>7 DEF NewestInv
<1>2. ASSUME NEW c \in Clients, insert_task(c) PROVE NewestInv'
  <2>1. /\ UNCHANGED <<stage, duplicates, next, batch, issued, called>>
        /\ request[c] # NoTask
    BY <1>2 DEF insert_task, history
  <2>2. stage = "none"
    BY <2>1, NamesAssumption DEF Inv, MutexInv
  <2> QED BY <1>t, <2>1, <2>2 DEF NewestInv
<1>3. ASSUME st_do_work_begin PROVE NewestInv'
  <2>1. /\ stage = "none" /\ stage' = "simplify" /\ g_tasks # << >>
        /\ batch' = [newest |-> g_tasks[1].id, machine |-> machine, loaded |-> FALSE]
        /\ UNCHANGED <<g_tasks, issued>>
    BY <1>3 DEF st_do_work_begin
  <2>2. batch'.newest = g_tasks[1].id
    BY <2>1
  <2>3. Len(g_tasks) > 0 /\ 1 \in 1 .. Len(g_tasks)
    BY <2>1, <1>t
  <2>4. g_tasks[1].id \in 0 .. issued /\ g_tasks[1].id # 0
    BY <2>1, <2>3 DEF Inv, IdsInv
  <2> QED BY <2>1, <2>2, <2>3, <2>4 DEF NewestInv
<1>4. ASSUME erase_indices PROVE NewestInv'
  <2>1. PICK j \in DOMAIN duplicates :
           /\ duplicates[j] > 0
           /\ duplicates' = [duplicates EXCEPT ![j] = @ - 1]
           /\ IF j <= Len(g_tasks) THEN g_tasks' = RemoveIndex(g_tasks, j)
                                   ELSE UNCHANGED g_tasks
    BY <1>4 DEF erase_indices
  <2>2. /\ stage \in {"simplify", "simplify_again"}
        /\ UNCHANGED <<stage, next, issued, called, batch>>
    BY <1>4 DEF erase_indices
  <2>3. j \in 1 .. Len(duplicates) /\ j # 1
    BY <2>1, <1>t DEF Inv, UndoInv
  <2>4. Len(duplicates') = Len(duplicates)
    BY <1>t, <2>1, <2>3
  <2>5. \A l \in 1 .. Len(duplicates) : l # j => duplicates'[l] = duplicates[l]
    BY <1>t, <2>1, <2>3
  <2>6. \A p \in 1 .. Len(g_tasks) : p < j => p <= Len(g_tasks') /\ g_tasks'[p] = g_tasks[p]
    <3>1. CASE j <= Len(g_tasks)
      <4>1. j \in 1 .. Len(g_tasks)
        BY <3>1, <2>3
      <4>2. g_tasks' = RemoveIndex(g_tasks, j)
        BY <2>1, <3>1
      <4>3. /\ Len(g_tasks') = Len(g_tasks) - 1
            /\ \A i \in 1 .. Len(g_tasks) - 1 :
                  g_tasks'[i] = IF i < j THEN g_tasks[i] ELSE g_tasks[i + 1]
        BY <1>t, <4>1, <4>2, RemoveIndexProperties
      <4>4. Len(g_tasks) \in Nat
        BY <1>t
      <4> QED BY <4>1, <4>3, <4>4
    <3>2. CASE ~(j <= Len(g_tasks))
      BY <3>2, <2>1
    <3> QED BY <3>1, <3>2
  <2>7. CASE stage = "simplify"
    <3>1. 1 \in 1 .. Len(g_tasks) /\ 1 < j /\ g_tasks[1].id = batch.newest
      BY <2>3, <2>7, <1>t DEF NewestInv
    <3>2. 1 <= Len(g_tasks') /\ g_tasks'[1] = g_tasks[1]
      BY <3>1, <2>6
    <3>3. Len(g_tasks') > 0
      BY <3>2 DEF Inv, TypeOK
    <3> QED BY <2>2, <2>7, <3>1, <3>2, <3>3 DEF NewestInv
  <2>8. CASE stage = "simplify_again"
    <3>1. PICK p \in {1, 2} : /\ p <= Len(g_tasks)
                              /\ g_tasks[p].id = batch.newest
                              /\ \A l \in 1 .. p : l <= Len(duplicates) => duplicates[l] = 0
      BY <2>8 DEF NewestInv
    <3>2. p < j
      BY <2>1, <2>3, <3>1
    <3>3. p <= Len(g_tasks') /\ g_tasks'[p] = g_tasks[p]
      BY <1>t, <2>6, <3>1, <3>2
    <3>4. \A l \in 1 .. p : l <= Len(duplicates') => duplicates'[l] = 0
      <4> TAKE l \in 1 .. p
      <4> HAVE l <= Len(duplicates')
      <4>1. l \in 1 .. Len(duplicates) /\ l # j
        BY <1>t, <2>3, <2>4, <3>1, <3>2
      <4> QED BY <2>5, <3>1, <4>1
    <3> QED BY <2>2, <2>8, <3>1, <3>3, <3>4 DEF NewestInv
  <2> QED BY <2>2, <2>7, <2>8
<1>5. ASSUME savestates_create_undo_point PROVE NewestInv'
  <2>1. /\ stage = "simplify" /\ stage' = "simplify_again"
        /\ g_tasks' = with_undo_point(g_tasks)
        /\ duplicates' = duplicate_indices(g_tasks')
        /\ UNCHANGED <<issued, called, batch>>
    BY <1>5 DEF savestates_create_undo_point, history
  <2>2. Len(g_tasks) > 0 /\ g_tasks[1].id = batch.newest /\ batch.newest # 0
    BY <2>1 DEF NewestInv
  <2>3. g_tasks' \in Seq(Task)
    BY DEF Inv, TypeOK
  <2>4. CASE g_tasks' = g_tasks
    <3>1. \A l \in 1 .. 1 : duplicates'[l] = 0
      BY <2>1, <2>2, <2>3, <2>4, DuplicateIndicesProperties
    <3> QED BY <1>t, <2>1, <2>2, <2>4, <3>1 DEF NewestInv
  <2>5. CASE g_tasks' = <<UndoTask>> \o g_tasks
    <3>1. UndoTask \in Task
      BY NamesAssumption DEF UndoTask, Task, Savestate
    <3>2. /\ Len(g_tasks') = Len(g_tasks) + 1 /\ g_tasks'[1] = UndoTask
          /\ g_tasks'[2] = g_tasks[1]
      BY <1>t, <2>2, <2>5, <3>1, PushFrontProperties
    <3>3. Len(g_tasks') > 1
      BY <3>2, <2>2, <1>t
    <3>4. duplicates'[1] = 0 /\ duplicates'[2] = 0
      BY <2>1, <2>3, <3>2, <3>3, DuplicateIndicesProperties, NothingRepeatsUndo
    <3>5. \A l \in 1 .. 2 : duplicates'[l] = 0
      <4>1. \A l \in 1 .. 2 : l = 1 \/ l = 2
        OBVIOUS
      <4> QED BY <3>4, <4>1
    <3>6. 2 <= Len(g_tasks') /\ g_tasks'[2].id = batch'.newest
      BY <2>1, <2>2, <2>3, <3>2, <3>3
    <3> QED BY <1>t, <2>1, <2>2, <3>5, <3>6 DEF NewestInv
  <2> QED BY <2>1, <2>4, <2>5 DEF with_undo_point
<1>6. ASSUME st_do_work_loop PROVE NewestInv'
  <2>1. /\ stage = "simplify_again" /\ stage' = "run" /\ next' = 1
        /\ UNCHANGED <<g_tasks, issued, called, batch>>
    BY <1>6 DEF st_do_work_loop, history
  <2> QED BY <2>1 DEF NewestInv
<1>7. ASSUME st_do_work_task PROVE NewestInv'
  <2> DEFINE i == g_tasks[next].id
  <2>1. /\ stage = "run" /\ next <= Len(g_tasks) /\ next' = next + 1
        /\ called' = called_back(i)
        /\ UNCHANGED <<g_tasks, stage, issued>>
        /\ batch' = batch \/ batch' = [batch EXCEPT !.loaded = TRUE]
    BY <1>7 DEF st_do_work_task, savestates_save_immediate_impl, savestates_load_immediate_impl
  <2>2. batch'.newest = batch.newest
    BY <2>1 DEF Inv, TypeOK
  <2>3. i \in 0 .. issued /\ i \in Nat /\ (i = UndoId \/ i \in 1 .. MaxRequests)
    BY <1>t, <2>1 DEF Inv, IdsInv
  <2>4. batch.newest \in 1 .. MaxRequests
    BY <1>t, <2>1 DEF NewestInv
  <2>5. /\ called'[batch.newest] >= called[batch.newest]
        /\ i = batch.newest => called'[batch.newest] > 0
    BY <2>1, <2>3, <2>4, CallsGrow
  <2>6. PICK p \in {1, 2} : /\ p <= Len(g_tasks)
                            /\ g_tasks[p].id = batch.newest
                            /\ next > p => called[batch.newest] > 0
    BY <2>1 DEF NewestInv
  <2>7. called[batch.newest] \in Nat /\ called'[batch.newest] \in Nat
    BY <1>t, <2>4 DEF Inv, TypeOK
  <2>8. next' > p => called'[batch.newest] > 0
    BY <1>t, <2>1, <2>5, <2>6, <2>7
  <2> QED BY <1>t, <2>1, <2>2, <2>4, <2>6, <2>8 DEF NewestInv
<1>8. ASSUME st_do_work_end PROVE NewestInv'
  <2>1. /\ stage = "run" /\ stage' = "none" /\ next > Len(g_tasks)
        /\ UNCHANGED <<issued, called, batch>>
    BY <1>8 DEF st_do_work_end, history
  <2>2. called[batch.newest] > 0
    BY <1>t, <2>1 DEF NewestInv
  <2> QED BY <1>t, <2>1, <2>2 DEF NewestInv
<1>9. ASSUME EmulateFrame \/ core_start_returns \/ core_starts \/ UNCHANGED vars PROVE NewestInv'
  <2>1. UNCHANGED <<g_tasks, stage, duplicates, next, issued, called, batch>>
    BY <1>9 DEF EmulateFrame, core_start_returns, core_starts, vars, history
  <2> QED BY <2>1 DEF NewestInv
<1>10. ASSUME st_on_core_stop PROVE NewestInv'
  <2>1. /\ g_task_mutex = NoClient
        /\ UNCHANGED <<stage, duplicates, next, issued, called, batch>>
    BY <1>10 DEF st_on_core_stop, history
  <2>2. stage = "none"
    BY <2>1, NamesAssumption DEF Inv, MutexInv
  <2> QED BY <2>1, <2>2 DEF NewestInv
<1> QED
  BY <1>1, <1>2, <1>3, <1>4, <1>5, <1>6, <1>7, <1>8, <1>9, <1>10
  DEF Next, core_st_do_file, core_st_do_memory

-----------------------------------------------------------------------------
(* The theorems                                                            *)

\* The invariant holds in every reachable state.
THEOREM Invariance == Spec => []Inv
  BY InitInv, NextInv, PTL DEF Spec

\* Type correctness of the savestate queue.
THEOREM TypeCorrect == Spec => []TypeOK
<1>1. Inv => TypeOK
  BY DEF Inv
<1> QED
  BY <1>1, Invariance, PTL

\* No savestate request is called back twice, whatever the duplicates in the
\* queue and whenever the core stops.
THEOREM CalledAtMostOnce == Spec => []CallbackAtMostOnce
<1>1. Inv => CallbackAtMostOnce
  BY DEF Inv
<1> QED
  BY <1>1, Invariance, PTL

\* No task survives st_on_core_stop, not even one whose client passed the
\* can_push_work check before the core stopped.
THEOREM NothingOutlivesCore == Spec => []NoTaskOutlivesCore
<1>1. Inv => NoTaskOutlivesCore
  BY DEF Inv
<1> QED
  BY <1>1, Invariance, PTL

\* After a load the undo savestate is the machine as it was before st_do_work.
THEOREM UndoIsPreLoad == Spec => []UndoHoldsPreLoadState
<1>1. Inv => UndoHoldsPreLoadState
  BY DEF Inv, UndoInv, UndoHoldsPreLoadState
<1> QED
  BY <1>1, Invariance, PTL

\* However often one file is asked for, the duplicate filter leaves the newest request
\* in the queue, and its callback has been called once when st_do_work returns.
THEOREM NewestIsAnswered == Spec => []NewestRequestAnswered
<1>1. Init => NewestInv
  BY DEF Init, NewestInv, NoBatch
<1>2. Inv /\ NewestInv => NewestRequestAnswered
  <2> SUFFICES ASSUME Inv, NewestInv, stage = "none", batch.newest # 0
               PROVE  called[batch.newest] = 1
    BY DEF NewestRequestAnswered
  <2>1. batch.newest \in 1 .. MaxRequests
    BY BoundsAssumption DEF Inv, TypeOK, NewestInv
  <2> QED BY <2>1 DEF Inv, TypeOK, NewestInv, CallbackAtMostOnce
<1>3. Spec => []NewestInv
  BY <1>1, NewestStep, Invariance, PTL DEF Spec
<1> QED
  BY <1>2, <1>3, Invariance, PTL

=============================================================================
