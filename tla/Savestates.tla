----------------------------- MODULE Savestates -----------------------------
(***************************************************************************)
(* The savestate task queue of Core/memory/savestates.cpp.                 *)
(*                                                                         *)
(* Any thread may ask for a savestate operation (core_st_do_file,          *)
(* core_st_do_memory); the request is put at the FRONT of g_tasks under    *)
(* g_task_mutex and the emulation thread performs the whole queue the next *)
(* time it polls a controller (st_do_work).  When the core stops the       *)
(* queue is thrown away (st_on_core_stop).                                 *)
(*                                                                         *)
(* A savestate is abstracted to the machine state it holds, a number that  *)
(* changes with every emulated frame; compression, register dumps and the  *)
(* movie freeze block are left out (module Vcr models the freeze block).   *)
(***************************************************************************)
EXTENDS Naturals, Sequences, FiniteSets

CONSTANTS
    Clients,        \* threads that call core_st_do_file / core_st_do_memory
    Paths,          \* savestate files
    MaxRequests,    \* bound on the number of requests in a behaviour
    MaxFrames,      \* bound on the number of emulated frames
    StUndoLoad,     \* cfg->st_undo_load
    NoClient,       \* "holder" of a free mutex
    EmuThread,      \* the emulation thread as holder of the mutex
    NoPath,         \* the path of a memory task
    NoState         \* an empty buffer, or a file that does not exist

ASSUME StUndoLoadAssumption == StUndoLoad \in BOOLEAN
ASSUME BoundsAssumption == MaxRequests \in Nat /\ MaxFrames \in Nat
ASSUME NamesAssumption == /\ NoClient \notin Clients
                          /\ EmuThread \notin Clients \cup {NoClient}
                          /\ NoPath \notin Paths
                          /\ NoState \notin Nat

Machine == Nat
Savestate == Machine \cup {NoState}

(***************************************************************************)
(* t_savestate_task.  The callback is identified with the request's id;    *)
(* the undo task, whose callback is internal, has id 0.                    *)
(***************************************************************************)
UndoId == 0
Task ==
    {t \in [id : Nat, job : {"save", "load"}, medium : {"path", "memory"},
            path : Paths \cup {NoPath}, buffer : Savestate] :
        t.medium = "path" => t.path \in Paths}

NoTask == [id |-> 0, job |-> "none"]

VARIABLES
    g_tasks,            \* the queue, the newest request first
    g_task_mutex,       \* who holds the (recursive) mutex
    emu,                \* "running", "stopping" (core_executing is already false), "stopped"
    stage,              \* where the emulation thread is in st_do_work
    duplicates,         \* savestates_simplify_tasks: how often each index is still to be erased
    next,               \* st_do_work: the next task of the for loop
    request,            \* per client: the task it is about to insert, past the can_push_work check
    machine,            \* the machine state
    frames,             \* emulated frames so far; makes every frame's machine state new
    files,              \* the savestate files
    g_undo_savestate,
    \* history variables
    issued,             \* number of requests made so far; their ids are 1..issued
    called,             \* how often each request's callback was invoked
    batch               \* the newest request and the machine state when st_do_work started, and whether it loaded

vars == <<g_tasks, g_task_mutex, emu, stage, duplicates, next, request, machine,
          frames, files, g_undo_savestate, issued, called, batch>>

history == <<issued, called, batch>>

core_executing == emu = "running"
can_push_work == core_executing

NoBatch == [newest |-> 0, machine |-> 0, loaded |-> FALSE]

Init ==
    /\ g_tasks = << >>
    /\ g_task_mutex = NoClient
    /\ emu = "running"
    /\ stage = "none"
    /\ duplicates = << >>
    /\ next = 1
    /\ request = [c \in Clients |-> NoTask]
    /\ machine = 0
    /\ frames = 0
    /\ files = [p \in Paths |-> NoState]
    /\ g_undo_savestate = NoState
    /\ issued = 0
    /\ called = [i \in 1 .. MaxRequests |-> 0]
    /\ batch = NoBatch

-----------------------------------------------------------------------------
(* Requests                                                                *)

(***************************************************************************)
(* core_st_do_file and core_st_do_memory up to the can_push_work check,    *)
(* with the mutex taken.  A refused request has its callback called (with  *)
(* ST_CoreNotLaunched) before the mutex is released.                       *)
(***************************************************************************)
core_st_do(c, job, medium, path, buffer) ==
    LET id == issued + 1
    IN  /\ issued < MaxRequests
        /\ g_task_mutex = NoClient
        /\ request[c] = NoTask
        /\ issued' = id
        /\ IF can_push_work
           THEN /\ g_task_mutex' = c
                /\ request' = [request EXCEPT ![c] =
                       [id |-> id, job |-> job, medium |-> medium,
                        path |-> path, buffer |-> buffer]]
                /\ UNCHANGED called
           ELSE /\ called' = [called EXCEPT ![id] = @ + 1]
                /\ UNCHANGED <<g_task_mutex, request>>
        /\ UNCHANGED <<g_tasks, emu, stage, duplicates, next, machine, frames,
                       files, g_undo_savestate, batch>>

core_st_do_file(c, p, job) == core_st_do(c, job, "path", p, NoState)

\* The buffer of a save is empty; a load gets a buffer its caller holds, here
\* the one core_st_get_undo_savestate returned.
core_st_do_memory(c, job) ==
    core_st_do(c, job, "memory", NoPath,
               IF job = "load" THEN g_undo_savestate ELSE NoState)

\* The rest of both functions: insert at the front, release the mutex.
insert_task(c) ==
    /\ request[c] # NoTask
    /\ g_tasks' = <<request[c]>> \o g_tasks
    /\ request' = [request EXCEPT ![c] = NoTask]
    /\ g_task_mutex' = NoClient
    /\ UNCHANGED <<emu, stage, duplicates, next, machine, frames, files,
                   g_undo_savestate, history>>

-----------------------------------------------------------------------------
(* st_do_work, performed by the emulation thread with the mutex held       *)

\* Mutant: the later (older) task of two duplicates is kept.
duplicates_of_newer(q, j) ==
    {i \in j + 1 .. Len(q) : /\ q[i].medium = "path"
                             /\ q[j].medium = "path"
                             /\ q[i].path = q[j].path
                             /\ \A l \in j + 1 .. i : q[l].job # "load"}

(***************************************************************************)
(* savestates_simplify_tasks pushes index j once for every earlier path    *)
(* task i with the same path and no load in i+1..j: j can be pushed more   *)
(* than once.                                                              *)
(***************************************************************************)
duplicates_of(q, j) ==
    {i \in 1 .. j - 1 : /\ q[i].medium = "path"
                        /\ q[j].medium = "path"
                        /\ q[i].path = q[j].path
                        /\ \A l \in i + 1 .. j : q[l].job # "load"}

duplicate_indices(q) == [j \in 1 .. Len(q) |-> Cardinality(duplicates_of(q, j))]

st_do_work_begin ==
    /\ core_executing
    /\ stage = "none"
    /\ g_task_mutex = NoClient
    /\ g_tasks # << >>
    /\ g_task_mutex' = EmuThread
    /\ stage' = "simplify"
    /\ duplicates' = duplicate_indices(g_tasks)
    /\ batch' = [newest |-> g_tasks[1].id, machine |-> machine, loaded |-> FALSE]
    /\ UNCHANGED <<g_tasks, emu, next, request, machine, frames, files,
                   g_undo_savestate, issued, called>>

RemoveIndex(q, j) ==
    [i \in 1 .. Len(q) - 1 |-> IF i < j THEN q[i] ELSE q[i + 1]]

(***************************************************************************)
(* One iteration of erase_indices: the pushed indices are taken in         *)
(* descending order, and an index at or past the current size is skipped.  *)
(***************************************************************************)
erase_indices ==
    /\ stage \in {"simplify", "simplify_again"}
    /\ \E j \in DOMAIN duplicates :
         /\ duplicates[j] > 0
         /\ \A l \in DOMAIN duplicates : l > j => duplicates[l] = 0
         /\ duplicates' = [duplicates EXCEPT ![j] = @ - 1]
         /\ IF j <= Len(g_tasks)
            THEN g_tasks' = RemoveIndex(g_tasks, j)
            ELSE UNCHANGED g_tasks
    /\ UNCHANGED <<g_task_mutex, emu, stage, next, request, machine, frames,
                   files, g_undo_savestate, issued, called, batch>>

UndoTask == [id |-> UndoId, job |-> "save", medium |-> "memory",
             path |-> NoPath, buffer |-> NoState]

queue_contains_load(q) == \E i \in 1 .. Len(q) : q[i].job = "load"

\* Mutant: the undo save is queued behind the loads.
with_undo_point_last(q) ==
    IF StUndoLoad /\ queue_contains_load(q) THEN Append(q, UndoTask) ELSE q

with_undo_point(q) ==
    IF StUndoLoad /\ queue_contains_load(q) THEN <<UndoTask>> \o q ELSE q

Simplified == \A j \in DOMAIN duplicates : duplicates[j] = 0

\* Between the two calls of savestates_simplify_tasks.
savestates_create_undo_point ==
    /\ stage = "simplify"
    /\ Simplified
    /\ g_tasks' = with_undo_point(g_tasks)
    /\ duplicates' = duplicate_indices(with_undo_point(g_tasks))
    /\ stage' = "simplify_again"
    /\ UNCHANGED <<g_task_mutex, emu, next, request, machine, frames, files,
                   g_undo_savestate, history>>

st_do_work_loop ==
    /\ stage = "simplify_again"
    /\ Simplified
    /\ stage' = "run"
    /\ next' = 1
    /\ UNCHANGED <<g_tasks, g_task_mutex, emu, duplicates, request, machine,
                   frames, files, g_undo_savestate, history>>

\* Calls the task's callback; the undo task's callback keeps the savestate.
called_back(id) == IF id = UndoId THEN called ELSE [called EXCEPT ![id] = @ + 1]

(***************************************************************************)
(* savestates_save_immediate_impl.  Writing the file may fail; the         *)
(* callback is called either way.                                          *)
(***************************************************************************)
savestates_save_immediate_impl(t, opened) ==
    /\ t.job = "save"
    /\ t.medium = "memory" => opened
    /\ called' = called_back(t.id)
    /\ files' = IF t.medium = "path" /\ opened
                THEN [files EXCEPT ![t.path] = machine] ELSE files
    /\ g_undo_savestate' = IF t.id = UndoId THEN machine ELSE g_undo_savestate
    /\ UNCHANGED <<machine, batch>>

\* Mutant: the ST_NotFound return is missing.
savestates_load_missing_buffer(t, accepted) ==
    LET st == IF t.medium = "path" THEN files[t.path] ELSE t.buffer
    IN  /\ t.job = "load"
        /\ called' = called_back(t.id)
        /\ machine' = IF accepted THEN st ELSE machine
        /\ batch' = IF accepted THEN [batch EXCEPT !.loaded = TRUE] ELSE batch
        /\ UNCHANGED <<files, g_undo_savestate>>

(***************************************************************************)
(* savestates_load_immediate_impl.  The load fails when there is nothing   *)
(* to load; otherwise it may still be refused (decompression, registers,   *)
(* event queue, a declined warning).                                       *)
(***************************************************************************)
savestates_load_immediate_impl(t, accepted) ==
    LET st == IF t.medium = "path" THEN files[t.path] ELSE t.buffer
    IN  /\ t.job = "load"
        /\ st = NoState => ~accepted
        /\ called' = called_back(t.id)
        /\ machine' = IF accepted THEN st ELSE machine
        /\ batch' = IF accepted THEN [batch EXCEPT !.loaded = TRUE] ELSE batch
        /\ UNCHANGED <<files, g_undo_savestate>>

st_do_work_task ==
    /\ stage = "run"
    /\ next <= Len(g_tasks)
    /\ next' = next + 1
    /\ \E ok \in BOOLEAN :
         \/ savestates_save_immediate_impl(g_tasks[next], ok)
         \/ savestates_load_immediate_impl(g_tasks[next], ok)
    /\ UNCHANGED <<g_tasks, g_task_mutex, emu, stage, duplicates, request,
                   frames, issued>>

\* Mutant: g_tasks.clear() is missing.
st_do_work_end_keeping_tasks ==
    /\ stage = "run"
    /\ next > Len(g_tasks)
    /\ g_task_mutex' = NoClient
    /\ stage' = "none"
    /\ UNCHANGED <<g_tasks, emu, duplicates, next, request, machine, frames,
                   files, g_undo_savestate, history>>

st_do_work_end ==
    /\ stage = "run"
    /\ next > Len(g_tasks)
    /\ g_tasks' = << >>
    /\ g_task_mutex' = NoClient
    /\ stage' = "none"
    /\ UNCHANGED <<emu, duplicates, next, request, machine, frames, files,
                   g_undo_savestate, history>>

-----------------------------------------------------------------------------
(* The core around the queue                                               *)

\* The emulation thread runs a frame; external to the savestate system.
EmulateFrame ==
    /\ core_executing
    /\ stage = "none"
    /\ frames < MaxFrames
    /\ frames' = frames + 1
    /\ machine' = frames + 1
    /\ UNCHANGED <<g_tasks, g_task_mutex, emu, stage, duplicates, next, request,
                   files, g_undo_savestate, history>>

\* The end of core_start: core_executing becomes false without the mutex.
core_start_returns ==
    /\ emu = "running"
    /\ stage = "none"
    /\ emu' = "stopping"
    /\ UNCHANGED <<g_tasks, g_task_mutex, stage, duplicates, next, request,
                   machine, frames, files, g_undo_savestate, history>>

\* Mutant: the queue is cleared without taking the mutex.
st_on_core_stop_unlocked ==
    /\ emu = "stopping"
    /\ g_tasks' = << >>
    /\ g_undo_savestate' = NoState
    /\ emu' = "stopped"
    /\ UNCHANGED <<g_task_mutex, stage, duplicates, next, request, machine,
                   frames, files, history>>

st_on_core_stop ==
    /\ emu = "stopping"
    /\ g_task_mutex = NoClient
    /\ g_tasks' = << >>
    /\ g_undo_savestate' = NoState
    /\ emu' = "stopped"
    /\ UNCHANGED <<g_task_mutex, stage, duplicates, next, request, machine,
                   frames, files, history>>

\* vr_start_rom_impl, up to core_executing becoming true in core_start.
core_starts ==
    /\ emu = "stopped"
    /\ emu' = "running"
    /\ machine' = 0
    /\ UNCHANGED <<g_tasks, g_task_mutex, stage, duplicates, next, request,
                   frames, files, g_undo_savestate, history>>

Next ==
    \/ \E c \in Clients, p \in Paths, job \in {"save", "load"} :
          core_st_do_file(c, p, job)
    \/ \E c \in Clients, job \in {"save", "load"} : core_st_do_memory(c, job)
    \/ \E c \in Clients : insert_task(c)
    \/ st_do_work_begin
    \/ erase_indices
    \/ savestates_create_undo_point
    \/ st_do_work_loop
    \/ st_do_work_task
    \/ st_do_work_end
    \/ EmulateFrame
    \/ core_start_returns
    \/ st_on_core_stop
    \/ core_starts

Spec == Init /\ [][Next]_vars

-----------------------------------------------------------------------------
(* Properties                                                              *)

\* Every variable has the values the code can give it.
TypeOK ==
    /\ g_tasks \in Seq(Task)
    /\ g_task_mutex \in Clients \cup {NoClient, EmuThread}
    /\ emu \in {"running", "stopping", "stopped"}
    /\ stage \in {"none", "simplify", "simplify_again", "run"}
    /\ duplicates \in Seq(Nat)
    /\ next \in Nat \ {0}
    /\ request \in [Clients -> Task \cup {NoTask}]
    /\ machine \in Machine
    /\ frames \in Nat
    /\ files \in [Paths -> Savestate]
    /\ g_undo_savestate \in Savestate
    /\ issued \in 0 .. MaxRequests
    /\ called \in [1 .. MaxRequests -> Nat]
    /\ batch \in [newest : Nat, machine : Machine, loaded : BOOLEAN]

\* However requests, work, duplicates and core stops interleave, the callback
\* of a request (task.callback) is never invoked twice: the VCR engine changes
\* its task in these callbacks, so a second call would restart a movie.
CallbackAtMostOnce == \A i \in 1 .. MaxRequests : called[i] <= 1

\* A request that passed can_push_work just before core_executing became false
\* is still cleared by st_on_core_stop: no task of a closed ROM is left to run
\* on the next one.
NoTaskOutlivesCore ==
    emu = "stopped" => /\ g_tasks = << >>
                       /\ \A c \in Clients : request[c] = NoTask

\* Once a load of the batch has overwritten the machine, the undo savestate
\* holds the machine as it was before st_do_work ran (savestates_create_undo_point
\* puts the undo save in front of every load).
UndoHoldsPreLoadState ==
    (StUndoLoad /\ stage = "run" /\ batch.loaded)
        => g_undo_savestate = batch.machine

\* savestates_simplify_tasks never throws away the newest request: when
\* st_do_work is done with a batch, that request's callback has been called.
NewestRequestAnswered ==
    (stage = "none" /\ batch.newest # 0) => called[batch.newest] = 1

=============================================================================
