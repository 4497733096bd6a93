----------------------------- MODULE CoreThreads -----------------------------
(***************************************************************************)
(* The threads of the program and what they wait for: vcr_mutex,           *)
(* g_task_mutex, g_emu_cs, windows of other threads (SendMessage and the   *)
(* dispatcher), the end of the emulation and audio threads, and the pause  *)
(* loop of the controller routine.                                         *)
(*                                                                         *)
(* A function of the source is the sequence of its steps that wait or that *)
(* make others wait; everything else it does is left to the modules        *)
(* Savestates, Vcr and VcrCore.  A thread holds the rest of the function   *)
(* it is executing and performs one step at a time, so that any two        *)
(* functions interleave at these steps.  Lua scripts are taken to be       *)
(* running, so that every Lua callback really waits for the UI thread.     *)
(***************************************************************************)
EXTENDS Naturals, Sequences, FiniteSets

CONSTANTS
    Workers,        \* the threads of the thread pool
    Scenarios,      \* records of "commands" (what the user does: names of Command and Job,
                    \* and core_gives_up), "events" (names of Poll) and "seeking" (whether
                    \* a seek is under way at first)
    MaxCommands,    \* bound on the number of commands
    MaxEvents,      \* bound on the number of events
    SizeMax,        \* stands for the largest size_t
    Free            \* the owner of a mutex that nobody holds

ASSUME BoundsAssumption == MaxCommands \in Nat /\ MaxEvents \in Nat /\ SizeMax \in Nat \ {0, 1}

Windows == {"ui", "seeker"}
Threads == {"emu", "audio"} \cup Windows \cup Workers
Mutexes == {"vcr_mutex", "g_task_mutex", "g_emu_cs"}

ASSUME NamesAssumption == /\ Workers \cap {"emu", "audio", "ui", "seeker"} = {}
                          /\ Free \notin Threads

VARIABLES
    prog,           \* per thread: the rest of what it is executing
    owner, depth,   \* per mutex: who holds it and how often (they are recursive)
    jobs,           \* the queue of the thread pool
    g_tasks,        \* queued savestate tasks, the newest first
    handle,         \* emu_thread_handle and audio_thread_handle: "none" (not joinable),
                    \* "running", or "ended" but not joined yet
    core,           \* the globals that threads wait for or test, with their names
    scene,          \* the scenario of this behaviour
    budget          \* remaining commands and events

vars == <<prog, owner, depth, jobs, g_tasks, handle, core, scene, budget>>

-----------------------------------------------------------------------------
(* Steps                                                                   *)

Do(op) == <<<<op, "">>>>
Lock(m) == <<<<"lock", m>>>>
Unlock(m) == <<<<"unlock", m>>>>
Locked(m, body) == Lock(m) \o body \o Unlock(m)
Submit(job) == <<<<"submit", job>>>>
Push(task) == <<<<"push", task>>>>
Join(t) == <<<<"join", t>>>>

\* Accesses to g_seek_savestates, a std::unordered_map without a mutex of its own.
\* Lookup is g_seek_savestates[closest_key] in the job of a seek: operator[] inserts
\* an empty buffer when the savestate was erased meanwhile or there never was one.
Read == Do("read")
Write == Do("write")
Lookup == Do("lookup")

\* SendMessage to a window of another thread: its thread must get round to it.
SendMessage(w) == <<<<"send", w>>>>

\* Dispatcher::invoke on the main window: on the UI thread itself the function
\* is called directly, otherwise the UI thread must get round to it.  m_mutex
\* of the dispatcher only orders threads that wait for the UI thread anyway
\* (module FrontEnd has its protocol).
invoke == SendMessage("ui")

\* Broadcasts and callbacks, as the Windows front end handles them.
task_changed == invoke
rerecords_changed == SendMessage("ui")
readonly_changed == SendMessage("ui")
emu_paused_changed == SendMessage("ui")
seek_completed == SendMessage("seeker") \o invoke
emu_launched_changed == invoke
lua_callback == invoke

core_vr_pause_emu == Do("core_vr_pause_emu")
core_vr_resume_emu == Do("resume") \o emu_paused_changed

-----------------------------------------------------------------------------
(* vcr.cpp                                                                 *)

vcr_clear_seek_savestates == Locked("vcr_mutex", Write)

\* vcr_clear_seek_savestates, then vcr_stop_record or vcr_stop_playback
core_vcr_stop_all ==
    vcr_clear_seek_savestates \o Locked("vcr_mutex", task_changed \o lua_callback)

core_vcr_stop_seek == Locked("vcr_mutex", Do("stop_seek"))

\* vcr_begin_seek_impl past its tests, up to the test for a backward seek
begin_seek == Do("seek_begun") \o core_vr_resume_emu

\* A recording erases the savestates after the target; the closest one is looked for.
find_closest == Write \o Read

\* Mutant: the savestate is requested on the spot instead of by a job.
begin_seek_on_the_spot ==
    begin_seek \o readonly_changed \o find_closest \o Locked("g_task_mutex", Push("seek_load"))

\* backwards, with seek savestates
begin_seek_fast == begin_seek \o readonly_changed \o find_closest \o Submit("seek_load")

\* MOVIE_START_FROM_SNAPSHOT
core_vcr_start_playback ==
    Locked("vcr_mutex", Do("ensure_core") \o core_vcr_stop_all \o Submit("movie_load")
                            \o task_changed \o rerecords_changed \o lua_callback)

\* The same without seek savestates: the movie is played again from its start.
begin_seek_slow == begin_seek \o core_vcr_start_playback

\* MOVIE_START_FROM_SNAPSHOT
core_vcr_start_record ==
    Locked("vcr_mutex", core_vcr_stop_all \o readonly_changed
                            \o Locked("g_task_mutex", Push("record_start"))
                            \o task_changed \o rerecords_changed)

\* a reset that the movie asks for
movie_resets == Submit("movie_reset")

\* vcr_on_controller_poll, by what happens during the poll
Poll ==
    [input |-> Locked("vcr_mutex", lua_callback),
     seek_ends |-> Locked("vcr_mutex", core_vcr_stop_seek \o lua_callback),
     movie_ends |-> Locked("vcr_mutex", core_vcr_stop_all),
     movie_loops |-> Locked("vcr_mutex", core_vcr_stop_all \o core_vcr_start_playback),
     movie_resets |-> Locked("vcr_mutex", movie_resets \o lua_callback),
     seek_savestate |-> Locked("vcr_mutex",
         Write \o Locked("g_task_mutex", Push("seek_save")) \o lua_callback)]

-----------------------------------------------------------------------------
(* savestates.cpp                                                          *)

\* Mutant: the callback of vcr_create_n_frame_savestate does not lock.
keep_seek_savestate_unlocked == Write

\* the callback of vcr_create_n_frame_savestate
keep_seek_savestate == Locked("vcr_mutex", Write)

TaskCallback ==
    [slot_save |-> << >>,
     slot_load |-> << >>,
     seek_save |-> keep_seek_savestate,
     seek_load |-> Do("load_result"),
     movie_load |-> Locked("vcr_mutex", task_changed \o rerecords_changed),
     record_start |-> Locked("vcr_mutex", << >>)]

core_vcr_freeze == Locked("vcr_mutex", << >>)
core_vcr_unfreeze == Locked("vcr_mutex", task_changed \o rerecords_changed)

savestates_immediate(task) ==
    IF task \in {"slot_save", "seek_save", "record_start"}
    THEN core_vcr_freeze \o TaskCallback[task] \o lua_callback
    ELSE core_vcr_unfreeze \o lua_callback \o TaskCallback[task]

st_do_work == Locked("g_task_mutex", Do("run_tasks"))

-----------------------------------------------------------------------------
(* r4300.cpp and pif.cpp                                                   *)

\* Mutant: a close does not tell the core to stop.
close_without_terminate ==
    core_vr_resume_emu \o Do("stop_audio") \o Join("audio") \o Do("audio_stopped")
        \o core_vcr_stop_all \o invoke \o Join("emu")

\* vr_close_rom_impl(true) past its test
vr_close_rom_impl ==
    core_vr_resume_emu \o Do("stop_audio") \o Join("audio") \o Do("audio_stopped")
        \o core_vcr_stop_all \o invoke \o Do("terminate_emu") \o Join("emu")

\* Mutant: a running ROM is not closed first.
start_without_close == Do("launch") \o Do("await_executing")

\* vr_start_rom_impl: a running ROM is closed first
vr_start_rom_impl == Do("close_if_launched") \o Do("launch") \o Do("await_executing")

core_vr_start_rom == Locked("g_emu_cs", vr_start_rom_impl)
core_vr_close_rom == Locked("g_emu_cs", Do("close_if_launched"))

\* vr_reset_rom_impl past its tests
vr_reset_rom_impl == Do("resetting") \o core_vr_close_rom \o core_vr_start_rom \o Do("reset_done")
core_vr_reset_rom == Locked("g_emu_cs", Do("reset_if_launched"))

\* emu_thread up to core_executing, and from the end of core_start
emu_thread_enters == emu_launched_changed \o lua_callback \o Do("core_executing")
emu_thread_leaves ==
    Do("core_stopped") \o Locked("g_task_mutex", Do("clear_tasks")) \o Do("emu_leaves")
        \o Do("emu_launched_changed")

\* update_pif_read for one controller; it pauses only when "once" was set at its start
update_pif_read(event) ==
    (IF core.emu_paused \/ core.frame_advance_outstanding > 0
     THEN Do("count_frame") \o Do("wait_unpaused") ELSE << >>)
        \o st_do_work \o Poll[event]

-----------------------------------------------------------------------------
(* Commands of the user and jobs of the thread pool                        *)

core_vcr_begin_seek == Locked("vcr_mutex", Do("begin_seek"))

Job ==
    [slot_save |-> Locked("g_task_mutex", Push("slot_save")),
     slot_load |-> Locked("g_task_mutex", Push("slot_load")),
     seek_load |-> Lookup \o Locked("g_task_mutex", Push("seek_load")),
     movie_load |-> Locked("g_task_mutex", Push("movie_load")),
     stop_movie |-> core_vcr_stop_all,
     start_playback |-> core_vcr_start_playback,
     start_record |-> core_vcr_start_record,
     seek |-> core_vcr_begin_seek,
     seek_slow |-> Locked("vcr_mutex", Do("begin_seek_slow")),
     close |-> core_vr_close_rom,
     reset |-> core_vr_reset_rom,
     start |-> core_vr_start_rom,
     movie_reset |-> core_vr_reset_rom \o Locked("vcr_mutex", task_changed \o rerecords_changed)]

\* What runs on the window's own thread: the main window, the seek dialog, and
\* the movie functions of Lua scripts, which the UI thread executes.
Command ==
    [pause |-> core_vr_pause_emu,
     resume |-> core_vr_resume_emu,
     frame_advance |-> Do("core_vr_frame_advance") \o core_vr_resume_emu,
     seeker_stop |-> core_vcr_stop_seek,
     seeker_start |-> core_vcr_begin_seek,
     lua_stop |-> core_vcr_stop_all,
     lua_begin_seek |-> core_vcr_begin_seek,
     lua_stop_seek |-> core_vcr_stop_seek]

\* A scenario names commands, jobs and events that exist.
ASSUME ScenariosAssumption ==
    \A s \in Scenarios :
        /\ s.commands \subseteq DOMAIN Command \cup DOMAIN Job \cup {"core_gives_up"}
        /\ s.events \subseteq DOMAIN Poll

WindowOf(command) == IF command \in {"seeker_stop", "seeker_start"} THEN "seeker" ELSE "ui"

Init ==
    /\ prog = [t \in Threads |-> << >>]
    /\ owner = [m \in Mutexes |-> Free]
    /\ depth = [m \in Mutexes |-> 0]
    /\ jobs = << >>
    /\ g_tasks = << >>
    /\ handle = [t \in {"emu", "audio"} |-> "running"]
    /\ scene \in Scenarios
    /\ core \in [core_executing : {TRUE}, emu_launched : {TRUE}, stop : {FALSE},
                 emu_resetting : {FALSE},
                 audio_thread_stop_requested : {FALSE}, emu_paused : {FALSE},
                 frame_advance_outstanding : {0}, seeking : {scene.seeking}]
    /\ budget = [commands |-> MaxCommands, events |-> MaxEvents]

-----------------------------------------------------------------------------
(* Execution                                                               *)

\* Steps that stand for a function or for a conditional part of one.  A load that
\* a seek asked for fails (load_result is expanded) or not (it is passed over).
Expansion(op) ==
    CASE op = "ensure_core" -> IF core.core_executing THEN << >>
                               ELSE Unlock("vcr_mutex") \o core_vr_start_rom \o Lock("vcr_mutex")
      [] op = "begin_seek" -> IF core.seeking THEN << >> ELSE begin_seek_fast
      [] op = "begin_seek_slow" -> IF core.seeking THEN << >> ELSE begin_seek_slow
      [] op = "stop_seek" -> IF core.seeking THEN Do("seek_over") \o seek_completed ELSE << >>
      [] op = "load_result" -> core_vcr_stop_seek
      [] op = "close_if_launched" -> IF core.emu_launched THEN vr_close_rom_impl ELSE << >>
      [] op = "reset_if_launched" -> IF core.emu_launched THEN vr_reset_rom_impl ELSE << >>
      [] op = "core_vr_pause_emu" -> IF core.seeking THEN << >>
                                     ELSE Do("pause") \o emu_paused_changed
      [] op = "count_frame" ->
            CASE core.frame_advance_outstanding = 0 -> << >>
              [] core.frame_advance_outstanding = 1 -> Do("frame_advanced") \o core_vr_pause_emu
              [] OTHER -> Do("frame_advanced")
      [] op = "wait_unpaused" -> IF core.emu_paused THEN st_do_work \o Do("wait_unpaused")
                                 ELSE << >>
      [] op = "emu_launched_changed" -> IF core.emu_resetting THEN << >> ELSE emu_launched_changed
      [] op = "run_tasks" -> IF g_tasks = << >> THEN << >>
                             ELSE savestates_immediate(Head(g_tasks)) \o Do("task_done")
                                      \o Do("run_tasks")

Expandable == {"ensure_core", "begin_seek", "begin_seek_slow", "stop_seek", "load_result",
               "close_if_launched", "reset_if_launched", "core_vr_pause_emu", "count_frame",
               "wait_unpaused", "emu_launched_changed", "run_tasks"}

\* Steps that assign to a global.
Assigned(op) ==
    CASE op = "seek_begun" -> [core EXCEPT !.seeking = TRUE]
      [] op = "seek_over" -> [core EXCEPT !.seeking = FALSE]
      [] op = "pause" -> [core EXCEPT !.emu_paused = core.emu_launched \/ @]
      [] op = "resume" -> [core EXCEPT !.emu_paused = ~core.emu_launched /\ @]
      [] op = "core_vr_frame_advance" -> [core EXCEPT !.frame_advance_outstanding = 1]
      [] op = "frame_advanced" -> [core EXCEPT !.frame_advance_outstanding =
                                                 IF @ = 0 THEN SizeMax ELSE @ - 1]
      [] op = "resetting" -> [core EXCEPT !.frame_advance_outstanding = 0, !.emu_resetting = TRUE]
      [] op = "reset_done" -> [core EXCEPT !.emu_resetting = FALSE]
      [] op = "stop_audio" -> [core EXCEPT !.audio_thread_stop_requested = TRUE]
      [] op = "audio_stopped" -> [core EXCEPT !.audio_thread_stop_requested = FALSE]
      [] op = "terminate_emu" -> [core EXCEPT !.stop = TRUE]
      [] op = "core_executing" -> [core EXCEPT !.core_executing = TRUE]
      [] op = "core_stopped" -> [core EXCEPT !.core_executing = FALSE]
      [] op = "emu_leaves" -> [core EXCEPT !.emu_paused = TRUE, !.emu_launched = FALSE]
      [] op \in {"read", "write", "lookup", "load_result"} -> core

Assignments == {"seek_begun", "seek_over", "pause", "resume", "core_vr_frame_advance",
                "frame_advanced", "resetting", "reset_done", "emu_leaves", "stop_audio",
                "audio_stopped", "terminate_emu", "core_executing", "core_stopped",
                "read", "write", "lookup", "load_result"}

At(t, op) == prog[t] # << >> /\ Head(prog[t])[1] = op
Op(t) == Head(prog[t])[1]
Arg(t) == Head(prog[t])[2]
Done(t) == prog' = [prog EXCEPT ![t] = Tail(@)]

Expand(t) ==
    /\ prog[t] # << >>
    /\ Op(t) \in Expandable
    /\ At(t, "wait_unpaused") => ~core.emu_paused \/ g_tasks # << >>
    /\ prog' = [prog EXCEPT ![t] = Expansion(Op(t)) \o Tail(@)]
    /\ UNCHANGED <<owner, depth, jobs, g_tasks, handle, core, scene, budget>>

Assign(t) ==
    /\ prog[t] # << >>
    /\ Op(t) \in Assignments
    /\ core' = Assigned(Op(t))
    /\ Done(t)
    /\ UNCHANGED <<owner, depth, jobs, g_tasks, handle, scene, budget>>

Acquire(t) ==
    /\ At(t, "lock")
    /\ owner[Arg(t)] \in {Free, t}
    /\ owner' = [owner EXCEPT ![Arg(t)] = t]
    /\ depth' = [depth EXCEPT ![Arg(t)] = @ + 1]
    /\ Done(t)
    /\ UNCHANGED <<jobs, g_tasks, handle, core, scene, budget>>

Release(t) ==
    /\ At(t, "unlock")
    /\ depth' = [depth EXCEPT ![Arg(t)] = @ - 1]
    /\ owner' = [owner EXCEPT ![Arg(t)] = IF depth[Arg(t)] = 1 THEN Free ELSE @]
    /\ Done(t)
    /\ UNCHANGED <<jobs, g_tasks, handle, core, scene, budget>>

\* A message to the thread's own window is a call; another thread must be back
\* in its message loop.
Send(t) ==
    /\ At(t, "send")
    /\ t = Arg(t) \/ prog[Arg(t)] = << >>
    /\ Done(t)
    /\ UNCHANGED <<owner, depth, jobs, g_tasks, handle, core, scene, budget>>

SubmitJob(t) ==
    /\ At(t, "submit")
    /\ jobs' = Append(jobs, Arg(t))
    /\ Done(t)
    /\ UNCHANGED <<owner, depth, g_tasks, handle, core, scene, budget>>

\* The queue under g_task_mutex: core_st_do_file and core_st_do_memory (which
\* refuse when the core does not execute), the loop of st_do_work, st_on_core_stop.
ChangeTasks(t) ==
    /\ \/ /\ At(t, "push")
          /\ g_tasks' = IF core.core_executing THEN <<Arg(t)>> \o g_tasks ELSE g_tasks
       \/ At(t, "task_done") /\ g_tasks' = Tail(g_tasks)
       \/ At(t, "clear_tasks") /\ g_tasks' = << >>
    /\ Done(t)
    /\ UNCHANGED <<owner, depth, jobs, handle, core, scene, budget>>

JoinThread(t) ==
    /\ At(t, "join")
    /\ handle[Arg(t)] = "ended"
    /\ handle' = [handle EXCEPT ![Arg(t)] = "none"]
    /\ Done(t)
    /\ UNCHANGED <<owner, depth, jobs, g_tasks, core, scene, budget>>

\* The end of vr_start_rom_impl; core_start clears stop, emu_thread starts the audio thread.
Launch(t) ==
    /\ At(t, "launch")
    /\ handle' = [x \in {"emu", "audio"} |-> "running"]
    /\ core' = [core EXCEPT !.emu_paused = FALSE, !.emu_launched = TRUE, !.stop = FALSE]
    /\ prog' = [prog EXCEPT ![t] = Tail(@), !["emu"] = emu_thread_enters]
    /\ UNCHANGED <<owner, depth, jobs, g_tasks, scene, budget>>

AwaitExecuting(t) ==
    /\ At(t, "await_executing")
    /\ core.core_executing
    /\ Done(t)
    /\ UNCHANGED <<owner, depth, jobs, g_tasks, handle, core, scene, budget>>

Step(t) ==
    \/ Expand(t) \/ Assign(t) \/ Acquire(t) \/ Release(t) \/ Send(t) \/ SubmitJob(t)
    \/ ChangeTasks(t) \/ JoinThread(t) \/ Launch(t) \/ AwaitExecuting(t)

\* A worker takes the oldest job.
TakeJob(w) ==
    /\ prog[w] = << >>
    /\ jobs # << >>
    /\ prog' = [prog EXCEPT ![w] = Job[Head(jobs)]]
    /\ jobs' = Tail(jobs)
    /\ UNCHANGED <<owner, depth, g_tasks, handle, core, scene, budget>>

Idle(t) == prog[t] = << >>

\* The emulation thread reads a controller; an ordinary poll costs no event.
EmuPolls ==
    /\ handle["emu"] = "running"
    /\ Idle("emu")
    /\ core.core_executing
    /\ ~core.stop
    /\ \E event \in {"input"} \cup scene.events :
         /\ event # "input" => budget.events > 0
         /\ prog' = [prog EXCEPT !["emu"] = update_pif_read(event)]
         /\ budget' = IF event = "input" THEN budget ELSE [budget EXCEPT !.events = @ - 1]
    /\ UNCHANGED <<owner, depth, jobs, g_tasks, handle, core, scene>>

\* The core notices stop and core_start returns; emu_thread ends when it has left.
EmuStops ==
    /\ handle["emu"] = "running"
    /\ Idle("emu")
    /\ core.stop
    /\ IF core.core_executing
       THEN prog' = [prog EXCEPT !["emu"] = emu_thread_leaves] /\ UNCHANGED handle
       ELSE handle' = [handle EXCEPT !["emu"] = "ended"] /\ UNCHANGED prog
    /\ UNCHANGED <<owner, depth, jobs, g_tasks, core, scene, budget>>

\* An instruction the core cannot execute sets stop.
CoreGivesUp ==
    /\ "core_gives_up" \in scene.commands
    /\ budget.commands > 0
    /\ Idle("emu") /\ core.core_executing
    /\ core' = [core EXCEPT !.stop = TRUE]
    /\ budget' = [budget EXCEPT !.commands = @ - 1]
    /\ UNCHANGED <<prog, owner, depth, jobs, g_tasks, handle, scene>>

AudioStops ==
    /\ handle["audio"] = "running"
    /\ core.audio_thread_stop_requested
    /\ handle' = [handle EXCEPT !["audio"] = "ended"]
    /\ UNCHANGED <<prog, owner, depth, jobs, g_tasks, core, scene, budget>>

\* The user: a command on its window's thread, or one that the UI thread hands to a worker.
UserCommands(c) ==
    /\ c \in scene.commands
    /\ budget.commands > 0
    /\ budget' = [budget EXCEPT !.commands = @ - 1]
    /\ \/ /\ c \in DOMAIN Command
          /\ Idle(WindowOf(c))
          /\ prog' = [prog EXCEPT ![WindowOf(c)] = Command[c]]
          /\ UNCHANGED jobs
       \/ /\ c \in DOMAIN Job
          /\ Idle("ui")
          /\ jobs' = Append(jobs, c)
          /\ UNCHANGED prog
    /\ UNCHANGED <<owner, depth, g_tasks, handle, core, scene>>

Next ==
    \/ \E t \in Threads : Step(t)
    \/ \E w \in Workers : TakeJob(w)
    \/ EmuPolls
    \/ EmuStops
    \/ AudioStops
    \/ CoreGivesUp
    \/ \E c \in DOMAIN Command \cup DOMAIN Job : UserCommands(c)

Spec == Init /\ [][Next]_vars

(***************************************************************************)
(* Threads are scheduled, and a mutex that is free again and again is      *)
(* acquired in the end; nothing is assumed of the user or of events.       *)
(***************************************************************************)
Fairness ==
    /\ \A t \in Threads : SF_vars(Step(t))
    /\ \A w \in Workers : WF_vars(TakeJob(w))
    /\ WF_vars(EmuPolls)
    /\ WF_vars(EmuStops)
    /\ WF_vars(AudioStops)

FairSpec == Spec /\ Fairness

-----------------------------------------------------------------------------
(* Properties                                                              *)

\* Whom a thread waits for; a thread that can go on waits for nobody.
WaitsFor(t) ==
    CASE At(t, "lock") -> {owner[Arg(t)]} \ {Free, t}
      [] At(t, "send") -> {Arg(t)} \ {t}
      [] At(t, "join") -> {Arg(t)}
      [] At(t, "await_executing") -> {"emu"}
      [] OTHER -> {}

\* Threads wait for each other in a circle.
CircleIn(Waiting) ==
    \E S \in SUBSET Waiting : S # {} /\ \A t \in S : WaitsFor(t) \cap S # {}

\* No threads wait for each other in a circle: a function that holds a mutex
\* never waits, through other mutexes, windows or thread handles, for itself.
NoCircularWait == ~CircleIn(Threads)

Holds(t, m) == owner[m] = t

\* The waits of the code that can close a circle: the movie engine called on the
\* thread of a window to which the holder of vcr_mutex sends messages; the start of
\* a recording, which requests a savestate under vcr_mutex; a seek without
\* savestates, which keeps vcr_mutex at depth one while it starts the ROM.
OnWindowThread(t) == t \in Windows /\ At(t, "lock") /\ Arg(t) = "vcr_mutex"
StartsRecording(t) ==
    At(t, "lock") /\ Arg(t) = "g_task_mutex" /\ prog[t][2] = <<"push", "record_start">>
RestartsHolding(t) ==
    /\ Holds(t, "vcr_mutex")
    /\ At(t, "join") \/ At(t, "await_executing") \/ (At(t, "lock") /\ Arg(t) = "g_emu_cs")

\* Every circle of waits goes through one of the three named waits: without the
\* threads that are in one of them no circle is left, whichever commands, polls,
\* seeks, resets and closes run at the same time.
OnlyKnownCircles ==
    ~CircleIn({t \in Threads : ~(OnWindowThread(t) \/ StartsRecording(t) \/ RestartsHolding(t))})

UsesSavestates(t) == At(t, "read") \/ At(t, "write") \/ At(t, "lookup")

\* Two threads use g_seek_savestates at the same time only when one of them is a
\* worker at the lookup of a seek, the one use of it without vcr_mutex.
OnlyLookupRaces ==
    \A t, u \in Threads :
        t # u /\ UsesSavestates(t) /\ UsesSavestates(u) => At(t, "lookup") \/ At(u, "lookup")

\* A std::thread is only assigned to a handle that is not joinable: otherwise
\* the program terminates (vr_start_rom_impl, emu_thread).
HandlesFree ==
    \A t \in Threads : At(t, "launch") => \A x \in {"emu", "audio"} : handle[x] = "none"

Joining(t) == At(t, "join") /\ Arg(t) = "emu"

\* A close waits for the emulation thread to end; it does, unless the emulator
\* was paused again after vr_close_rom_impl resumed it, or threads wait for each
\* other in one of the circles that OnlyKnownCircles allows.
CloseEnds ==
    \A t \in Workers : Joining(t) ~> (~Joining(t) \/ core.emu_paused \/ ~NoCircularWait)

=============================================================================
