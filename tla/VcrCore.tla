------------------------------ MODULE VcrCore -------------------------------
(***************************************************************************)
(* The movie engine (module Vcr) with everything that runs around it:      *)
(*                                                                         *)
(*  - the emulation thread, which in update_pif_read (Core/memory/pif.cpp) *)
(*    waits while the emulator is paused, performs the queued savestate    *)
(*    tasks and then polls every controller;                               *)
(*  - the worker threads behind g_core->submit_task, which reset the ROM   *)
(*    and queue the savestate loads of the engine;                         *)
(*  - the user (menus, piano roll, Lua), who may call the engine at any    *)
(*    time.                                                                *)
(*                                                                         *)
(* The emulated machine is deterministic, so its state is the state it     *)
(* started from and the inputs it has been given since.                    *)
(***************************************************************************)
EXTENDS Vcr

CONSTANTS
    Controllers,    \* number of controllers polled in a frame
    Scenarios       \* the situations to be explored

\* What a movie file holds; a file that cannot be parsed counts as none.
MovieFiles == [uid : Nat, startFlags : StartFlags, inputs : Seq(Input)]

(***************************************************************************)
(* A scenario is a configuration, the movie files that may be on the disk  *)
(* to begin with, and bounds: how often the user performs each operation,  *)
(* which misfortunes happen, how many samples a recording has at most and  *)
(* which sample is the first that a warp modify edits.                     *)
(***************************************************************************)
Misfortunes == {"save_fails", "start_fails", "late_callback", "cht_unreadable"}

ASSUME ControllersAssumption == Controllers \in Nat \ {0}
ASSUME ScenariosAssumption ==
    \A s \in Scenarios : /\ s.cfg \in Cfg
                         /\ s.ops \in [DOMAIN s.ops -> Nat]
                         /\ s.env \subseteq Misfortunes
                         /\ s.max_length \in Nat
                         /\ s.first_edit \in Nat
                         /\ s.files \subseteq MovieFiles \cup {NoMovie}
ASSUME NoMovieAssumption == NoMovie \notin MovieFiles

VARIABLES
    scene,      \* the scenario, chosen in the beginning
    vcr,        \* the record of module Vcr
    machine,    \* the emulated machine
    slot,       \* the user's savestate slot
    pif,        \* where the emulation thread is
    channel,    \* the controller it polls next
    next,       \* the savestate task it performs next
    reset,      \* the ROM reset in progress, which holds g_emu_cs
    recordings, \* number of recordings started; gives each its uid
    ops,        \* how often the user performed each operation
    origin      \* history: the machine at the start of the current movie, or NoState
                \* once the user loaded a savestate despite the warning that it desyncs

vars == <<scene, vcr, machine, slot, pif, channel, next, reset, recordings, ops, origin>>

-----------------------------------------------------------------------------
(* The machine                                                             *)

Boot == [from |-> "boot", inputs |-> << >>]
\* The machine after inputs that no movie knows of.
Unknown == [from |-> "unknown", inputs |-> << >>]
\* The machine in a snapshot that was made earlier.
Snapshot == [from |-> "snapshot", inputs |-> << >>]

consume(m, input) ==
    IF input = NoInput THEN Unknown ELSE [m EXCEPT !.inputs = Append(@, input)]

(***************************************************************************)
(* The machine that the movie's inputs up to the current sample lead to:   *)
(* a reset in the movie boots the machine again.                           *)
(***************************************************************************)
movie_machine(m, inputs) ==
    LET resets == {i \in 1 .. Len(inputs) : inputs[i] = ResetInput}
        last == CHOOSE i \in resets : \A j \in resets : j <= i
    IN  IF resets = {} THEN [m EXCEPT !.inputs = @ \o inputs]
        ELSE [Boot EXCEPT !.inputs = SubSeq(inputs, last + 1, Len(inputs))]

savestate(v) == [machine |-> machine, freeze |-> core_vcr_freeze(v)]

-----------------------------------------------------------------------------
Reset(what, stage, result) == [what |-> what, stage |-> stage, result |-> result]
NoReset == Reset("none", "none", "Res_Ok")

Init ==
    /\ scene \in Scenarios
    /\ \E files \in [Movies -> scene.files],
          chts \in IF "cht_unreadable" \in scene.env THEN SUBSET Movies ELSE {{}} :
          vcr = InitialVcr(scene.cfg, files, [p \in Movies |->
                    IF files[p] = NoMovie THEN NoState
                    ELSE IF files[p].startFlags # "MOVIE_START_FROM_SNAPSHOT" THEN NoState
                    ELSE [machine |-> Snapshot,
                          freeze |-> [is_movie |-> TRUE, uid |-> files[p].uid,
                                      current_sample |-> 0, length_samples |-> 0,
                                      input_buffer |-> << >>]]], chts)
    /\ machine = Boot
    /\ slot = NoState
    /\ pif = "frame"
    /\ channel = 0
    /\ next = 1
    /\ reset = NoReset
    /\ recordings = 0
    /\ ops = [op \in DOMAIN scene.ops |-> 0]
    /\ origin = Boot

-----------------------------------------------------------------------------
(* update_pif_read                                                         *)

\* frame_advance_outstanding is counted down once per frame of input.
advance_frame(v) ==
    IF v.frame_advance_outstanding = 1
    THEN core_vr_pause_emu([v EXCEPT !.frame_advance_outstanding = 0])
    ELSE IF v.frame_advance_outstanding > 1
    THEN [v EXCEPT !.frame_advance_outstanding = @ - 1]
    ELSE v

once(v) == v.emu_paused \/ v.frame_advance_outstanding > 0

\* The pause loop is entered only if `once' was true when the routine began.
update_pif_read ==
    /\ pif = "frame"
    /\ reset.stage # "closing"
    /\ vcr' = advance_frame(vcr)
    /\ pif' = IF once(vcr) THEN "wait" ELSE "ready"
    /\ UNCHANGED <<scene, machine, slot, channel, next, reset, recordings, ops, origin>>

\* The pause loop ends when the emulator is resumed.
pif_resumed ==
    /\ pif = "wait"
    /\ ~vcr.emu_paused
    /\ pif' = "ready"
    /\ UNCHANGED <<scene, vcr, machine, slot, channel, next, reset, recordings, ops, origin>>

contains_load(q) == \E i \in 1 .. Len(q) : q[i].what \in LoadTasks

(***************************************************************************)
(* st_do_work starts, from the pause loop or right before the first        *)
(* controller is read.  The undo savestate it makes when the queue holds a *)
(* load flushes the movie.                                                 *)
(***************************************************************************)
st_do_work_begin ==
    /\ \/ pif = "wait" /\ vcr.emu_paused /\ pif' = "work_paused"
       \/ pif = "ready" /\ pif' = "work"
    /\ vcr.g_tasks # << >>
    /\ next' = 1
    /\ vcr' = IF vcr.cfg.st_undo_load /\ contains_load(vcr.g_tasks) THEN write_movie(vcr) ELSE vcr
    /\ UNCHANGED <<scene, machine, slot, channel, reset, recordings, ops, origin>>

\* No task is queued: the controllers are read, beginning with the first.
pif_no_work ==
    /\ pif = "ready"
    /\ vcr.g_tasks = << >>
    /\ pif' = "poll"
    /\ channel' = 0
    /\ UNCHANGED <<scene, vcr, machine, slot, next, reset, recordings, ops, origin>>

working == pif \in {"work", "work_paused"}

st_do_work_end ==
    /\ working
    /\ next > Len(vcr.g_tasks)
    /\ vcr' = [vcr EXCEPT !.g_tasks = << >>]
    /\ pif' = IF pif = "work" THEN "poll" ELSE "wait"
    /\ channel' = 0
    /\ UNCHANGED <<scene, machine, slot, next, reset, recordings, ops, origin>>

-----------------------------------------------------------------------------
(* Savestate tasks, performed by the emulation thread                      *)

set_task(v, task) == [v EXCEPT !.g_task = task]

\* The callback of a task that was not performed.
task_failed(v, t) ==
    CASE t.what = "seek_load" ->
           core_vcr_stop_seek([v EXCEPT !.g_seek_savestate_loading = FALSE])
      [] t.what \in {"record_snapshot", "record_existing", "playback_snapshot"} ->
           core_vcr_stop_all(v)
      [] OTHER -> v

\* Mutant: a seek savestate that was loaded is still waited for.
task_done_still_loading(v, t, st) ==
    CASE t.what = "seek_save" ->
           [v EXCEPT !.g_seek_savestates =
               [f \in DOMAIN @ \cup {t.frame} |-> IF f = t.frame THEN st ELSE @[f]]]
      [] t.what \in {"record_snapshot", "record_existing"} -> set_task(v, "task_recording")
      [] t.what = "playback_snapshot" -> set_task(v, "task_playback")
      [] OTHER -> v

\* The callback of a task that was performed.
task_done(v, t, st) ==
    CASE t.what = "seek_load" -> [v EXCEPT !.g_seek_savestate_loading = FALSE]
      [] t.what = "seek_save" ->
           [v EXCEPT !.g_seek_savestates =
               [f \in DOMAIN @ \cup {t.frame} |-> IF f = t.frame THEN st ELSE @[f]]]
      [] t.what \in {"record_snapshot", "record_existing"} -> set_task(v, "task_recording")
      [] t.what = "playback_snapshot" -> set_task(v, "task_playback")
      [] OTHER -> v

(***************************************************************************)
(* savestates_save_immediate_impl.  Freezing the movie flushes it.  Only a *)
(* save to a file can fail.                                                *)
(***************************************************************************)
savestates_save_immediate_impl(t) ==
    LET v == write_movie(vcr)
        st == savestate(vcr)
    IN  /\ t.what \in SaveTasks
        /\ \/ vcr' = task_done(IF t.what = "record_snapshot"
                               THEN [v EXCEPT !.snapshots[t.path] = st] ELSE v, t, st)
              /\ slot' = (IF t.what = "slot_save" THEN st ELSE slot)
              /\ origin' = (IF t.what = "record_snapshot" THEN machine ELSE origin)
           \/ /\ t.what # "seek_save"
              /\ "save_fails" \in scene.env
              /\ vcr' = task_failed(v, t)
              /\ UNCHANGED <<slot, origin>>
        /\ UNCHANGED machine

task_buffer(t) ==
    CASE t.what = "seek_load" -> t.st
      [] t.what = "slot_load" -> slot
      [] OTHER -> vcr.snapshots[t.path]

unfrozen(st) == IF st.freeze.is_movie THEN core_vcr_unfreeze(vcr, st.freeze) ELSE vcr

\* Whether the user is asked if the savestate should be loaded nevertheless.
load_warns(t, st) ==
    /\ t.what \in {"seek_load", "slot_load"}
    /\ IF st.freeze.is_movie
       THEN vcr.g_task # "task_idle" /\ unfreeze_result(vcr, st.freeze) # "Res_Ok"
       ELSE vcr.g_task \in {"task_recording", "task_playback"}

savestates_load_immediate_impl(t) ==
    LET st == task_buffer(t)
    IN  /\ t.what \in LoadTasks
        /\ \/ /\ st = NoState
              /\ vcr' = task_failed(vcr, t)
              /\ UNCHANGED <<machine, origin>>
           \/ /\ st # NoState
              /\ load_warns(t, st)
              /\ vcr' = task_failed(unfrozen(st), t)
              /\ UNCHANGED <<machine, origin>>
           \/ /\ st # NoState
              /\ vcr' = task_done(unfrozen(st), t, st)
              /\ machine' = st.machine
              /\ origin' = CASE t.what \in {"record_existing", "playback_snapshot"} -> st.machine
                             [] load_warns(t, st) -> NoState
                             [] OTHER -> origin
        /\ UNCHANGED slot

st_do_work_task ==
    /\ working
    /\ next <= Len(vcr.g_tasks)
    /\ next' = next + 1
    /\ \/ savestates_save_immediate_impl(vcr.g_tasks[next])
       \/ savestates_load_immediate_impl(vcr.g_tasks[next])
    /\ UNCHANGED <<scene, pif, channel, reset, recordings, ops>>

-----------------------------------------------------------------------------
(* Controller polls                                                        *)

would_append(v) ==
    v.g_task = "task_recording" /\ ~use_inputs_from_buffer(before_input(v), channel)

(***************************************************************************)
(* internal_ReadController for one controller, then the next or the next   *)
(* frame.  max_length holds back the polls that would grow the movie       *)
(* beyond it, unless a seek needs them to end.  A console that was reset   *)
(* boots for many frames before it polls a controller: the job that reset  *)
(* it is through with its callback by then, unless "late_callback"         *)
(* happens.                                                                *)
(***************************************************************************)
internal_ReadController ==
    /\ pif = "poll"
    /\ would_append(vcr) => Len(vcr.g_movie_inputs) < scene.max_length \/ core_vcr_is_seeking(vcr)
    /\ reset.stage = "callback" => "late_callback" \in scene.env
    /\ \E keys \in Buttons :
         /\ vcr' = vcr_on_controller_poll(vcr, channel, keys)
         /\ machine' = consume(machine, polled_input(vcr, channel, keys))
    /\ channel' = (channel + 1) % Controllers
    /\ pif' = IF channel + 1 = Controllers THEN "frame" ELSE "poll"
    /\ UNCHANGED <<scene, slot, next, reset, recordings, ops, origin>>

-----------------------------------------------------------------------------
(* Worker threads                                                          *)

RemoveIndex(q, j) == [i \in 1 .. Len(q) - 1 |-> IF i < j THEN q[i] ELSE q[i + 1]]
without_job(v, i) == [v EXCEPT !.jobs = RemoveIndex(@, i)]

\* g_seek_savestates[key] makes an empty entry when there is none.
seek_savestate_at(v, key) ==
    IF key \in DOMAIN v.g_seek_savestates THEN v.g_seek_savestates[key] ELSE NoState
touch_seek_savestate(v, key) ==
    [v EXCEPT !.g_seek_savestates =
        [f \in DOMAIN @ \cup {key} |-> IF f = key THEN seek_savestate_at(v, key) ELSE @[f]]]

\* The task a job puts into the savestate queue.
job_task(v, j) == StTask(j.what, j.frame, j.path, seek_savestate_at(v, j.frame))

(***************************************************************************)
(* A job that queues a savestate load.  g_task_mutex is the emulation      *)
(* thread's while it works.  With the core off the request is refused and  *)
(* the callback called at once.                                            *)
(***************************************************************************)
job_load(i) ==
    LET j == vcr.jobs[i]
        v == IF j.what = "seek_load" THEN touch_seek_savestate(without_job(vcr, i), j.frame)
             ELSE without_job(vcr, i)
    IN  /\ j.what \in LoadTasks
        /\ ~working
        /\ vcr' = IF vcr.core_executing THEN st_push(v, job_task(vcr, j))
                  ELSE task_failed(v, job_task(vcr, j))
        /\ UNCHANGED <<scene, machine, slot, pif, channel, next, reset, recordings, ops, origin>>

ResetJobs == {"record_reset", "playback_reset", "movie_reset", "user_reset", "ui_reset"}

\* vr_reset_rom_impl leaves the reset to the engine while a movie is recorded.
reset_is_recorded(what) ==
    /\ vcr.cfg.is_reset_recording_enabled
    /\ what # "user_reset"
    /\ vcr.g_task = "task_recording"

\* vr_close_rom_impl up to the wait for the emulation thread.  The jobs of the
\* user interface ask it to stop the movie as well.
close_rom(v, what) ==
    LET w == core_vr_resume_emu_impl(v, TRUE)
    IN  IF what \in {"ui_reset", "ui_close"} THEN core_vcr_stop_all(w) ELSE w

stop_frame_advance(v) == [v EXCEPT !.frame_advance_outstanding = 0]

\* A worker calls vr_reset_rom_impl and holds g_emu_cs until the job is through.
vr_reset_rom_impl(i) ==
    LET j == vcr.jobs[i]
        v == without_job(vcr, i)
    IN  /\ j.what \in ResetJobs
        /\ reset = NoReset
        /\ \/ /\ ~vcr.core_executing
              /\ vcr' = v
              /\ reset' = Reset(j.what, "callback", "VR_NotRunning")
           \/ /\ vcr.core_executing
              /\ reset_is_recorded(j.what)
              /\ vcr' = [v EXCEPT !.vcr_reset_requested = TRUE]
              /\ reset' = Reset(j.what, "callback", "Res_Ok")
           \/ /\ vcr.core_executing
              /\ ~reset_is_recorded(j.what)
              /\ vcr' = close_rom(stop_frame_advance(v), j.what)
              /\ reset' = Reset(j.what, "closing", "Res_Ok")
        /\ UNCHANGED <<scene, machine, slot, pif, channel, next, recordings, ops, origin>>

\* A worker calls core_vr_close_rom(true); VR_NotRunning changes nothing.
vr_close_rom_impl(i) ==
    /\ vcr.jobs[i].what = "ui_close"
    /\ reset = NoReset
    /\ \/ /\ ~vcr.core_executing
          /\ vcr' = without_job(vcr, i)
          /\ UNCHANGED reset
       \/ /\ vcr.core_executing
          /\ vcr' = close_rom(without_job(vcr, i), "ui_close")
          /\ reset' = Reset("ui_close", "closing", "Res_Ok")
    /\ UNCHANGED <<scene, machine, slot, pif, channel, next, recordings, ops, origin>>

\* The emulation thread sees stop and ends; st_on_core_stop clears the queue.
emu_thread_ends ==
    /\ pif = "frame"
    /\ reset.stage = "closing"
    /\ pif' = "off"
    /\ vcr' = [vcr EXCEPT !.core_executing = FALSE, !.emu_paused = TRUE, !.g_tasks = << >>]
    /\ UNCHANGED <<scene, machine, slot, channel, next, reset, recordings, ops, origin>>

\* The rest of vr_reset_rom_impl: the ROM starts again, or fails to (the ROM,
\* a plugin or a save file cannot be opened).
vr_start_rom_impl ==
    /\ pif = "off"
    /\ reset.stage = "closing"
    /\ reset.what # "ui_close"
    /\ \/ /\ vcr' = [vcr EXCEPT !.core_executing = TRUE, !.emu_paused = FALSE]
          /\ machine' = Boot
          /\ pif' = "frame"
          /\ reset' = Reset(reset.what, "callback", "Res_Ok")
       \/ /\ "start_fails" \in scene.env
          /\ reset' = Reset(reset.what, "callback", "VR_RomInvalid")
          /\ UNCHANGED <<vcr, machine, pif>>
    /\ UNCHANGED <<scene, slot, channel, next, recordings, ops, origin>>

\* vr_close_rom_impl returns to the user interface.
rom_closed ==
    /\ pif = "off"
    /\ reset.what = "ui_close"
    /\ reset' = NoReset
    /\ UNCHANGED <<scene, vcr, machine, slot, pif, channel, next, recordings, ops, origin>>

no_reset_pending(v) == [v EXCEPT !.g_reset_pending = FALSE]

\* Mutant: a reset that is done stays pending.
reset_done_still_pending(what) ==
    CASE what = "record_reset" -> started(vcr, "task_recording")
      [] what = "playback_reset" -> started(vcr, "task_playback")
      [] OTHER -> vcr

\* What the jobs of vcr.cpp do once vr_reset_rom_impl has returned.
reset_done(what) ==
    CASE what = "record_reset" -> started(no_reset_pending(vcr), "task_recording")
      [] what = "playback_reset" -> started(no_reset_pending(vcr), "task_playback")
      [] what \in {"movie_reset", "user_reset"} -> no_reset_pending(vcr)
      [] OTHER -> vcr

reset_failed(what) ==
    CASE what \in {"record_reset", "playback_reset", "movie_reset"} ->
           core_vcr_stop_all(no_reset_pending(vcr))
      [] what = "user_reset" -> no_reset_pending(vcr)
      [] OTHER -> vcr

reset_callback ==
    /\ reset.stage = "callback"
    /\ \/ /\ reset.result = "Res_Ok"
          /\ vcr' = reset_done(reset.what)
          /\ origin' = IF reset.what \in {"record_reset", "playback_reset"} THEN Boot ELSE origin
       \/ /\ reset.result # "Res_Ok"
          /\ vcr' = reset_failed(reset.what)
          /\ UNCHANGED origin
    /\ reset' = NoReset
    /\ UNCHANGED <<scene, machine, slot, pif, channel, next, recordings, ops>>

-----------------------------------------------------------------------------
(* The user                                                                *)

\* The user performs op, which changes the engine to v.
user(op, v) ==
    /\ op \in DOMAIN scene.ops
    /\ ops[op] < scene.ops[op]
    /\ ops' = [ops EXCEPT ![op] = @ + 1]
    /\ vcr' = v
    /\ UNCHANGED <<scene, machine, slot, pif, channel, next, reset, origin>>

queued(what, path) ==
    \E i \in 1 .. Len(vcr.g_tasks) : vcr.g_tasks[i].what = what /\ vcr.g_tasks[i].path = path

\* Menus start movies while a ROM runs.  One savestate task per file is queued
\* at a time (module Savestates covers the duplicates).
user_start_record(path, flags) ==
    /\ vcr.core_executing
    /\ flags = "MOVIE_START_FROM_SNAPSHOT" => ~working /\ ~queued("record_snapshot", path)
    /\ user(flags, core_vcr_start_record(vcr, path, flags, recordings + 2))
    /\ recordings' = recordings + 1

user_declines_record(path) ==
    /\ vcr.core_executing
    /\ user("decline", core_vcr_start_record_declined(vcr, path))
    /\ UNCHANGED recordings

user_start_playback(path) ==
    /\ vcr.core_executing
    /\ user("play", core_vcr_start_playback(vcr, path))
    /\ UNCHANGED recordings

user_stop_all ==
    /\ user("stop", core_vcr_stop_all(vcr))
    /\ UNCHANGED recordings

user_begin_seek(frame, pause_at_end) ==
    /\ user("seek", core_vcr_begin_seek(vcr, frame, pause_at_end))
    /\ UNCHANGED recordings

user_stop_seek ==
    /\ user("stop_seek", core_vcr_stop_seek(vcr))
    /\ UNCHANGED recordings

\* Edits of the current inputs, as the piano roll makes them: one sample is
\* changed, the end is cut off, or a sample is added.
edits(inputs) ==
    {[inputs EXCEPT ![i] = b] : i \in scene.first_edit + 1 .. Len(inputs), b \in Buttons}
    \cup {SubSeq(inputs, 1, n) : n \in scene.first_edit + 1 .. Len(inputs)}
    \cup {Append(inputs, b) : b \in (IF Len(inputs) < scene.max_length THEN Buttons ELSE {})}

\* With the emulator paused, or at any time.
user_begin_warp_modify(inputs) ==
    /\ \/ /\ vcr.emu_paused
          /\ user("paused_warp", core_vcr_begin_warp_modify(vcr, inputs))
       \/ user("warp", core_vcr_begin_warp_modify(vcr, inputs))
    /\ UNCHANGED recordings

user_savestate(what) ==
    /\ vcr.core_executing
    /\ ~working
    /\ ~queued("slot_save", NoMovie) /\ ~queued("slot_load", NoMovie)
    /\ user(what, st_push(vcr, StTask(what, 0, NoMovie, NoState)))
    /\ UNCHANGED recordings

user_pause ==
    /\ \/ user("pause", core_vr_pause_emu(vcr))
       \/ user("resume", core_vr_resume_emu(vcr))
       \/ user("frame_advance", core_vr_frame_advance(vcr, 1))
    /\ UNCHANGED recordings

user_toggle_readonly ==
    /\ user("readonly", [vcr EXCEPT !.vcr_readonly = ~@])
    /\ UNCHANGED recordings

\* The menu entries that reset and close the ROM.
user_reset_rom ==
    /\ vcr.core_executing
    /\ \/ user("reset", submit_task(vcr, Job("ui_reset", 0, NoMovie)))
       \/ user("close", submit_task(vcr, Job("ui_close", 0, NoMovie)))
    /\ UNCHANGED recordings

-----------------------------------------------------------------------------
EmuThread ==
    \/ update_pif_read
    \/ pif_resumed
    \/ st_do_work_begin
    \/ pif_no_work
    \/ st_do_work_task
    \/ st_do_work_end
    \/ internal_ReadController
    \/ emu_thread_ends

Workers ==
    \/ \E i \in 1 .. Len(vcr.jobs) : 
          job_load(i) \/ vr_reset_rom_impl(i) \/ vr_close_rom_impl(i)
    \/ vr_start_rom_impl
    \/ rom_closed
    \/ reset_callback

User ==
    \/ \E path \in Movies, flags \in StartFlags : user_start_record(path, flags)
    \/ \E path \in Movies : user_declines_record(path) \/ user_start_playback(path)
    \/ user_stop_all
    \/ \E frame \in 0 .. scene.max_length, pause_at_end \in BOOLEAN :
          user_begin_seek(frame, pause_at_end)
    \/ user_stop_seek
    \/ \E inputs \in edits(vcr.g_movie_inputs) : user_begin_warp_modify(inputs)
    \/ \E what \in {"slot_save", "slot_load"} : user_savestate(what)
    \/ user_pause
    \/ user_toggle_readonly
    \/ user_reset_rom

Next == EmuThread \/ Workers \/ User

Spec == Init /\ [][Next]_vars

(***************************************************************************)
(* The emulation thread runs whenever it is not paused, and the thread     *)
(* pool gets round to every job.  The latter is strong fairness because a  *)
(* worker shares g_task_mutex with the emulation thread, which takes and   *)
(* leaves it every frame.  Nothing is assumed of the user.                 *)
(***************************************************************************)
FairSpec == Spec /\ WF_vars(EmuThread) /\ SF_vars(Workers)

-----------------------------------------------------------------------------
(* Properties                                                              *)

\* write_movie_impl and core_vcr_freeze copy length_samples inputs, and the
\* latter asserts that there are no fewer: there are exactly as many inputs as
\* the header says, whatever was recorded, unfrozen or edited.
LengthMatchesInputs == vcr.length_samples = Len(vcr.g_movie_inputs)

\* Nothing goes wrong outside the engine that the movie depends on.
Undisturbed == scene.env \subseteq {"cht_unreadable"}

HasJob(whats) == \E i \in 1 .. Len(vcr.jobs) : vcr.jobs[i].what \in whats
HasStTask(whats) == \E i \in 1 .. Len(vcr.g_tasks) : vcr.g_tasks[i].what \in whats

\* What vcr_on_controller_poll waits for is on its way: a pending reset is in
\* the hands of a worker, and a pending seek savestate or a start from a
\* snapshot is with a worker or in the savestate queue.  Otherwise the frames
\* would be skipped, or the movie be starting, for ever.
NothingWaitsInVain ==
    Undisturbed =>
        /\ vcr.g_reset_pending => reset # NoReset \/ HasJob(ResetJobs)
        /\ vcr.g_seek_savestate_loading => HasJob({"seek_load"}) \/ HasStTask({"seek_load"})
        /\ vcr.g_task = "task_start_recording_from_snapshot" => HasStTask({"record_snapshot"})
        /\ vcr.g_task = "task_start_recording_from_existing_snapshot" =>
               HasJob({"record_existing"}) \/ HasStTask({"record_existing"})
        /\ vcr.g_task = "task_start_playback_from_snapshot" =>
               HasJob({"playback_snapshot"}) \/ HasStTask({"playback_snapshot"})

\* The point of the movie engine: while a movie runs and nothing is pending,
\* the machine is where the movie's inputs up to the current sample lead from
\* the movie's start, through recordings, playbacks, resets, seeks, savestates
\* and paused warp modifies.  It is a property of the scenarios, which have none
\* of what breaks it: an unpaused warp modify, one of sample 0 or after a seek,
\* and a seek further than its savestates reach.
InSync ==
    (/\ Undisturbed
     /\ origin # NoState
     /\ vcr.g_task \in {"task_recording", "task_playback"}
     /\ ~poll_is_skipped(vcr)
     /\ ~working)
        => machine = movie_machine(origin, resize(vcr.g_movie_inputs, vcr.m_current_sample))

\* vcr_stop_seek_if_needed reports "Seek frame exceeded without seek having
\* been stopped!" as an incident: a seek never runs past its target.
SeekNotExceeded ==
    (/\ Undisturbed
     /\ core_vcr_is_seeking(vcr)
     /\ vcr.g_task # "task_idle"
     /\ ~poll_is_skipped(vcr)
     /\ ~working)
        => vcr.m_current_sample <= vcr.seek_to_frame

\* The game gets no input from beyond the end of g_movie_inputs, which
\* vcr_handle_recording and vcr_handle_playback read without a bounds check.
InputsInRange ==
    Undisturbed => \A i \in 1 .. Len(machine.inputs) : machine.inputs[i] # OutOfRange

\* "The maximum amount of warp modify savestates to keep in memory"
\* (core_types.h on seek_savestate_max_count): what the engine keeps stays
\* within the setting.
SeekSavestatesWithinMaximum ==
    Cardinality(DOMAIN vcr.g_seek_savestates) <= vcr.cfg.seek_savestate_max_count

\* How far the map of seek savestates really grows: vcr_create_n_frame_savestate
\* purges only when there are already more than the maximum, and before the
\* savestate it asks for is made, so the map exceeds the setting by up to two
\* and never by more, whatever is queued, made late or purged by seeks.
SeekSavestatesBounded ==
    Cardinality(DOMAIN vcr.g_seek_savestates) <= vcr.cfg.seek_savestate_max_count + 2

\* Playback pushes a cheat layer and pops it when it ends: the host's cheats
\* are overridden exactly while a movie is played back.  The exception is a
\* movie whose .cht cannot be read: it pushes no layer, and its end pops one
\* all the same.
CheatLayersBalanced ==
    Undisturbed /\ vcr.unreadable_cht = {} => vcr.cheat_layers = IF is_task_playback(vcr.g_task) THEN 1 ELSE 0

\* A recording that ends, however it ends, is in its file with all its inputs
\* (vcr_stop_record and core_vcr_unfreeze flush it): those it ended with, or
\* those a savestate loaded in read-write mode has just put in their place.
RecordingFlushed ==
    [][(vcr.g_task = "task_recording" /\ vcr'.g_task # "task_recording")
           => /\ vcr'.movies[vcr.g_movie_path] # NoMovie
              /\ vcr'.movies[vcr.g_movie_path].inputs
                    \in {vcr.g_movie_inputs, vcr'.g_movie_inputs}]_vars

\* The user stopped a seek that may have been waiting for its savestate.
Abandoned == "stop_seek" \in DOMAIN ops /\ ops["stop_seek"] > 0

\* "When unfreezing during a seek while recording, we don't want to overwrite
\* the input buffer": going back with a seek savestate loses no input, unless
\* the seek was stopped before its savestate was loaded.
SeekLoadKeepsInputs ==
    [][(/\ working /\ next' = next + 1 /\ vcr.g_tasks[next].what = "seek_load"
        /\ ~Abandoned)
           => vcr'.g_movie_inputs = vcr.g_movie_inputs]_vars

\* The user does nothing but start a movie and seek in it.
LeftAlone ==
    /\ Undisturbed
    /\ DOMAIN scene.ops \subseteq {"play", "MOVIE_START_FROM_SNAPSHOT", "seek", "stop_seek"}

\* A seek that was begun ends, if the user leaves the emulator alone: it stops
\* at its target, also when it has to go back to a seek savestate first.
SeekEnds == LeftAlone /\ core_vcr_is_seeking(vcr) ~> ~core_vcr_is_seeking(vcr)

\* Frames are skipped only for a while: the reset or the savestate load that
\* vcr_on_controller_poll waits for comes.
SkippingEnds == LeftAlone /\ poll_is_skipped(vcr) ~> ~poll_is_skipped(vcr)

=============================================================================
