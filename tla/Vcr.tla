-------------------------------- MODULE Vcr ---------------------------------
(***************************************************************************)
(* The movie engine of Core/r4300/vcr.cpp: recording, playback, seeking    *)
(* and warp modify, as operators on a record v that holds the engine's     *)
(* global variables and the few things outside it that it changes (the     *)
(* pause flags, the queued savestate tasks, the jobs handed to             *)
(* g_core->submit_task, the movie files, the cheat layers).  Each operator *)
(* is one function of the source and runs with vcr_mutex held.             *)
(*                                                                         *)
(* Module VcrCore puts the emulation thread, the worker threads and the    *)
(* user around these operators.                                            *)
(*                                                                         *)
(* A movie is its inputs and its uid; VI counts, rerecord counts, author   *)
(* and ROM information are left out.  A frame here is a controller poll,   *)
(* which the source also calls a sample.                                   *)
(***************************************************************************)
EXTENDS Integers, Sequences, FiniteSets

CONSTANTS
    Buttons,                    \* inputs the player can press
    ResetInput,                 \* 0xC000, the input that stands for a console reset
    OutOfRange,                 \* what an access past the end of g_movie_inputs reads
    Movies,                     \* movie paths
    NoMovie,                    \* no movie file at a path
    NoState                     \* an empty savestate buffer, or a missing savestate file

Input == Buttons \cup {ResetInput, OutOfRange}

\* seek_to_frame when it has no value; SIZE_MAX as a frame.
NoFrame == -1
SizeMax == -1

VcrTask ==
    {"task_idle", "task_start_recording_from_reset",
     "task_start_recording_from_snapshot",
     "task_start_recording_from_existing_snapshot", "task_recording",
     "task_start_playback_from_reset", "task_start_playback_from_snapshot",
     "task_playback"}

vcr_is_task_recording(task) ==
    task \in {"task_recording", "task_start_recording_from_reset",
              "task_start_recording_from_existing_snapshot",
              "task_start_recording_from_snapshot"}

is_task_playback(task) ==
    task \in {"task_start_playback_from_reset",
              "task_start_playback_from_snapshot", "task_playback"}

\* The settings of g_core->cfg that the engine and its surroundings read.
Cfg == [seek_savestate_interval : Nat, seek_savestate_max_count : Nat,
        is_reset_recording_enabled : BOOLEAN, wait_at_movie_end : BOOLEAN,
        is_movie_loop_enabled : BOOLEAN, st_undo_load : BOOLEAN]

\* The globals of vcr.cpp when a ROM was started, with the settings, the movie
\* files and what accompanies them on the disk: the snapshots, and the .cht
\* files that exist but cannot be read.
InitialVcr(cfg, files, sts, chts) ==
    [g_task |-> "task_idle",
     seek_to_frame |-> NoFrame,
     g_seek_pause_at_end |-> FALSE,
     g_seek_savestate_loading |-> FALSE,
     g_reset_pending |-> FALSE,
     g_seek_savestates |-> << >>,
     g_warp_modify_active |-> FALSE,
     g_warp_modify_first_difference_frame |-> 0,
     uid |-> 0,
     startFlags |-> "MOVIE_START_FROM_NOTHING",
     length_samples |-> 0,
     g_movie_inputs |-> << >>,
     g_movie_path |-> NoMovie,
     m_current_sample |-> -1,
     vcr_reset_requested |-> FALSE,
     \* outside vcr.cpp
     cfg |-> cfg,
     vcr_readonly |-> FALSE,
     emu_paused |-> FALSE,
     frame_advance_outstanding |-> 0,
     core_executing |-> TRUE,
     cheat_layers |-> 0,
     movies |-> files,
     snapshots |-> sts,
     unreadable_cht |-> chts,
     g_tasks |-> << >>,
     jobs |-> << >>]

-----------------------------------------------------------------------------
(* Savestate requests and jobs made by the engine                          *)

\* What a savestate task is for decides its job, its medium and its callback.
StTask(what, frame, path, st) == [what |-> what, frame |-> frame, path |-> path, st |-> st]

LoadTasks == {"seek_load", "record_existing", "playback_snapshot", "slot_load"}
SaveTasks == {"seek_save", "record_snapshot", "slot_save"}

\* core_st_do_file and core_st_do_memory with the core executing: the newest
\* task goes to the front (module Savestates has the whole queue).
st_push(v, t) == [v EXCEPT !.g_tasks = <<t>> \o @]

submit_task(v, j) == [v EXCEPT !.jobs = Append(@, j)]
Job(what, frame, path) == [what |-> what, frame |-> frame, path |-> path]

-----------------------------------------------------------------------------
(* Pausing (r4300.cpp) as far as the engine decides it                     *)

core_vcr_is_seeking(v) == v.seek_to_frame # NoFrame

vcr_allows_core_pause(v) ==
    \/ ~core_vcr_is_seeking(v)
    \/ v.m_current_sample = v.seek_to_frame - 1 /\ v.g_seek_pause_at_end

\* length_samples - 1 is unsigned: an empty movie never blocks.
vcr_allows_core_unpause(v) ==
    ~ (/\ v.cfg.wait_at_movie_end
       /\ v.g_task = "task_playback"
       /\ v.length_samples > 0
       /\ v.m_current_sample >= v.length_samples - 1)

core_vr_pause_emu(v) ==
    IF vcr_allows_core_pause(v) /\ v.core_executing
    THEN [v EXCEPT !.emu_paused = TRUE] ELSE v

core_vr_resume_emu_impl(v, force) ==
    IF (force \/ vcr_allows_core_unpause(v)) /\ v.core_executing
    THEN [v EXCEPT !.emu_paused = FALSE] ELSE v

core_vr_resume_emu(v) == core_vr_resume_emu_impl(v, FALSE)

core_vr_frame_advance(v, count) ==
    IF vcr_allows_core_unpause(v)
    THEN core_vr_resume_emu([v EXCEPT !.frame_advance_outstanding = count])
    ELSE v

-----------------------------------------------------------------------------
(* Movie files                                                             *)

\* n inputs, as many as there are of them the ones given.
resize(inputs, n) ==
    [i \in 1 .. n |-> IF i <= Len(inputs) THEN inputs[i] ELSE OutOfRange]

\* write_movie_impl writes length_samples inputs.
MovieFile(v) ==
    [uid |-> v.uid, startFlags |-> v.startFlags,
     inputs |-> resize(v.g_movie_inputs, v.length_samples)]

write_movie_impl(v) == [v EXCEPT !.movies[v.g_movie_path] = MovieFile(v)]

write_movie(v) ==
    IF vcr_is_task_recording(v.g_task) THEN write_movie_impl(v) ELSE v

-----------------------------------------------------------------------------
(* Stopping                                                                *)

core_vcr_stop_seek(v) ==
    IF core_vcr_is_seeking(v)
    THEN [v EXCEPT !.seek_to_frame = NoFrame, !.g_warp_modify_active = FALSE]
    ELSE v

vcr_clear_seek_savestates(v) == [v EXCEPT !.g_seek_savestates = << >>]

\* A recording that never started leaves no file behind.  A task that starts
\* from a snapshot is not changed at all.
vcr_stop_record(v) ==
    CASE v.g_task = "task_start_recording_from_reset" ->
            [v EXCEPT !.g_task = "task_idle", !.movies[v.g_movie_path] = NoMovie,
                      !.snapshots[v.g_movie_path] = NoState]
      [] v.g_task = "task_recording" ->
            [write_movie(v) EXCEPT !.g_task = "task_idle"]
      [] OTHER -> v

cht_layer_push(v) == [v EXCEPT !.cheat_layers = @ + 1]
cht_layer_pop(v) == [v EXCEPT !.cheat_layers = @ - 1]

\* Mutant: the cheat layer stays.
vcr_stop_playback_keeping_cheats(v) ==
    IF is_task_playback(v.g_task) THEN [v EXCEPT !.g_task = "task_idle"] ELSE v

vcr_stop_playback(v) ==
    IF is_task_playback(v.g_task)
    THEN cht_layer_pop([v EXCEPT !.g_task = "task_idle"])
    ELSE v

\* The switch has no case for task_start_recording_from_existing_snapshot.  The
\* seek savestates and the task are changed in two critical sections; between
\* them g_task is read without the mutex, and vcr_stop_record and
\* vcr_stop_playback look at it again.  Here the two are one step.
core_vcr_stop_all(v) ==
    LET w == vcr_clear_seek_savestates(v)
    IN  CASE v.g_task \in {"task_start_recording_from_reset",
                           "task_start_recording_from_snapshot",
                           "task_recording"} -> vcr_stop_record(w)
          [] is_task_playback(v.g_task) -> vcr_stop_playback(w)
          [] OTHER -> w

-----------------------------------------------------------------------------
(* Starting                                                                *)

StartFlags == {"MOVIE_START_FROM_NOTHING", "MOVIE_START_FROM_SNAPSHOT",
               "MOVIE_START_FROM_EXISTING_SNAPSHOT"}

\* Mutant: the inputs of the previous movie stay.
new_recording_keeping_inputs(v, path, flags, uid) ==
    [v EXCEPT !.g_movie_path = path, !.vcr_readonly = FALSE, !.uid = uid,
              !.startFlags = flags, !.length_samples = 0]

\* The header and the inputs of a new recording; an existing snapshot counts
\* as a snapshot from then on.
new_recording(v, path, flags, uid) ==
    [v EXCEPT !.g_movie_path = path, !.vcr_readonly = FALSE, !.uid = uid,
              !.startFlags = flags, !.length_samples = 0, !.g_movie_inputs = << >>]

started(v, task) == [v EXCEPT !.g_task = task, !.m_current_sample = 0]

\* core_vcr_start_record when the user declines the warning about raw input
\* data: the current movie has been stopped and the path is the new one.
core_vcr_start_record_declined(v, path) == [core_vcr_stop_all(v) EXCEPT !.g_movie_path = path]

(***************************************************************************)
(* core_vcr_start_record with the warning accepted.  When there is no      *)
(* existing snapshot it returns VCR_InvalidSavestate with the new header   *)
(* in place; VCR_CheatWriteFailed and VCR_InvalidStartType come before     *)
(* anything has changed.                                                   *)
(***************************************************************************)
core_vcr_start_record(v, path, flags, uid) ==
    LET w == new_recording(core_vcr_stop_all(v), path, flags, uid)
    IN  CASE flags = "MOVIE_START_FROM_SNAPSHOT" ->
               st_push(started(w, "task_start_recording_from_snapshot"),
                       StTask("record_snapshot", 0, path, NoState))
          [] flags = "MOVIE_START_FROM_EXISTING_SNAPSHOT" ->
               IF w.snapshots[path] = NoState THEN w
               ELSE submit_task(started([w EXCEPT !.startFlags = "MOVIE_START_FROM_SNAPSHOT"],
                                        "task_start_recording_from_existing_snapshot"),
                                Job("record_existing", 0, path))
          [] OTHER -> started(w, "task_start_recording_from_reset")

new_playback(v, path, file) ==
    [v EXCEPT !.g_movie_path = path, !.uid = file.uid, !.startFlags = file.startFlags,
              !.g_movie_inputs = file.inputs, !.length_samples = Len(file.inputs),
              !.m_current_sample = 0]

start_playback_result(v, path) ==
    IF v.movies[path] = NoMovie THEN "VCR_BadFile"
    ELSE IF /\ v.movies[path].startFlags = "MOVIE_START_FROM_SNAPSHOT"
            /\ v.snapshots[path] = NoState
    THEN "VCR_InvalidSavestate"
    ELSE "Res_Ok"

\* The end of core_vcr_start_playback; a missing snapshot is VCR_InvalidSavestate.
start_playback_task(v, path) ==
    IF v.startFlags # "MOVIE_START_FROM_SNAPSHOT"
    THEN [v EXCEPT !.g_task = "task_start_playback_from_reset"]
    ELSE IF v.snapshots[path] = NoState THEN v
    ELSE submit_task([v EXCEPT !.g_task = "task_start_playback_from_snapshot"],
                     Job("playback_snapshot", 0, path))

\* The cheats of a movie, or none at all, override the host's; nothing is
\* pushed when the movie's .cht cannot be read and the user goes on without it.
push_cheats(v, path) == IF path \in v.unreadable_cht THEN v ELSE cht_layer_push(v)

(***************************************************************************)
(* core_vcr_start_playback with the core executing and every warning       *)
(* accepted (a declined one returns before anything changes).  The file    *)
(* is read before core_vcr_stop_all writes the current recording.          *)
(***************************************************************************)
core_vcr_start_playback(v, path) ==
    IF start_playback_result(v, path) = "VCR_BadFile" THEN v
    ELSE start_playback_task(
           new_playback(core_vcr_stop_all(push_cheats(v, path)), path, v.movies[path]), path)

-----------------------------------------------------------------------------
(* The movie inside a savestate                                            *)

\* core_vcr_freeze without its flush of the movie (write_movie).
core_vcr_freeze(v) ==
    [is_movie |-> v.g_task # "task_idle", uid |-> v.uid,
     current_sample |-> v.m_current_sample, length_samples |-> v.length_samples,
     input_buffer |-> resize(v.g_movie_inputs, v.length_samples)]

unfreeze_result(v, freeze) ==
    IF v.g_task = "task_idle" THEN "VCR_NeedsPlaybackOrRecording"
    ELSE IF freeze.uid # v.uid THEN "VCR_NotFromThisMovie"
    ELSE IF freeze.current_sample > freeze.length_samples /\ v.vcr_readonly
    THEN "VCR_InvalidFrame"
    ELSE "Res_Ok"

\* Read-write: the movie becomes the savestate's up to its sample.
overwrite_inputs(v, freeze) ==
    write_movie([v EXCEPT !.length_samples = freeze.current_sample,
                          !.g_movie_inputs = resize(freeze.input_buffer, freeze.current_sample)])

unfreeze_readwrite(v, freeze) ==
    LET w == [v EXCEPT !.g_task = "task_recording", !.m_current_sample = freeze.current_sample]
    IN  IF v.g_warp_modify_active THEN w ELSE overwrite_inputs(w, freeze)

\* Mutant: the recording is not flushed.
unfreeze_readonly_unflushed(v, freeze) ==
    [v EXCEPT !.g_task = "task_playback", !.m_current_sample = freeze.current_sample]

\* Read-only: the movie stays and is played back from the savestate's sample.
unfreeze_readonly(v, freeze) ==
    [write_movie(v) EXCEPT !.g_task = "task_playback",
                           !.m_current_sample = freeze.current_sample]

\* Mutant: no exception is made for a seek while recording.
core_vcr_unfreeze_overwriting(v, freeze) ==
    IF unfreeze_result(v, freeze) # "Res_Ok" THEN v
    ELSE IF /\ ~v.vcr_readonly
            /\ v.g_task \notin {"task_start_playback_from_reset",
                                "task_start_playback_from_snapshot"}
    THEN unfreeze_readwrite(v, freeze)
    ELSE unfreeze_readonly(v, freeze)

core_vcr_unfreeze(v, freeze) ==
    IF unfreeze_result(v, freeze) # "Res_Ok" THEN v
    ELSE IF v.g_task = "task_recording" /\ core_vcr_is_seeking(v)
    THEN [v EXCEPT !.m_current_sample = freeze.current_sample]
    ELSE IF /\ ~v.vcr_readonly
            /\ v.g_task \notin {"task_start_playback_from_reset",
                                "task_start_playback_from_snapshot"}
    THEN unfreeze_readwrite(v, freeze)
    ELSE unfreeze_readonly(v, freeze)

-----------------------------------------------------------------------------
(* Seeking                                                                 *)

can_seek_to(v, frame) == frame <= v.length_samples /\ frame > 0

\* 0 when there is none before the frame, whether or not one exists at 0.
vcr_find_closest_savestate_before_frame(v, frame) ==
    LET before == {f \in DOMAIN v.g_seek_savestates : f < frame}
    IN  IF before = {} THEN 0
        ELSE CHOOSE f \in before : \A g \in before : g <= f

\* Asks a worker to load the seek savestate at key.
load_seek_savestate(v, key) ==
    submit_task([v EXCEPT !.g_seek_savestate_loading = TRUE], Job("seek_load", key, NoMovie))

WithoutFrames(sts, frames) == [f \in DOMAIN sts \ frames |-> sts[f]]

\* Plays the movie again from its start; the seek is dropped if that fails.
restart_playback(v) ==
    LET w == core_vcr_start_playback(v, v.g_movie_path)
    IN  IF start_playback_result(v, v.g_movie_path) = "Res_Ok" THEN w
        ELSE [w EXCEPT !.seek_to_frame = NoFrame]

rewind_playback(v, frame) ==
    IF v.cfg.seek_savestate_interval # 0
    THEN load_seek_savestate([v EXCEPT !.vcr_readonly = TRUE],
                             vcr_find_closest_savestate_before_frame(v, frame))
    ELSE restart_playback(v)

purge_seek_savestates(v, target) ==
    IF v.vcr_readonly THEN v
    ELSE [v EXCEPT !.g_seek_savestates =
             WithoutFrames(@, {f \in DOMAIN v.g_seek_savestates : f >= target})]

rewind_recording(v, target) ==
    LET w == purge_seek_savestates(v, target)
    IN  load_seek_savestate(w, vcr_find_closest_savestate_before_frame(w, target))

\* The end frame is one earlier when the emulator is to pause there.
seek_end(frame, pause_at_end) == IF pause_at_end THEN frame - 1 ELSE frame

begin_seek_result(v, frame, pause_at_end) ==
    IF core_vcr_is_seeking(v) \/ v.g_seek_savestate_loading THEN "VCR_SeekAlreadyRunning"
    ELSE IF v.g_task = "task_idle" THEN "VCR_Idle"
    ELSE IF ~ (can_seek_to(v, frame) /\ can_seek_to(v, seek_end(frame, pause_at_end)))
    THEN "VCR_InvalidFrame"
    ELSE "Res_Ok"

\* Mutant: a warp modify goes back to the frame it was called at, not to the
\* first edit.
backtrack_to_frame(v, frame, warp_modify) ==
    IF v.m_current_sample <= frame THEN v
    ELSE IF v.g_task = "task_playback" THEN rewind_playback(v, frame)
    ELSE IF v.g_task = "task_recording" /\ v.cfg.seek_savestate_interval # 0
    THEN rewind_recording(v, frame)
    ELSE v

\* The part of vcr_begin_seek_impl that goes back when the frame is in the past.
backtrack(v, frame, warp_modify) ==
    IF v.m_current_sample <= frame THEN v
    ELSE IF v.g_task = "task_playback" THEN rewind_playback(v, frame)
    ELSE IF v.g_task = "task_recording" /\ v.cfg.seek_savestate_interval # 0
    THEN rewind_recording(v, IF warp_modify THEN v.g_warp_modify_first_difference_frame
                             ELSE frame)
    ELSE v

\* A backward seek while recording needs seek savestates; the seek stays set.
interval_zero(v, frame) ==
    /\ v.m_current_sample > frame
    /\ v.g_task = "task_recording"
    /\ v.cfg.seek_savestate_interval = 0

vcr_begin_seek_impl(v, frame, pause_at_end, resume, warp_modify) ==
    LET end == seek_end(frame, pause_at_end)
        w == [v EXCEPT !.seek_to_frame = end, !.g_seek_pause_at_end = pause_at_end]
    IN  IF begin_seek_result(v, frame, pause_at_end) # "Res_Ok" THEN v
        ELSE IF ~warp_modify /\ pause_at_end /\ v.m_current_sample = end + 1
        THEN core_vcr_stop_seek(w)
        ELSE backtrack(IF resume THEN core_vr_resume_emu(w) ELSE w, end, warp_modify)

core_vcr_begin_seek(v, frame, pause_at_end) ==
    vcr_begin_seek_impl(v, frame, pause_at_end, TRUE, FALSE)

-----------------------------------------------------------------------------
(* Warp modify                                                             *)

SetMin(S) == CHOOSE i \in S : \A j \in S : i <= j
SmallerOf(a, b) == IF a <= b THEN a ELSE b

\* 0-based, SizeMax when the inputs are the same.
vcr_find_first_input_difference(first, second) ==
    LET common == SmallerOf(Len(first), Len(second))
        differing == {i \in 1 .. common : first[i] # second[i]}
    IN  IF differing # {} THEN SetMin(differing) - 1
        ELSE IF Len(first) = Len(second) THEN SizeMax
        ELSE IF common = 0 THEN 0 ELSE common - 1

with_inputs(v, inputs) ==
    [v EXCEPT !.g_movie_inputs = inputs, !.length_samples = Len(inputs)]

warp_seek(v, inputs) ==
    LET target == SmallerOf(Len(inputs), v.m_current_sample)
        pause == v.emu_paused \/ v.frame_advance_outstanding > 0
        w == vcr_begin_seek_impl(v, target, pause, FALSE, TRUE)
    IN  IF begin_seek_result(v, target, pause) = "Res_Ok"
           /\ ~interval_zero(v, seek_end(target, pause))
        THEN core_vr_resume_emu([with_inputs(w, inputs) EXCEPT !.g_warp_modify_active = TRUE])
        ELSE w

core_vcr_begin_warp_modify(v, inputs) ==
    LET diff == vcr_find_first_input_difference(v.g_movie_inputs, inputs)
        w == [v EXCEPT !.g_warp_modify_first_difference_frame = diff]
    IN  IF v.g_warp_modify_active \/ v.g_task # "task_recording" \/ inputs = << >> THEN v
        ELSE IF diff = SizeMax THEN w
        ELSE IF diff > v.m_current_sample THEN with_inputs(w, inputs)
        ELSE warp_seek(w, inputs)

-----------------------------------------------------------------------------
(* Controller polls                                                        *)

\* Mutant: the comparison is strict.
vcr_stop_seek_if_exceeded(v) ==
    IF core_vcr_is_seeking(v) /\ v.m_current_sample > v.seek_to_frame
    THEN IF v.g_seek_pause_at_end
         THEN core_vr_pause_emu(core_vcr_stop_seek(v))
         ELSE core_vcr_stop_seek(v)
    ELSE v

vcr_stop_seek_if_needed(v) ==
    IF core_vcr_is_seeking(v) /\ v.m_current_sample >= v.seek_to_frame
    THEN IF v.g_seek_pause_at_end
         THEN core_vr_pause_emu(core_vcr_stop_seek(v))
         ELSE core_vcr_stop_seek(v)
    ELSE v

vcr_handle_starting_tasks(v) ==
    CASE v.g_task = "task_start_recording_from_reset" ->
           submit_task([v EXCEPT !.g_reset_pending = TRUE], Job("record_reset", 0, NoMovie))
      [] v.g_task = "task_start_playback_from_reset" ->
           submit_task([v EXCEPT !.g_reset_pending = TRUE], Job("playback_reset", 0, NoMovie))
      [] OTHER -> v

\* While a long seek runs, savestates that would be purged are not made.
omit_savestate(v) ==
    /\ core_vcr_is_seeking(v)
    /\ v.seek_to_frame - v.m_current_sample
          > v.cfg.seek_savestate_interval * v.cfg.seek_savestate_max_count

\* Mutant: nothing is purged.
purge_nothing(v) == v

\* Makes room by dropping the earliest seek savestate after frame 0.
purge_oldest(v) ==
    LET old == {f \in DOMAIN v.g_seek_savestates : f >= 1 /\ f < v.length_samples}
    IN  IF Cardinality(DOMAIN v.g_seek_savestates) > v.cfg.seek_savestate_max_count /\ old # {}
        THEN [v EXCEPT !.g_seek_savestates = WithoutFrames(@, {SetMin(old)})]
        ELSE v

vcr_create_n_frame_savestate(v, frame) ==
    IF omit_savestate(v) THEN v
    ELSE st_push(purge_oldest(v), StTask("seek_save", frame, NoMovie, NoState))

vcr_create_seek_savestates(v) ==
    IF /\ v.g_task # "task_idle"
       /\ v.cfg.seek_savestate_interval # 0
       /\ v.m_current_sample % v.cfg.seek_savestate_interval = 0
    THEN vcr_create_n_frame_savestate(v, v.m_current_sample)
    ELSE v

\* g_movie_inputs[i], a 0-based access without a bounds check.
input_at(v, i) == IF i < Len(v.g_movie_inputs) THEN v.g_movie_inputs[i + 1] ELSE OutOfRange

use_inputs_from_buffer(v, index) ==
    Len(v.g_movie_inputs) > v.m_current_sample + index \/ v.g_warp_modify_active

recording_input(v, index, keys) ==
    IF v.vcr_reset_requested THEN ResetInput
    ELSE IF use_inputs_from_buffer(v, index) THEN input_at(v, v.m_current_sample + index)
    ELSE keys

append_input(v, input) ==
    [v EXCEPT !.g_movie_inputs = Append(@, input), !.length_samples = @ + 1]

next_sample(v) == [v EXCEPT !.m_current_sample = @ + 1]

user_reset(v) ==
    IF v.vcr_reset_requested
    THEN submit_task([v EXCEPT !.vcr_reset_requested = FALSE, !.g_reset_pending = TRUE],
                     Job("user_reset", 0, NoMovie))
    ELSE v

vcr_handle_recording(v, index, keys) ==
    user_reset(next_sample(IF use_inputs_from_buffer(v, index) THEN v
                           ELSE append_input(v, recording_input(v, index, keys))))

pause_at_movie_end(v) ==
    IF v.cfg.wait_at_movie_end /\ v.m_current_sample = v.length_samples - 1
    THEN core_vr_pause_emu(v) ELSE v

\* Mutant: the movie ends one sample late.
playback_ended_late(v) == v.m_current_sample > v.length_samples

playback_ended(v) == v.m_current_sample >= v.length_samples

movie_ended(v) ==
    IF v.cfg.is_movie_loop_enabled
    THEN core_vcr_start_playback(core_vcr_stop_all(v), v.g_movie_path)
    ELSE core_vcr_stop_all(v)

playback_input(v, index) == input_at(v, v.m_current_sample + index)

movie_reset(v, input) ==
    IF input = ResetInput
    THEN submit_task([v EXCEPT !.g_reset_pending = TRUE], Job("movie_reset", 0, NoMovie))
    ELSE v

\* The movie was recorded with the controllers that are plugged in now.
vcr_handle_playback(v, index) ==
    LET w == pause_at_movie_end(v)
    IN  IF playback_ended(v) THEN movie_ended(w)
        ELSE next_sample(movie_reset(w, playback_input(v, index)))

\* Polls that come while the console is about to be reset or a seek savestate
\* about to be loaded are not part of the movie.
poll_is_skipped(v) == v.g_reset_pending \/ v.g_seek_savestate_loading

before_input(v) ==
    vcr_create_seek_savestates(vcr_handle_starting_tasks(vcr_stop_seek_if_needed(v)))

vcr_on_controller_poll(v, index, keys) ==
    LET w == before_input(v)
    IN  IF poll_is_skipped(v) \/ v.g_task = "task_idle" THEN v
        ELSE CASE w.g_task = "task_recording" -> vcr_handle_recording(w, index, keys)
               [] w.g_task = "task_playback" -> vcr_handle_playback(w, index)
               [] OTHER -> w

\* The input the game gets, or NoInput when it is none of the movie's: the
\* poll is skipped, no movie runs, or the movie has just ended.
NoInput == NoState
polled_input(v, index, keys) ==
    IF poll_is_skipped(v) THEN NoInput
    ELSE CASE v.g_task = "task_recording" -> recording_input(before_input(v), index, keys)
           [] v.g_task = "task_playback" /\ ~playback_ended(v) -> playback_input(v, index)
           [] OTHER -> NoInput

=============================================================================
