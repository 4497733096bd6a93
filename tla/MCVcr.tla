------------------------------- MODULE MCVcr --------------------------------
(***************************************************************************)
(* Instances of VcrCore: the scenarios of each run.                        *)
(***************************************************************************)
EXTENDS VcrCore, TLC

CONSTANTS a, b

MCButtons == {a, b}

-----------------------------------------------------------------------------
(* The movie files to begin with                                           *)

Movie(flags, inputs) == [uid |-> 1, startFlags |-> flags, inputs |-> inputs]

NoFiles == {NoMovie}
FromReset == {Movie("MOVIE_START_FROM_NOTHING", <<a, b, a>>)}
WithReset == {Movie("MOVIE_START_FROM_NOTHING", <<a, ResetInput, b>>)}
FromSnapshot == {Movie("MOVIE_START_FROM_SNAPSHOT", <<a, b, a>>)}
FromEither == FromReset \cup FromSnapshot
PerhapsSnapshot == NoFiles \cup FromSnapshot

-----------------------------------------------------------------------------
(* What the user does                                                      *)

Times(n, names) == [op \in names |-> n]

RecordingOps ==
    Times(1, {"MOVIE_START_FROM_SNAPSHOT", "pause", "stop_seek"}) @@ Times(2, {"seek"})
PlaybackOps ==
    Times(1, {"play", "pause", "resume", "frame_advance", "stop_seek"}) @@ Times(2, {"seek"})
ResetRecordingOps == Times(1, {"MOVIE_START_FROM_NOTHING", "decline"}) @@ Times(2, {"reset"})
MovieResetOps == Times(1, {"play", "pause", "resume", "frame_advance", "seek"})
WarpOps ==
    Times(1, {"MOVIE_START_FROM_SNAPSHOT", "pause", "resume", "frame_advance", "paused_warp"})
SavestateOps ==
    Times(1, {"MOVIE_START_FROM_SNAPSHOT", "slot_save", "stop"}) @@ Times(2, {"slot_load"})
CloseAndReset == {"close", "reset"}
FailureOps ==
    {Times(1, CloseAndReset \cup {"MOVIE_START_FROM_NOTHING", "warp"}),
     Times(1, CloseAndReset \cup {"MOVIE_START_FROM_SNAPSHOT", "warp"}),
     Times(1, CloseAndReset \cup {"MOVIE_START_FROM_NOTHING", "MOVIE_START_FROM_SNAPSHOT"})}
FileOps ==
    Times(1, {"MOVIE_START_FROM_EXISTING_SNAPSHOT", "slot_save", "slot_load", "readonly", "stop"})
CheatOps == Times(2, {"play"})
PlaybackSeekOps == Times(1, {"play", "stop_seek"}) @@ Times(2, {"seek"})
RecordingSeekOps == Times(1, {"MOVIE_START_FROM_SNAPSHOT", "seek"})

-----------------------------------------------------------------------------
(* The settings                                                            *)

Settings(interval, max_count) ==
    [seek_savestate_interval |-> interval, seek_savestate_max_count |-> max_count,
     is_reset_recording_enabled |-> FALSE, wait_at_movie_end |-> FALSE,
     is_movie_loop_enabled |-> FALSE, st_undo_load |-> TRUE]

NoSeekSavestates == Settings(0, 3)
SeekSavestates == Settings(1, 3)
OneSeekSavestate == Settings(1, 1)

-----------------------------------------------------------------------------
(* The scenarios                                                           *)

Scenario(cfg, files, user_ops, max_length) ==
    [cfg |-> cfg, files |-> files, ops |-> user_ops, env |-> {}, max_length |-> max_length,
     first_edit |-> 1]

Recording == Scenario(OneSeekSavestate, NoFiles, RecordingOps, 3)
Playback == Scenario(SeekSavestates, FromEither, PlaybackOps, 3)
ResetRecording ==
    Scenario([NoSeekSavestates EXCEPT !.is_reset_recording_enabled = TRUE],
             NoFiles, ResetRecordingOps, 3)
MovieReset ==
    Scenario([NoSeekSavestates EXCEPT !.is_movie_loop_enabled = TRUE], WithReset, MovieResetOps, 3)
Warp == Scenario(SeekSavestates, NoFiles, WarpOps, 3)
SlotSavestates == Scenario(NoSeekSavestates, NoFiles, SavestateOps, 3)

Failures ==
    {[Scenario(SeekSavestates, NoFiles, user_ops, 2) EXCEPT
         !.env = Misfortunes \ {"cht_unreadable"}, !.first_edit = 0] : user_ops \in FailureOps}
Files ==
    [Scenario([NoSeekSavestates EXCEPT !.st_undo_load = FALSE], PerhapsSnapshot, FileOps, 2) EXCEPT
        !.env = {"save_fails"}]
Cheats ==
    [Scenario(NoSeekSavestates, NoFiles \cup FromReset, CheatOps, 2) EXCEPT
        !.env = {"cht_unreadable"}]

PlaybackSeek == Scenario(SeekSavestates, FromEither, PlaybackSeekOps, 3)
RecordingSeek == Scenario(OneSeekSavestate, NoFiles, RecordingSeekOps, 5)

-----------------------------------------------------------------------------
(* The runs                                                                *)

MovieScenarios ==
    {Recording, Playback, ResetRecording, MovieReset, Warp, SlotSavestates, Files, Cheats,
     PlaybackSeek, RecordingSeek} \cup Failures
SeekScenarios == {RecordingSeek}

=============================================================================
