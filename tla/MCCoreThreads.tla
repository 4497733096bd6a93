--------------------------- MODULE MCCoreThreads ---------------------------
(* CoreThreads with a thread pool of two threads, and its scenarios.       *)
EXTENDS CoreThreads

Scene(commands, events) == [commands |-> commands, events |-> events, seeking |-> FALSE]
SeekScene(commands, events) == [Scene(commands, events) EXCEPT !.seeking = TRUE]

\* Movies, seeks and savestates while the core runs.
MovieScenes ==
    {SeekScene({"start_playback", "stop_movie"}, {"seek_ends"}),
     Scene({"seek", "slot_load", "stop_movie"}, {"seek_savestate"}),
     Scene({"slot_save", "stop_movie"}, {"movie_loops"}),
     Scene({"seek_slow", "slot_load"}, {})}

\* The movie engine called on the threads of windows.
WindowScenes ==
    {SeekScene({"seeker_stop", "lua_stop_seek"}, {"seek_ends"}),
     Scene({"seeker_start", "slot_load", "lua_stop"}, {"seek_savestate"}),
     Scene({"lua_begin_seek", "seek"}, {})}

\* The life of the core among them.
LifeScenes ==
    {Scene({"close", "start_playback"}, {"movie_ends"}),
     Scene({"start", "close", "pause"}, {}),
     Scene({"reset", "close", "resume"}, {}),
     Scene({"close", "pause", "slot_save"}, {"movie_resets"}),
     Scene({"close", "frame_advance", "slot_save"}, {}),
     Scene({"seek_slow", "reset"}, {}),
     Scene({"close", "seeker_start", "lua_stop"}, {}),
     Scene({"start_record", "close"}, {"movie_ends"}),
     Scene({"core_gives_up", "slot_save", "close"}, {})}

\* A recording is started while a savestate is on its way.
RecordScenes == {Scene({"start_record", "slot_save"}, {})}

Scenes == MovieScenes \cup WindowScenes \cup LifeScenes \cup RecordScenes

=============================================================================
