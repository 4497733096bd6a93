--------------------------- MODULE VcrCore_proofs ---------------------------
(***************************************************************************)
(* Proofs about the movie engine and the threads around it, for any        *)
(* scenarios: any settings, movie files, commands of the user, lengths and *)
(* misfortunes, and any number of controllers.                             *)
(***************************************************************************)
EXTENDS VcrCore, FiniteSetTheorems, SequenceTheorems, WellFoundedInduction, TLAPS

-----------------------------------------------------------------------------
(* Sequences                                                               *)

IsSeq(q) == \E S : q \in Seq(S)

\* st_push puts an element at the front.
LEMMA PushFront ==
    ASSUME NEW q, IsSeq(q), NEW t
    PROVE  /\ IsSeq(<<t>> \o q)
           /\ Len(q) \in Nat
           /\ Len(<<t>> \o q) = Len(q) + 1
           /\ \A i \in 1 .. Len(<<t>> \o q) :
                 (<<t>> \o q)[i] = IF i = 1 THEN t ELSE q[i - 1]
<1>1. PICK S : q \in Seq(S)
  BY DEF IsSeq
<1>2. q \in Seq(S \cup {t}) /\ <<t>> \in Seq(S \cup {t})
  BY <1>1
<1>3. <<t>> \o q \in Seq(S \cup {t})
  BY <1>2
<1>4. Len(<<t>> \o q) = Len(q) + 1 /\ Len(q) \in Nat
  BY <1>2
<1>5. \A i \in 1 .. Len(q) + 1 : (<<t>> \o q)[i] = IF i = 1 THEN t ELSE q[i - 1]
  BY <1>2
<1> QED BY <1>3, <1>4, <1>5 DEF IsSeq

\* submit_task puts an element at the end.
LEMMA PushBack ==
    ASSUME NEW q, IsSeq(q), NEW t
    PROVE  /\ IsSeq(Append(q, t))
           /\ Len(q) \in Nat
           /\ Len(Append(q, t)) = Len(q) + 1
           /\ \A i \in 1 .. Len(Append(q, t)) :
                 Append(q, t)[i] = IF i <= Len(q) THEN q[i] ELSE t
<1>1. PICK S : q \in Seq(S)
  BY DEF IsSeq
<1>2. q \in Seq(S \cup {t})
  BY <1>1
<1>3. Append(q, t) \in Seq(S \cup {t})
  BY <1>2
<1>4. Len(Append(q, t)) = Len(q) + 1 /\ Len(q) \in Nat
  BY <1>2
<1>5. \A i \in 1 .. Len(q) + 1 : Append(q, t)[i] = IF i <= Len(q) THEN q[i] ELSE t
  BY <1>2
<1> QED BY <1>3, <1>4, <1>5 DEF IsSeq

\* A worker takes a job out of the queue.
LEMMA TakenOut ==
    ASSUME NEW q, IsSeq(q), NEW j \in 1 .. Len(q)
    PROVE  /\ IsSeq(RemoveIndex(q, j))
           /\ Len(q) \in Nat
           /\ Len(RemoveIndex(q, j)) = Len(q) - 1
           /\ \A i \in 1 .. Len(q) - 1 :
                 RemoveIndex(q, j)[i] = IF i < j THEN q[i] ELSE q[i + 1]
<1>1. PICK S : q \in Seq(S)
  BY DEF IsSeq
<1>2. Len(q) \in Nat /\ Len(q) - 1 \in Nat
  BY <1>1
<1>3. \A i \in 1 .. Len(q) - 1 : q[i] \in S /\ q[i + 1] \in S
  BY <1>1
<1>4. RemoveIndex(q, j) \in [1 .. Len(q) - 1 -> S]
  BY <1>3 DEF RemoveIndex
<1>5. RemoveIndex(q, j) \in Seq(S)
  BY <1>2, <1>4, SeqDef
<1>6. Len(RemoveIndex(q, j)) = Len(q) - 1
  BY <1>2, <1>4, <1>5, LenProperties
<1> QED BY <1>2, <1>5, <1>6 DEF RemoveIndex, IsSeq

\* resize makes n inputs out of any.
LEMMA Resized ==
    ASSUME NEW s \in Seq(Input), NEW n \in Nat
    PROVE  /\ resize(s, n) \in Seq(Input)
           /\ Len(resize(s, n)) = n
<1>1. \A i \in 1 .. n : (IF i <= Len(s) THEN s[i] ELSE OutOfRange) \in Input
  BY DEF Input
<1>2. resize(s, n) \in [1 .. n -> Input]
  BY <1>1 DEF resize
<1>3. resize(s, n) \in Seq(Input)
  BY <1>2, SeqDef
<1> QED BY <1>2, <1>3, LenProperties

\* write_movie_impl writes all inputs when the header has their number.
LEMMA ResizedToLength ==
    ASSUME NEW s \in Seq(Input)
    PROVE  resize(s, Len(s)) = s
<1>1. resize(s, Len(s)) = [i \in 1 .. Len(s) |-> s[i]]
  BY DEF resize
<1>2. s = [i \in 1 .. Len(s) |-> s[i]]
  BY SeqDef, LenProperties
<1> QED BY <1>1, <1>2

-----------------------------------------------------------------------------
(* The invariant                                                           *)

VFields ==
    {"g_task", "seek_to_frame", "g_seek_pause_at_end", "g_seek_savestate_loading",
     "g_reset_pending", "g_seek_savestates", "g_warp_modify_active",
     "g_warp_modify_first_difference_frame", "uid", "startFlags", "length_samples",
     "g_movie_inputs", "g_movie_path", "m_current_sample", "vcr_reset_requested", "cfg",
     "vcr_readonly", "emu_paused", "frame_advance_outstanding", "core_executing",
     "cheat_layers", "movies", "snapshots", "unreadable_cht", "g_tasks", "jobs"}

\* Savestates, as far as the engine relies on them: one of a movie knows its sample.
Frozen(st) ==
    st # NoState =>
        /\ st.freeze.input_buffer \in Seq(Input)
        /\ st.freeze.is_movie => st.freeze.current_sample \in Nat

\* The header and the inputs.
MovieOK(v) ==
    /\ v.g_movie_inputs \in Seq(Input)
    /\ v.length_samples = Len(v.g_movie_inputs)
    /\ v.uid \in Nat
    /\ v.startFlags \in StartFlags

FilesOK(v) ==
    /\ v.movies \in [Movies -> MovieFiles \cup {NoMovie}]
    /\ DOMAIN v.snapshots = Movies
    /\ \A p \in Movies : Frozen(v.snapshots[p])

\* Loads from a snapshot name one.
NamesSnapshot(t) == t.what \in {"record_existing", "playback_snapshot"} => t.path \in Movies

JobsOK(q) == IsSeq(q) /\ \A i \in 1 .. Len(q) : NamesSnapshot(q[i])
TasksOK(q) == IsSeq(q) /\ \A i \in 1 .. Len(q) : NamesSnapshot(q[i]) /\ Frozen(q[i].st)

SeekSavestatesOK(v) == \A f \in DOMAIN v.g_seek_savestates : Frozen(v.g_seek_savestates[f])

\* The jobs and the tasks whose callbacks start a movie.
Starts == {"record_snapshot", "record_existing", "playback_snapshot", "record_reset",
           "playback_reset"}
StartAhead(q) == \E i \in 1 .. Len(q) : q[i].what \in Starts

\* A movie was started in this process; m_current_sample and g_movie_path are never
\* reset after that.
Begun(v) == v.m_current_sample \in Nat /\ v.g_movie_path \in Movies

BegunOK(v) ==
    (v.g_task # "task_idle" \/ StartAhead(v.jobs) \/ StartAhead(v.g_tasks)) => Begun(v)

Engine(v) ==
    /\ DOMAIN v = VFields
    /\ MovieOK(v)
    /\ FilesOK(v)
    /\ JobsOK(v.jobs)
    /\ TasksOK(v.g_tasks)
    /\ SeekSavestatesOK(v)
    /\ BegunOK(v)

Inv ==
    /\ Engine(vcr)
    /\ Frozen(slot)
    /\ recordings \in Nat
    /\ next \in Nat \ {0}
    /\ reset.what \in Starts => Begun(vcr)

-----------------------------------------------------------------------------
(* Queues                                                                  *)

\* A new savestate task.
LEMMA TaskPushed ==
    ASSUME NEW q, TasksOK(q), NEW t, NamesSnapshot(t), Frozen(t.st)
    PROVE  /\ TasksOK(<<t>> \o q)
           /\ StartAhead(<<t>> \o q) => t.what \in Starts \/ StartAhead(q)
<1> DEFINE r == <<t>> \o q
<1>1. /\ IsSeq(r) /\ Len(q) \in Nat /\ Len(r) = Len(q) + 1
      /\ \A i \in 1 .. Len(r) : r[i] = IF i = 1 THEN t ELSE q[i - 1]
  BY PushFront DEF TasksOK
<1> HIDE DEF r
<1>2. \A i \in 1 .. Len(r) : i # 1 => i - 1 \in 1 .. Len(q)
  BY <1>1
<1>3. TasksOK(r)
  BY <1>1, <1>2 DEF TasksOK
<1>4. StartAhead(r) => t.what \in Starts \/ StartAhead(q)
  BY <1>1, <1>2 DEF StartAhead
<1> QED BY <1>3, <1>4 DEF r

\* A new job.
LEMMA JobPushed ==
    ASSUME NEW q, JobsOK(q), NEW t, NamesSnapshot(t)
    PROVE  /\ JobsOK(Append(q, t))
           /\ StartAhead(Append(q, t)) => t.what \in Starts \/ StartAhead(q)
<1> DEFINE r == Append(q, t)
<1>1. /\ IsSeq(r) /\ Len(q) \in Nat /\ Len(r) = Len(q) + 1
      /\ \A i \in 1 .. Len(r) : r[i] = IF i <= Len(q) THEN q[i] ELSE t
  BY PushBack DEF JobsOK
<1> HIDE DEF r
<1>2. \A i \in 1 .. Len(r) : i <= Len(q) => i \in 1 .. Len(q)
  BY <1>1
<1>3. JobsOK(r)
  BY <1>1, <1>2 DEF JobsOK
<1>4. StartAhead(r) => t.what \in Starts \/ StartAhead(q)
  BY <1>1, <1>2 DEF StartAhead
<1> QED BY <1>3, <1>4 DEF r

\* A job that a worker has taken.
LEMMA JobTaken ==
    ASSUME NEW q, JobsOK(q), NEW j \in 1 .. Len(q)
    PROVE  /\ JobsOK(RemoveIndex(q, j))
           /\ StartAhead(RemoveIndex(q, j)) => StartAhead(q)
<1> DEFINE r == RemoveIndex(q, j)
<1>1. /\ IsSeq(r) /\ Len(q) \in Nat /\ Len(r) = Len(q) - 1
      /\ \A i \in 1 .. Len(r) : r[i] = IF i < j THEN q[i] ELSE q[i + 1]
  BY TakenOut DEF JobsOK
<1> HIDE DEF r
<1>2. \A i \in 1 .. Len(r) : i \in 1 .. Len(q) /\ i + 1 \in 1 .. Len(q)
  BY <1>1
<1>3. JobsOK(r)
  BY <1>1, <1>2 DEF JobsOK
<1>4. StartAhead(r) => StartAhead(q)
  BY <1>1, <1>2 DEF StartAhead
<1> QED BY <1>3, <1>4 DEF r

\* Empty queues.
LEMMA EmptyQueues == JobsOK(<< >>) /\ TasksOK(<< >>) /\ ~StartAhead(<< >>)
<1>1. << >> \in Seq({}) /\ Len(<< >>) = 0
  OBVIOUS
<1>2. IsSeq(<< >>)
  BY <1>1 DEF IsSeq
<1>3. 1 .. 0 = {}
  OBVIOUS
<1> QED BY <1>1, <1>2, <1>3 DEF JobsOK, TasksOK, StartAhead

-----------------------------------------------------------------------------
(* What the functions of vcr.cpp do to the fields the invariant is about   *)

SameMovie(v, w) ==
    /\ w.g_movie_inputs = v.g_movie_inputs /\ w.length_samples = v.length_samples
    /\ w.uid = v.uid /\ w.startFlags = v.startFlags
SamePlace(v, w) == w.m_current_sample = v.m_current_sample /\ w.g_movie_path = v.g_movie_path
SameFiles(v, w) ==
    /\ w.movies = v.movies /\ w.snapshots = v.snapshots
    /\ w.unreadable_cht = v.unreadable_cht
SameQueues(v, w) ==
    w.jobs = v.jobs /\ w.g_tasks = v.g_tasks /\ w.g_seek_savestates = v.g_seek_savestates

\* Only fields that the invariant is not about.
Quiet(v, w) ==
    /\ DOMAIN w = VFields
    /\ SameMovie(v, w) /\ SamePlace(v, w) /\ SameFiles(v, w) /\ SameQueues(v, w)
    /\ w.g_task = v.g_task

LEMMA QuietTransitive ==
    ASSUME NEW u, NEW v, NEW w, Quiet(u, v), Quiet(v, w) PROVE Quiet(u, w)
  BY DEF Quiet, SameMovie, SamePlace, SameFiles, SameQueues

LEMMA QuietKeeps ==
    ASSUME NEW v, NEW w, Engine(v), Quiet(v, w) PROVE Engine(w) /\ (Begun(v) => Begun(w))
  BY DEF Engine, Quiet, SameMovie, SamePlace, SameFiles, SameQueues, MovieOK, FilesOK,
         SeekSavestatesOK, BegunOK, Begun

LEMMA QuietSelf == ASSUME NEW v, DOMAIN v = VFields PROVE Quiet(v, v)
  BY DEF Quiet, SameMovie, SamePlace, SameFiles, SameQueues

\* Pausing, resuming and the counter of frame advances.
LEMMA PausingQuiet ==
    ASSUME NEW v, DOMAIN v = VFields
    PROVE  /\ Quiet(v, core_vr_pause_emu(v))
           /\ \A force \in BOOLEAN : Quiet(v, core_vr_resume_emu_impl(v, force))
           /\ Quiet(v, core_vr_resume_emu(v))
           /\ \A n : Quiet(v, core_vr_frame_advance(v, n))
           /\ Quiet(v, core_vcr_stop_seek(v))
           /\ Quiet(v, stop_frame_advance(v))
           /\ Quiet(v, no_reset_pending(v))
<1> USE DEF VFields, Quiet, SameMovie, SamePlace, SameFiles, SameQueues
<1>1. Quiet(v, core_vr_pause_emu(v))
  BY DEF core_vr_pause_emu
<1>2. \A force : Quiet(v, core_vr_resume_emu_impl(v, force))
  BY DEF core_vr_resume_emu_impl
<1>3. Quiet(v, core_vcr_stop_seek(v)) /\ Quiet(v, stop_frame_advance(v))
  BY DEF core_vcr_stop_seek, stop_frame_advance
<1>4. Quiet(v, no_reset_pending(v))
  BY DEF no_reset_pending
<1>5. ASSUME NEW n PROVE Quiet(v, core_vr_frame_advance(v, n))
  <2> DEFINE w == [v EXCEPT !.frame_advance_outstanding = n]
  <2>1. Quiet(v, w)
    OBVIOUS
  <2>2. DOMAIN w = VFields
    OBVIOUS
  <2>3. Quiet(w, core_vr_resume_emu_impl(w, FALSE))
    <3> HIDE DEF w
    <3> QED BY <2>2 DEF core_vr_resume_emu_impl
  <2> HIDE DEF w, Quiet
  <2>4. Quiet(v, core_vr_resume_emu_impl(w, FALSE))
    BY <2>1, <2>3, QuietTransitive
  <2>5. Quiet(v, v)
    BY QuietSelf
  <2> QED BY <2>4, <2>5 DEF core_vr_frame_advance, core_vr_resume_emu, w
<1> HIDE DEF Quiet
<1> QED BY <1>1, <1>2, <1>3, <1>4, <1>5 DEF core_vr_resume_emu

\* write_movie: the file of a recording gets exactly its inputs; nothing else changes.
LEMMA WritesMovie ==
    ASSUME NEW v, Engine(v)
    PROVE  /\ Engine(write_movie(v))
           /\ SameMovie(v, write_movie(v)) /\ SamePlace(v, write_movie(v))
           /\ SameQueues(v, write_movie(v))
           /\ write_movie(v).snapshots = v.snapshots
           /\ write_movie(v).g_task = v.g_task
           /\ v.g_task = "task_recording" =>
                 /\ v.g_movie_path \in Movies
                 /\ write_movie(v).movies[v.g_movie_path] # NoMovie
                 /\ write_movie(v).movies[v.g_movie_path].inputs = v.g_movie_inputs
<1> DEFINE w == write_movie(v)
           file == MovieFile(v)
<1>1. file \in MovieFiles /\ file.inputs = v.g_movie_inputs
  <2>1. resize(v.g_movie_inputs, v.length_samples) = v.g_movie_inputs
    BY ResizedToLength DEF Engine, MovieOK
  <2> QED BY <2>1 DEF MovieFile, MovieFiles, Engine, MovieOK
<1>2. CASE ~vcr_is_task_recording(v.g_task)
  <2>1. w = v
    BY <1>2 DEF write_movie
  <2>2. v.g_task # "task_recording"
    BY <1>2 DEF vcr_is_task_recording
  <2> QED BY <2>1, <2>2 DEF SameMovie, SamePlace, SameQueues
<1>3. CASE vcr_is_task_recording(v.g_task)
  <2> HIDE DEF file
  <2>1. w = [v EXCEPT !.movies[v.g_movie_path] = file]
    BY <1>3 DEF write_movie, write_movie_impl, file
  <2> HIDE DEF w
  <2>2. /\ DOMAIN w = VFields /\ SameMovie(v, w) /\ SamePlace(v, w) /\ SameQueues(v, w)
        /\ w.snapshots = v.snapshots /\ w.g_task = v.g_task
        /\ w.movies = [v.movies EXCEPT ![v.g_movie_path] = file]
    BY <2>1 DEF Engine, VFields, SameMovie, SamePlace, SameQueues
  <2>3. w.movies \in [Movies -> MovieFiles \cup {NoMovie}]
    BY <1>1, <2>2 DEF Engine, FilesOK
  <2>4. Engine(w)
    BY <2>2, <2>3 DEF Engine, SameMovie, SamePlace, SameQueues, MovieOK, FilesOK,
       SeekSavestatesOK, BegunOK, Begun
  <2>5. ASSUME v.g_task = "task_recording"
        PROVE  /\ v.g_movie_path \in Movies
               /\ w.movies[v.g_movie_path] = file
    <3>1. v.g_movie_path \in Movies
      BY <2>5 DEF Engine, BegunOK, Begun
    <3> QED BY <3>1, <2>2 DEF Engine, FilesOK
  <2> QED BY <1>1, <2>2, <2>4, <2>5, NoMovieAssumption DEF w
<1> QED BY <1>2, <1>3

\* core_vcr_stop_all: a recording ends with its inputs in the file, and the header,
\* the inputs and the queues stay.
Stopped(v, w) ==
    /\ Engine(w)
    /\ SameMovie(v, w) /\ SamePlace(v, w)
    /\ w.jobs = v.jobs /\ w.g_tasks = v.g_tasks
    /\ v.g_task = "task_recording" =>
          /\ v.g_movie_path \in Movies
          /\ w.movies[v.g_movie_path] # NoMovie
          /\ w.movies[v.g_movie_path].inputs = v.g_movie_inputs
    /\ v.g_task \notin {"task_recording", "task_start_recording_from_reset"} =>
          w.movies = v.movies

LEMMA StopsAll == ASSUME NEW v, Engine(v) PROVE Stopped(v, core_vcr_stop_all(v))
<1> DEFINE u == vcr_clear_seek_savestates(v)
           w == core_vcr_stop_all(v)
<1>1. /\ DOMAIN u = VFields /\ SameMovie(v, u) /\ SamePlace(v, u) /\ SameFiles(v, u)
      /\ u.jobs = v.jobs /\ u.g_tasks = v.g_tasks /\ u.g_task = v.g_task
      /\ u.g_seek_savestates = << >>
  BY DEF vcr_clear_seek_savestates, Engine, VFields, SameMovie, SamePlace, SameFiles
<1> HIDE DEF u
<1>2. Engine(u)
  <2>1. DOMAIN << >> = {}
    OBVIOUS
  <2> QED BY <1>1, <2>1 DEF Engine, SameMovie, SamePlace, SameFiles, MovieOK, FilesOK,
         SeekSavestatesOK, BegunOK, Begun
<1>3. CASE v.g_task = "task_recording"
  <2> DEFINE x == write_movie(u)
  <2>1. /\ Engine(x) /\ SameMovie(u, x) /\ SamePlace(u, x) /\ SameQueues(u, x)
        /\ u.g_movie_path \in Movies /\ x.movies[u.g_movie_path] # NoMovie
        /\ x.movies[u.g_movie_path].inputs = u.g_movie_inputs
    BY <1>1, <1>2, <1>3, WritesMovie
  <2>2. w = [x EXCEPT !.g_task = "task_idle"]
    BY <1>1, <1>3 DEF core_vcr_stop_all, vcr_stop_record, is_task_playback, u
  <2> HIDE DEF x, w
  <2>3. /\ DOMAIN w = VFields /\ SameMovie(x, w) /\ SamePlace(x, w) /\ SameFiles(x, w)
        /\ SameQueues(x, w) /\ w.g_task = "task_idle"
    BY <2>1, <2>2 DEF Engine, VFields, SameMovie, SamePlace, SameFiles, SameQueues
  <2>4. Engine(w)
    BY <2>1, <2>3 DEF Engine, SameMovie, SamePlace, SameFiles, SameQueues, MovieOK, FilesOK,
       SeekSavestatesOK, BegunOK, Begun
  <2>5. Stopped(v, w)
    BY <1>1, <1>3, <2>1, <2>3, <2>4 DEF Stopped, SameMovie, SamePlace, SameFiles, SameQueues
  <2> QED BY <2>5 DEF w
<1>4. CASE v.g_task = "task_start_recording_from_reset"
  <2>1. w = [u EXCEPT !.g_task = "task_idle", !.movies[u.g_movie_path] = NoMovie,
                      !.snapshots[u.g_movie_path] = NoState]
    BY <1>1, <1>4 DEF core_vcr_stop_all, vcr_stop_record, is_task_playback, u
  <2> HIDE DEF w
  <2>2. /\ DOMAIN w = VFields /\ SameMovie(u, w) /\ SamePlace(u, w) /\ SameQueues(u, w)
        /\ w.g_task = "task_idle"
        /\ w.movies = [u.movies EXCEPT ![u.g_movie_path] = NoMovie]
        /\ w.snapshots = [u.snapshots EXCEPT ![u.g_movie_path] = NoState]
    BY <1>1, <2>1 DEF VFields, SameMovie, SamePlace, SameQueues
  <2>3. w.movies \in [Movies -> MovieFiles \cup {NoMovie}]
    BY <1>2, <2>2 DEF Engine, FilesOK
  <2>4. DOMAIN w.snapshots = Movies /\ \A p \in Movies : Frozen(w.snapshots[p])
    <3>1. \A p \in Movies : w.snapshots[p] = NoState \/ w.snapshots[p] = u.snapshots[p]
      BY <1>2, <2>2 DEF Engine, FilesOK
    <3> QED BY <1>2, <2>2, <3>1 DEF Engine, FilesOK, Frozen
  <2>5. Engine(w)
    BY <1>2, <2>2, <2>3, <2>4 DEF Engine, SameMovie, SamePlace, SameQueues, MovieOK, FilesOK,
       SeekSavestatesOK, BegunOK, Begun
  <2>6. Stopped(v, w)
    BY <1>1, <1>4, <2>2, <2>5 DEF Stopped, SameMovie, SamePlace, SameQueues
  <2> QED BY <2>6 DEF w
<1>5. CASE is_task_playback(v.g_task)
  <2>1. w = [[u EXCEPT !.g_task = "task_idle"] EXCEPT !.cheat_layers = @ - 1]
    BY <1>1, <1>5 DEF core_vcr_stop_all, vcr_stop_playback, is_task_playback, cht_layer_pop, u
  <2> HIDE DEF w
  <2>2. /\ DOMAIN w = VFields /\ SameMovie(u, w) /\ SamePlace(u, w) /\ SameQueues(u, w)
        /\ SameFiles(u, w) /\ w.g_task = "task_idle"
    BY <1>1, <2>1 DEF VFields, SameMovie, SamePlace, SameQueues, SameFiles
  <2>3. Engine(w)
    BY <1>2, <2>2 DEF Engine, SameMovie, SamePlace, SameFiles, SameQueues, MovieOK, FilesOK,
       SeekSavestatesOK, BegunOK, Begun
  <2>4. Stopped(v, w)
    BY <1>1, <1>5, <2>2, <2>3
    DEF Stopped, SameMovie, SamePlace, SameFiles, SameQueues, is_task_playback
  <2> QED BY <2>4 DEF w
<1>6. CASE /\ v.g_task # "task_recording"
           /\ v.g_task # "task_start_recording_from_reset"
           /\ ~is_task_playback(v.g_task)
  <2>1. w = u
    BY <1>1, <1>6 DEF core_vcr_stop_all, vcr_stop_record, u
  <2> QED BY <1>1, <1>2, <1>6, <2>1 DEF Stopped, SameFiles
<1> QED BY <1>3, <1>4, <1>5, <1>6

\* A recording that ends is in its file, with the inputs it had or has now.
Flushed(v, w) ==
    (v.g_task = "task_recording" /\ w.g_task # "task_recording") =>
        /\ w.movies[v.g_movie_path] # NoMovie
        /\ w.movies[v.g_movie_path].inputs \in {v.g_movie_inputs, w.g_movie_inputs}

\* What every call of the engine does, but for the callbacks of a playback.
Goes(v, w) == Engine(w) /\ (Begun(v) => Begun(w)) /\ Flushed(v, w)

LEMMA QuietGoes == ASSUME NEW v, NEW w, Engine(v), Quiet(v, w) PROVE Goes(v, w)
  BY QuietKeeps DEF Goes, Flushed, Quiet

LEMMA QuietThenGoes ==
    ASSUME NEW u, NEW v, NEW w, Engine(u), Quiet(u, v), Goes(v, w) PROVE Goes(u, w)
  BY QuietKeeps DEF Goes, Flushed, Quiet, SameMovie, SamePlace

LEMMA GoesThenQuiet ==
    ASSUME NEW u, NEW v, NEW w, Goes(u, v), Quiet(v, w) PROVE Goes(u, w)
  BY QuietKeeps DEF Goes, Flushed, Quiet, SameMovie, SameFiles

LEMMA GoesNowhere == ASSUME NEW v, Engine(v) PROVE Goes(v, v)
  BY DEF Goes, Flushed

\* Calls that leave the movie and its file alone.
Calm(v, w) ==
    /\ Engine(w) /\ (Begun(v) => Begun(w))
    /\ w.g_task = v.g_task /\ w.movies = v.movies
    /\ w.g_movie_path = v.g_movie_path /\ w.g_movie_inputs = v.g_movie_inputs

LEMMA CalmGoes == ASSUME NEW v, NEW w, Calm(v, w) PROVE Goes(v, w)
  BY DEF Calm, Goes, Flushed

LEMMA CalmTransitive == ASSUME NEW u, NEW v, NEW w, Calm(u, v), Calm(v, w) PROVE Calm(u, w)
  BY DEF Calm

LEMMA CalmThenGoes == ASSUME NEW u, NEW v, NEW w, Calm(u, v), Goes(v, w) PROVE Goes(u, w)
  BY DEF Calm, Goes, Flushed

LEMMA GoesThenCalm == ASSUME NEW u, NEW v, NEW w, Goes(u, v), Calm(v, w) PROVE Goes(u, w)
  BY DEF Calm, Goes, Flushed

LEMMA QuietCalm == ASSUME NEW v, NEW w, Engine(v), Quiet(v, w) PROVE Calm(v, w)
  BY QuietKeeps DEF Calm, Quiet, SameMovie, SamePlace, SameFiles

LEMMA StoppedGoes == ASSUME NEW v, NEW w, Stopped(v, w) PROVE Goes(v, w)
  BY DEF Stopped, Goes, Flushed, SamePlace, Begun

\* A savestate request of the engine or the user.
LEMMA TaskRequested ==
    ASSUME NEW v, Engine(v), NEW t, NamesSnapshot(t), Frozen(t.st), t.what \in Starts => Begun(v)
    PROVE  Calm(v, st_push(v, t))
<1> DEFINE w == st_push(v, t)
<1>1. /\ DOMAIN w = VFields /\ SameMovie(v, w) /\ SamePlace(v, w) /\ SameFiles(v, w)
      /\ w.jobs = v.jobs /\ w.g_seek_savestates = v.g_seek_savestates /\ w.g_task = v.g_task
      /\ w.g_tasks = <<t>> \o v.g_tasks
  BY DEF st_push, Engine, VFields, SameMovie, SamePlace, SameFiles
<1> HIDE DEF w
<1>2. TasksOK(w.g_tasks) /\ (StartAhead(w.g_tasks) => t.what \in Starts \/ StartAhead(v.g_tasks))
  BY <1>1, TaskPushed DEF Engine
<1>3. Engine(w)
  BY <1>1, <1>2 DEF Engine, SameMovie, SamePlace, SameFiles, MovieOK, FilesOK,
     SeekSavestatesOK, BegunOK, Begun
<1>4. Calm(v, w)
  BY <1>1, <1>3 DEF Calm, SameMovie, SamePlace, SameFiles, Begun
<1> QED BY <1>4 DEF w

\* A job for the workers.
LEMMA JobSubmitted ==
    ASSUME NEW v, Engine(v), NEW j, NamesSnapshot(j), j.what \in Starts => Begun(v)
    PROVE  Calm(v, submit_task(v, j))
<1> DEFINE w == submit_task(v, j)
<1>1. /\ DOMAIN w = VFields /\ SameMovie(v, w) /\ SamePlace(v, w) /\ SameFiles(v, w)
      /\ w.g_tasks = v.g_tasks /\ w.g_seek_savestates = v.g_seek_savestates /\ w.g_task = v.g_task
      /\ w.jobs = Append(v.jobs, j)
  BY DEF submit_task, Engine, VFields, SameMovie, SamePlace, SameFiles
<1> HIDE DEF w
<1>2. JobsOK(w.jobs) /\ (StartAhead(w.jobs) => j.what \in Starts \/ StartAhead(v.jobs))
  BY <1>1, JobPushed DEF Engine
<1>3. Engine(w)
  BY <1>1, <1>2 DEF Engine, SameMovie, SamePlace, SameFiles, MovieOK, FilesOK,
     SeekSavestatesOK, BegunOK, Begun
<1>4. Calm(v, w)
  BY <1>1, <1>3 DEF Calm, SameMovie, SamePlace, SameFiles, Begun
<1> QED BY <1>4 DEF w

\* The fields of requests.
LEMMA RequestFields ==
    ASSUME NEW what, NEW frame, NEW path, NEW st
    PROVE  /\ StTask(what, frame, path, st).what = what
           /\ StTask(what, frame, path, st).path = path
           /\ StTask(what, frame, path, st).st = st
           /\ Job(what, frame, path).what = what
           /\ Job(what, frame, path).path = path
           /\ Job(what, frame, path).frame = frame
  BY DEF StTask, Job

LEMMA NothingFrozen == Frozen(NoState)
  BY DEF Frozen

\* A movie that starts at sample 0.
LEMMA MovieStarted ==
    ASSUME NEW v, Engine(v), v.g_movie_path \in Movies, NEW task
    PROVE  /\ Engine(started(v, task)) /\ Begun(started(v, task))
           /\ started(v, task).movies = v.movies
           /\ started(v, task).g_task = task
           /\ started(v, task).g_movie_inputs = v.g_movie_inputs
           /\ started(v, task).g_movie_path = v.g_movie_path
<1> DEFINE w == started(v, task)
<1>1. /\ DOMAIN w = VFields /\ SameMovie(v, w) /\ SameFiles(v, w) /\ SameQueues(v, w)
      /\ w.g_movie_path = v.g_movie_path /\ w.m_current_sample = 0 /\ w.g_task = task
  BY DEF started, Engine, VFields, SameMovie, SameFiles, SameQueues
<1> HIDE DEF w
<1>2. Begun(w)
  BY <1>1 DEF Begun
<1>3. Engine(w)
  BY <1>1, <1>2 DEF Engine, SameMovie, SameFiles, SameQueues, MovieOK, FilesOK,
     SeekSavestatesOK, BegunOK
<1> QED BY <1>1, <1>2, <1>3 DEF w, SameFiles, SameMovie

\* core_vcr_start_record.
LEMMA StartsRecord ==
    ASSUME NEW v, Engine(v), NEW path \in Movies, NEW flags \in StartFlags, NEW uid \in Nat
    PROVE  Goes(v, core_vcr_start_record(v, path, flags, uid))
<1> DEFINE x == core_vcr_stop_all(v)
           y == new_recording(x, path, flags, uid)
           w == core_vcr_start_record(v, path, flags, uid)
<1>1. Stopped(v, x)
  BY StopsAll
<1>2. Engine(x)
  BY <1>1 DEF Stopped
<1> HIDE DEF x
<1>3. /\ DOMAIN y = VFields /\ SameFiles(x, y) /\ SameQueues(x, y) /\ y.g_task = x.g_task
      /\ y.g_movie_path = path /\ y.m_current_sample = x.m_current_sample
      /\ y.uid = uid /\ y.startFlags = flags /\ y.length_samples = 0 /\ y.g_movie_inputs = << >>
  BY <1>2 DEF new_recording, Engine, VFields, SameFiles, SameQueues
<1> HIDE DEF y
<1>4. Engine(y) /\ (Begun(x) => Begun(y))
  <2>1. << >> \in Seq(Input) /\ Len(<< >>) = 0
    OBVIOUS
  <2> QED BY <1>2, <1>3, <2>1 DEF Engine, SameFiles, SameQueues, MovieOK, FilesOK,
         SeekSavestatesOK, BegunOK, Begun
<1>5. Engine(w) /\ (Begun(y) => Begun(w)) /\ w.movies = y.movies
  <2>1. CASE flags = "MOVIE_START_FROM_SNAPSHOT"
    <3> DEFINE z == started(y, "task_start_recording_from_snapshot")
               t == StTask("record_snapshot", 0, path, NoState)
    <3>1. Engine(z) /\ Begun(z) /\ z.movies = y.movies
      BY <1>3, <1>4, MovieStarted
    <3>2. NamesSnapshot(t) /\ Frozen(t.st)
      BY RequestFields, NothingFrozen DEF NamesSnapshot
    <3>3. w = st_push(z, t)
      BY <2>1 DEF core_vcr_start_record, y, x
    <3> HIDE DEF z, t, w
    <3> QED BY <3>1, <3>2, <3>3, TaskRequested DEF Calm
  <2>2. CASE flags = "MOVIE_START_FROM_EXISTING_SNAPSHOT" /\ y.snapshots[path] = NoState
    <3>1. w = y
      BY <2>2 DEF core_vcr_start_record, y, x
    <3> QED BY <1>4, <3>1
  <2>3. CASE flags = "MOVIE_START_FROM_EXISTING_SNAPSHOT" /\ y.snapshots[path] # NoState
    <3> DEFINE e == [y EXCEPT !.startFlags = "MOVIE_START_FROM_SNAPSHOT"]
               z == started(e, "task_start_recording_from_existing_snapshot")
               j == Job("record_existing", 0, path)
    <3>1. /\ DOMAIN e = VFields /\ SameFiles(y, e) /\ SameQueues(y, e) /\ SamePlace(y, e)
          /\ e.g_task = y.g_task /\ e.startFlags = "MOVIE_START_FROM_SNAPSHOT"
          /\ e.g_movie_inputs = y.g_movie_inputs /\ e.length_samples = y.length_samples
          /\ e.uid = y.uid
      BY <1>4 DEF Engine, VFields, SameFiles, SameQueues, SamePlace
    <3>2. w = submit_task(z, j)
      BY <2>3 DEF core_vcr_start_record, y, x
    <3> HIDE DEF e, w
    <3>3. Engine(e)
      BY <1>4, <3>1 DEF Engine, SameFiles, SameQueues, SamePlace, MovieOK, FilesOK,
         SeekSavestatesOK, BegunOK, Begun, StartFlags
    <3>4. Engine(z) /\ Begun(z) /\ z.movies = e.movies
      BY <1>3, <3>1, <3>3, MovieStarted DEF SamePlace
    <3>5. NamesSnapshot(j)
      BY RequestFields DEF NamesSnapshot
    <3> HIDE DEF z, j
    <3> QED BY <3>1, <3>2, <3>4, <3>5, JobSubmitted DEF Calm, SameFiles
  <2>4. CASE flags = "MOVIE_START_FROM_NOTHING"
    <3>1. w = started(y, "task_start_recording_from_reset")
      BY <2>4 DEF core_vcr_start_record, y, x
    <3> HIDE DEF w
    <3> QED BY <1>3, <1>4, <3>1, MovieStarted
  <2> QED BY <2>1, <2>2, <2>3, <2>4 DEF StartFlags
<1> HIDE DEF w
<1>6. Begun(v) => Begun(w)
  BY <1>1, <1>4, <1>5 DEF Stopped, SamePlace, Begun
<1>7. Flushed(v, w)
  BY <1>1, <1>3, <1>5 DEF Stopped, SameFiles, Flushed
<1>8. Goes(v, w)
  BY <1>5, <1>6, <1>7 DEF Goes
<1> QED BY <1>8 DEF w

\* core_vcr_start_record, declined.
LEMMA DeclinedGoes ==
    ASSUME NEW v, Engine(v), NEW path \in Movies
    PROVE  Goes(v, core_vcr_start_record_declined(v, path))
<1> DEFINE x == core_vcr_stop_all(v)
           w == [x EXCEPT !.g_movie_path = path]
<1>1. Stopped(v, x) /\ Engine(x)
  BY StopsAll DEF Stopped
<1> HIDE DEF x
<1>2. /\ DOMAIN w = VFields /\ SameMovie(x, w) /\ SameFiles(x, w) /\ SameQueues(x, w)
      /\ w.g_task = x.g_task /\ w.g_movie_path = path
      /\ w.m_current_sample = x.m_current_sample
  BY <1>1 DEF Engine, VFields, SameMovie, SameFiles, SameQueues
<1>3. core_vcr_start_record_declined(v, path) = w
  BY DEF core_vcr_start_record_declined, x
<1> HIDE DEF w
<1>4. Engine(w) /\ (Begun(x) => Begun(w))
  BY <1>1, <1>2 DEF Engine, SameMovie, SameFiles, SameQueues, MovieOK, FilesOK,
         SeekSavestatesOK, BegunOK, Begun
<1>5. (Begun(v) => Begun(w)) /\ Flushed(v, w)
  BY <1>1, <1>2, <1>4 DEF Stopped, SameFiles, SameMovie, SamePlace, Flushed, Begun
<1> QED BY <1>3, <1>4, <1>5 DEF Goes

\* core_vcr_start_playback.
LEMMA StartsPlayback ==
    ASSUME NEW v, Engine(v), NEW path \in Movies
    PROVE  Goes(v, core_vcr_start_playback(v, path))
<1> DEFINE u == push_cheats(v, path)
           x == core_vcr_stop_all(u)
           file == v.movies[path]
           y == new_playback(x, path, file)
           w == core_vcr_start_playback(v, path)
<1>1. Quiet(v, u)
  BY DEF push_cheats, cht_layer_push, Engine, VFields, Quiet, SameMovie, SamePlace, SameFiles,
         SameQueues
<1>2. Stopped(u, x)
  BY <1>1, QuietKeeps, StopsAll
<1>3. CASE file = NoMovie
  <2>1. w = v
    BY <1>3 DEF core_vcr_start_playback, start_playback_result
  <2> QED BY <2>1, GoesNowhere
<1>4. CASE file # NoMovie
  <2>1. w = start_playback_task(y, path)
    BY <1>4 DEF core_vcr_start_playback, start_playback_result
  <2>2. Engine(x)
    BY <1>2 DEF Stopped
  <2>3. file \in MovieFiles
    BY <1>4 DEF Engine, FilesOK
  <2> HIDE DEF x, w, file
  <2>4. /\ DOMAIN y = VFields /\ SameFiles(x, y) /\ SameQueues(x, y) /\ y.g_task = x.g_task
        /\ y.g_movie_path = path /\ y.m_current_sample = 0
        /\ y.uid = file.uid /\ y.startFlags = file.startFlags
        /\ y.length_samples = Len(file.inputs) /\ y.g_movie_inputs = file.inputs
    BY <2>2 DEF new_playback, Engine, VFields, SameFiles, SameQueues
  <2> HIDE DEF y
  <2>5. Begun(y)
    BY <2>4 DEF Begun
  <2>6. Engine(y)
    BY <2>2, <2>3, <2>4, <2>5 DEF Engine, SameFiles, SameQueues, MovieOK, FilesOK,
       SeekSavestatesOK, BegunOK, MovieFiles
  <2>7. ASSUME NEW task
        PROVE  LET z == [y EXCEPT !.g_task = task]
               IN  Engine(z) /\ Begun(z) /\ z.movies = y.movies
    <3> DEFINE z == [y EXCEPT !.g_task = task]
    <3>1. /\ DOMAIN z = VFields /\ SameMovie(y, z) /\ SameFiles(y, z) /\ SameQueues(y, z)
          /\ SamePlace(y, z)
      BY <2>6 DEF Engine, VFields, SameMovie, SameFiles, SameQueues, SamePlace
    <3> HIDE DEF z
    <3>2. Begun(z) /\ z.movies = y.movies
      BY <2>5, <3>1 DEF Begun, SamePlace, SameFiles
    <3>3. Engine(z)
      BY <2>6, <3>1, <3>2 DEF Engine, SameMovie, SameFiles, SameQueues, MovieOK, FilesOK,
         SeekSavestatesOK, BegunOK
    <3> QED BY <3>2, <3>3 DEF z
  <2>8. Engine(w) /\ Begun(w) /\ w.movies = y.movies
    <3>1. CASE y.startFlags # "MOVIE_START_FROM_SNAPSHOT"
      BY <2>1, <2>7, <3>1 DEF start_playback_task
    <3>2. CASE y.startFlags = "MOVIE_START_FROM_SNAPSHOT" /\ y.snapshots[path] = NoState
      BY <2>1, <2>5, <2>6, <3>2 DEF start_playback_task
    <3>3. CASE y.startFlags = "MOVIE_START_FROM_SNAPSHOT" /\ y.snapshots[path] # NoState
      <4> DEFINE z == [y EXCEPT !.g_task = "task_start_playback_from_snapshot"]
                 j == Job("playback_snapshot", 0, path)
      <4>1. w = submit_task(z, j)
        BY <2>1, <3>3 DEF start_playback_task
      <4>2. Engine(z) /\ Begun(z) /\ z.movies = y.movies
        BY <2>7
      <4>3. NamesSnapshot(j)
        BY RequestFields DEF NamesSnapshot
      <4> HIDE DEF z, j
      <4> QED BY <4>1, <4>2, <4>3, JobSubmitted DEF Calm
    <3> QED BY <3>1, <3>2, <3>3
  <2>9. Flushed(v, w)
    BY <1>1, <1>2, <2>4, <2>8 DEF Stopped, SameFiles, Flushed, Quiet, SamePlace, SameMovie
  <2>10. Goes(v, w)
    BY <2>8, <2>9 DEF Goes
  <2> QED BY <2>10 DEF w
<1> QED BY <1>3, <1>4

-----------------------------------------------------------------------------
(* The movie inside a savestate                                            *)

\* core_vcr_unfreeze goes on with the recording, possibly with the savestate's inputs,
\* or flushes it before it is played back, and changes nothing else of the movie.
Unfrozen(v, w) ==
    /\ Engine(w) /\ (Begun(v) => Begun(w))
    /\ w.g_movie_path = v.g_movie_path
    /\ v.g_task = "task_recording" =>
          \/ w.g_task = "task_recording"
          \/ /\ w.g_task = "task_playback"
             /\ w.g_movie_inputs = v.g_movie_inputs
             /\ w.movies[v.g_movie_path] # NoMovie
             /\ w.movies[v.g_movie_path].inputs = v.g_movie_inputs

LEMMA Unfreezes ==
    ASSUME NEW v, Engine(v), NEW freeze, freeze.input_buffer \in Seq(Input),
           freeze.current_sample \in Nat
    PROVE  Unfrozen(v, core_vcr_unfreeze(v, freeze))
<1> DEFINE w == core_vcr_unfreeze(v, freeze)
           n == freeze.current_sample
<1>1. CASE unfreeze_result(v, freeze) # "Res_Ok"
  BY <1>1 DEF core_vcr_unfreeze, Unfrozen
<1>2. CASE /\ unfreeze_result(v, freeze) = "Res_Ok"
           /\ v.g_task = "task_recording" /\ core_vcr_is_seeking(v)
  <2>1. w = [v EXCEPT !.m_current_sample = n]
    BY <1>2 DEF core_vcr_unfreeze
  <2> HIDE DEF w
  <2>2. /\ DOMAIN w = VFields /\ SameMovie(v, w) /\ SameFiles(v, w) /\ SameQueues(v, w)
        /\ w.g_movie_path = v.g_movie_path /\ w.m_current_sample = n /\ w.g_task = v.g_task
    BY <2>1 DEF Engine, VFields, SameMovie, SameFiles, SameQueues
  <2>3. Engine(w) /\ Begun(w)
    BY <1>2, <2>2 DEF Engine, SameMovie, SameFiles, SameQueues, MovieOK, FilesOK,
       SeekSavestatesOK, BegunOK, Begun
  <2>4. Unfrozen(v, w)
    BY <1>2, <2>2, <2>3 DEF Unfrozen
  <2> QED BY <2>4 DEF w
<1>3. CASE /\ unfreeze_result(v, freeze) = "Res_Ok"
           /\ ~(v.g_task = "task_recording" /\ core_vcr_is_seeking(v))
  <2>1. Begun(v)
    BY <1>3 DEF unfreeze_result, Engine, BegunOK
  <2>2. CASE w = unfreeze_readwrite(v, freeze)
    <3> DEFINE x == [v EXCEPT !.g_task = "task_recording", !.m_current_sample = n]
               y == [x EXCEPT !.length_samples = n, !.g_movie_inputs = resize(freeze.input_buffer, n)]
    <3>1. /\ DOMAIN x = VFields /\ SameMovie(v, x) /\ SameFiles(v, x) /\ SameQueues(v, x)
          /\ x.g_movie_path = v.g_movie_path /\ x.m_current_sample = n
          /\ x.g_task = "task_recording"
      BY DEF Engine, VFields, SameMovie, SameFiles, SameQueues
    <3> HIDE DEF x
    <3>2. Begun(x) /\ Engine(x)
      BY <2>1, <3>1 DEF Engine, SameMovie, SameFiles, SameQueues, MovieOK, FilesOK,
         SeekSavestatesOK, BegunOK, Begun
    <3>3. /\ DOMAIN y = VFields /\ SameFiles(x, y) /\ SameQueues(x, y) /\ SamePlace(x, y)
          /\ y.uid = x.uid /\ y.startFlags = x.startFlags /\ y.g_task = x.g_task
          /\ y.length_samples = n /\ y.g_movie_inputs = resize(freeze.input_buffer, n)
      BY <3>1 DEF VFields, SameFiles, SameQueues, SamePlace
    <3> HIDE DEF y
    <3>4. /\ resize(freeze.input_buffer, n) \in Seq(Input)
          /\ Len(resize(freeze.input_buffer, n)) = n
      BY Resized
    <3>5. Engine(y) /\ Begun(y)
      BY <3>2, <3>3, <3>4 DEF Engine, SameFiles, SameQueues, SamePlace, MovieOK, FilesOK,
         SeekSavestatesOK, BegunOK, Begun
    <3>6. /\ Engine(write_movie(y)) /\ SamePlace(y, write_movie(y))
          /\ write_movie(y).g_task = y.g_task
      BY <3>5, WritesMovie
    <3>7. w = x \/ w = write_movie(y)
      BY <2>2 DEF unfreeze_readwrite, overwrite_inputs, x, y
    <3> HIDE DEF w
    <3>8. Unfrozen(v, w)
      BY <3>1, <3>2, <3>3, <3>5, <3>6, <3>7 DEF Unfrozen, SamePlace, Begun
    <3> QED BY <3>8 DEF w
  <2>3. CASE w = unfreeze_readonly(v, freeze)
    <3> DEFINE x == write_movie(v)
    <3>1. /\ Engine(x) /\ SameMovie(v, x) /\ SamePlace(v, x) /\ x.g_task = v.g_task
          /\ v.g_task = "task_recording" =>
                /\ x.movies[v.g_movie_path] # NoMovie
                /\ x.movies[v.g_movie_path].inputs = v.g_movie_inputs
      BY WritesMovie
    <3>2. w = [x EXCEPT !.g_task = "task_playback", !.m_current_sample = n]
      BY <2>3 DEF unfreeze_readonly
    <3> HIDE DEF x, w
    <3>3. /\ DOMAIN w = VFields /\ SameMovie(x, w) /\ SameFiles(x, w) /\ SameQueues(x, w)
          /\ w.g_movie_path = x.g_movie_path /\ w.m_current_sample = n
          /\ w.g_task = "task_playback"
      BY <3>1, <3>2 DEF Engine, VFields, SameMovie, SameFiles, SameQueues
    <3>4. Begun(w)
      BY <2>1, <3>1, <3>3 DEF Begun, SamePlace
    <3>5. Engine(w)
      BY <3>1, <3>3, <3>4 DEF Engine, SameMovie, SameFiles, SameQueues, MovieOK, FilesOK,
         SeekSavestatesOK, BegunOK
    <3>6. Unfrozen(v, w)
      BY <3>1, <3>3, <3>4, <3>5 DEF Unfrozen, SameMovie, SamePlace, SameFiles
    <3> QED BY <3>6 DEF w
  <2> QED BY <1>3, <2>2, <2>3 DEF core_vcr_unfreeze
<1> QED BY <1>1, <1>2, <1>3

LEMMA UnfrozenGoes == ASSUME NEW v, NEW w, Unfrozen(v, w) PROVE Goes(v, w)
  BY DEF Unfrozen, Goes, Flushed

\* What a savestate of the engine holds.
LEMMA FreezesMovie ==
    ASSUME NEW v, Engine(v)
    PROVE  /\ core_vcr_freeze(v).input_buffer \in Seq(Input)
           /\ core_vcr_freeze(v).is_movie => core_vcr_freeze(v).current_sample \in Nat
<1>1. core_vcr_freeze(v).input_buffer = resize(v.g_movie_inputs, v.length_samples)
  BY DEF core_vcr_freeze
<1>2. core_vcr_freeze(v).current_sample = v.m_current_sample
  BY DEF core_vcr_freeze
<1>3. core_vcr_freeze(v).is_movie = (v.g_task # "task_idle")
  BY Zenon DEF core_vcr_freeze
<1>4. resize(v.g_movie_inputs, v.length_samples) \in Seq(Input)
  BY Resized DEF Engine, MovieOK
<1>5. v.g_task # "task_idle" => v.m_current_sample \in Nat
  BY DEF Engine, BegunOK, Begun
<1> QED BY <1>1, <1>2, <1>3, <1>4, <1>5

-----------------------------------------------------------------------------
(* Seeking and warp modify                                                 *)

\* Seek savestates that are dropped.
LEMMA Purged ==
    ASSUME NEW v, Engine(v), NEW F
    PROVE  Calm(v, [v EXCEPT !.g_seek_savestates = WithoutFrames(@, F)])
<1> DEFINE w == [v EXCEPT !.g_seek_savestates = WithoutFrames(@, F)]
<1>1. /\ DOMAIN w = VFields /\ SameMovie(v, w) /\ SamePlace(v, w) /\ SameFiles(v, w)
      /\ w.jobs = v.jobs /\ w.g_tasks = v.g_tasks /\ w.g_task = v.g_task
      /\ w.g_seek_savestates = WithoutFrames(v.g_seek_savestates, F)
  BY DEF Engine, VFields, SameMovie, SamePlace, SameFiles
<1> HIDE DEF w
<1>2. SeekSavestatesOK(w)
  BY <1>1 DEF Engine, SeekSavestatesOK, WithoutFrames
<1>3. Engine(w)
  BY <1>1, <1>2 DEF Engine, SameMovie, SamePlace, SameFiles, MovieOK, FilesOK, BegunOK, Begun
<1>4. Calm(v, w)
  BY <1>1, <1>3 DEF Calm, SameMovie, SamePlace, SameFiles, Begun
<1> QED BY <1>4 DEF w

LEMMA LoadsSeekSavestate ==
    ASSUME NEW v, Engine(v), NEW key PROVE Calm(v, load_seek_savestate(v, key))
<1> DEFINE u == [v EXCEPT !.g_seek_savestate_loading = TRUE]
           j == Job("seek_load", key, NoMovie)
<1>1. Quiet(v, u)
  BY DEF Engine, VFields, Quiet, SameMovie, SamePlace, SameFiles, SameQueues
<1>2. Calm(v, u)
  BY <1>1, QuietCalm
<1>3. NamesSnapshot(j) /\ j.what \notin Starts
  BY RequestFields DEF NamesSnapshot, Starts
<1> HIDE DEF u, j
<1>4. Calm(u, submit_task(u, j))
  BY <1>2, <1>3, JobSubmitted DEF Calm
<1> QED BY <1>2, <1>4, CalmTransitive DEF load_seek_savestate, u, j

LEMMA RewindsRecording ==
    ASSUME NEW v, Engine(v), NEW target PROVE Calm(v, rewind_recording(v, target))
<1> DEFINE w == purge_seek_savestates(v, target)
<1>1. Calm(v, w)
  <2>1. Calm(v, v)
    BY DEF Calm
  <2> QED BY <2>1, Purged DEF purge_seek_savestates
<1> HIDE DEF w
<1>2. \A key : Calm(w, load_seek_savestate(w, key))
  BY <1>1, LoadsSeekSavestate DEF Calm
<1>3. rewind_recording(v, target)
        = load_seek_savestate(w, vcr_find_closest_savestate_before_frame(w, target))
  BY DEF rewind_recording, w
<1> QED BY <1>1, <1>2, <1>3, CalmTransitive

LEMMA RewindsPlayback ==
    ASSUME NEW v, Engine(v), v.g_task = "task_playback", NEW frame
    PROVE  Goes(v, rewind_playback(v, frame))
<1>1. v.g_movie_path \in Movies
  BY DEF Engine, BegunOK, Begun
<1>2. CASE v.cfg.seek_savestate_interval # 0
  <2> DEFINE u == [v EXCEPT !.vcr_readonly = TRUE]
  <2>1. Quiet(v, u)
    BY DEF Engine, VFields, Quiet, SameMovie, SamePlace, SameFiles, SameQueues
  <2>2. Calm(v, u)
    BY <2>1, QuietCalm
  <2> HIDE DEF u
  <2>3. \A key : Calm(u, load_seek_savestate(u, key))
    BY <2>2, LoadsSeekSavestate DEF Calm
  <2>4. rewind_playback(v, frame)
          = load_seek_savestate(u, vcr_find_closest_savestate_before_frame(v, frame))
    BY <1>2 DEF rewind_playback, u
  <2> QED BY <2>2, <2>3, <2>4, CalmTransitive, CalmGoes
<1>3. CASE v.cfg.seek_savestate_interval = 0
  <2> DEFINE w == core_vcr_start_playback(v, v.g_movie_path)
             z == [w EXCEPT !.seek_to_frame = NoFrame]
  <2>1. Goes(v, w)
    BY <1>1, StartsPlayback
  <2> HIDE DEF w
  <2>2. Quiet(w, z)
    BY <2>1 DEF Goes, Engine, VFields, Quiet, SameMovie, SamePlace, SameFiles, SameQueues
  <2> HIDE DEF z
  <2>3. Goes(v, z)
    BY <2>1, <2>2, GoesThenQuiet
  <2>4. rewind_playback(v, frame) \in {w, z}
    BY <1>3 DEF rewind_playback, restart_playback, w, z
  <2> QED BY <2>1, <2>3, <2>4
<1> QED BY <1>2, <1>3

LEMMA Backtracks ==
    ASSUME NEW v, Engine(v), NEW frame, NEW warp
    PROVE  /\ Goes(v, backtrack(v, frame, warp))
           /\ v.g_task = "task_recording" => Calm(v, backtrack(v, frame, warp))
<1>1. Calm(v, v)
  BY DEF Calm
<1>2. \A target : Calm(v, rewind_recording(v, target))
  BY RewindsRecording
<1>3. CASE v.m_current_sample <= frame
  BY <1>1, <1>3, CalmGoes DEF backtrack
<1>4. CASE ~(v.m_current_sample <= frame) /\ v.g_task = "task_playback"
  BY <1>4, RewindsPlayback DEF backtrack
<1>5. CASE ~(v.m_current_sample <= frame) /\ v.g_task # "task_playback"
  <2>1. Calm(v, backtrack(v, frame, warp))
    BY <1>1, <1>2, <1>5 DEF backtrack
  <2> QED BY <2>1, CalmGoes
<1> QED BY <1>3, <1>4, <1>5

LEMMA BeginsSeek ==
    ASSUME NEW v, Engine(v), NEW frame, NEW pause, NEW resume, NEW warp
    PROVE  /\ Goes(v, vcr_begin_seek_impl(v, frame, pause, resume, warp))
           /\ v.g_task = "task_recording" =>
                 Calm(v, vcr_begin_seek_impl(v, frame, pause, resume, warp))
<1> DEFINE end == seek_end(frame, pause)
           w == [v EXCEPT !.seek_to_frame = end, !.g_seek_pause_at_end = pause]
           r == core_vr_resume_emu(w)
           z == vcr_begin_seek_impl(v, frame, pause, resume, warp)
<1>1. Calm(v, v)
  BY DEF Calm
<1>2. Quiet(v, w)
  BY DEF Engine, VFields, Quiet, SameMovie, SamePlace, SameFiles, SameQueues
<1>3. z \in {v, core_vcr_stop_seek(w), backtrack(w, end, warp), backtrack(r, end, warp)}
  BY DEF vcr_begin_seek_impl
<1> HIDE DEF w, z, end
<1>4. DOMAIN w = VFields /\ Calm(v, w)
  BY <1>2, QuietCalm DEF Quiet
<1>5. Quiet(w, r) /\ Quiet(w, core_vcr_stop_seek(w))
  BY <1>4, PausingQuiet
<1>6. Calm(w, r) /\ Calm(w, core_vcr_stop_seek(w))
  BY <1>4, <1>5, QuietCalm DEF Calm
<1>7. Calm(v, r) /\ Calm(v, core_vcr_stop_seek(w))
  BY <1>4, <1>6, CalmTransitive
<1> HIDE DEF r
<1>8. \A x \in {w, r} :
         /\ Goes(v, backtrack(x, end, warp))
         /\ v.g_task = "task_recording" => Calm(v, backtrack(x, end, warp))
  <2> TAKE x \in {w, r}
  <2>1. Calm(v, x) /\ Engine(x)
    BY <1>4, <1>7 DEF Calm
  <2>2. /\ Goes(x, backtrack(x, end, warp))
        /\ x.g_task = "task_recording" => Calm(x, backtrack(x, end, warp))
    BY <2>1, Backtracks
  <2>3. x.g_task = v.g_task
    BY <2>1 DEF Calm
  <2> QED BY <2>1, <2>2, <2>3, CalmThenGoes, CalmTransitive
<1>9. Goes(v, z) /\ (v.g_task = "task_recording" => Calm(v, z))
  BY <1>1, <1>3, <1>7, <1>8, CalmGoes
<1> QED BY <1>9 DEF z

\* Inputs that the user has edited: header and inputs change together.
LEMMA Edited ==
    ASSUME NEW v, Engine(v), NEW inputs \in Seq(Input), v.g_task = "task_recording"
    PROVE  Goes(v, with_inputs(v, inputs)) /\ with_inputs(v, inputs).g_task = "task_recording"
<1> DEFINE w == with_inputs(v, inputs)
<1>1. /\ DOMAIN w = VFields /\ SamePlace(v, w) /\ SameFiles(v, w) /\ SameQueues(v, w)
      /\ w.g_task = v.g_task /\ w.uid = v.uid /\ w.startFlags = v.startFlags
      /\ w.g_movie_inputs = inputs /\ w.length_samples = Len(inputs)
  BY DEF with_inputs, Engine, VFields, SamePlace, SameFiles, SameQueues
<1> HIDE DEF w
<1>2. Engine(w)
  BY <1>1 DEF Engine, SamePlace, SameFiles, SameQueues, MovieOK, FilesOK, SeekSavestatesOK,
     BegunOK, Begun
<1>3. Goes(v, w) /\ w.g_task = "task_recording"
  BY <1>1, <1>2 DEF Goes, Flushed, SamePlace, Begun
<1> QED BY <1>3 DEF w

\* A recording goes on.
LEMMA StillRecording ==
    ASSUME NEW u, NEW v, NEW w, Goes(u, v), Goes(v, w), w.g_task = "task_recording"
    PROVE  Goes(u, w)
  BY DEF Goes, Flushed

LEMMA BeginsWarpModify ==
    ASSUME NEW v, Engine(v), NEW inputs \in Seq(Input)
    PROVE  Goes(v, core_vcr_begin_warp_modify(v, inputs))
<1> DEFINE diff == vcr_find_first_input_difference(v.g_movie_inputs, inputs)
           w == [v EXCEPT !.g_warp_modify_first_difference_frame = diff]
           z == core_vcr_begin_warp_modify(v, inputs)
<1>1. Goes(v, v)
  BY GoesNowhere
<1>2. Quiet(v, w)
  BY DEF Engine, VFields, Quiet, SameMovie, SamePlace, SameFiles, SameQueues
<1>3. \/ z = v
      \/ v.g_task = "task_recording" /\ z \in {w, with_inputs(w, inputs), warp_seek(w, inputs)}
  BY DEF core_vcr_begin_warp_modify
<1> HIDE DEF w, diff, z
<1>4. Calm(v, w) /\ Engine(w) /\ Goes(v, w)
  BY <1>2, QuietCalm, CalmGoes DEF Calm
<1>5. ASSUME v.g_task = "task_recording"
      PROVE  /\ Goes(v, with_inputs(w, inputs))
             /\ Goes(v, warp_seek(w, inputs))
  <2>1. w.g_task = "task_recording"
    BY <1>4, <1>5 DEF Calm
  <2>2. Goes(v, with_inputs(w, inputs))
    BY <1>4, <2>1, Edited, CalmThenGoes
  <2> DEFINE target == SmallerOf(Len(inputs), w.m_current_sample)
             pause == w.emu_paused \/ w.frame_advance_outstanding > 0
             x == vcr_begin_seek_impl(w, target, pause, FALSE, TRUE)
             y == with_inputs(x, inputs)
             a == [y EXCEPT !.g_warp_modify_active = TRUE]
  <2>3. warp_seek(w, inputs) \in {x, core_vr_resume_emu(a)}
    BY DEF warp_seek
  <2>4. Calm(w, x)
    BY <1>4, <2>1, BeginsSeek
  <2> HIDE DEF x
  <2>5. Calm(v, x) /\ Engine(x) /\ x.g_task = "task_recording"
    BY <1>4, <2>1, <2>4, CalmTransitive DEF Calm
  <2>6. Goes(x, y) /\ y.g_task = "task_recording"
    BY <2>5, Edited
  <2>7. Goes(v, y)
    BY <2>5, <2>6, CalmThenGoes
  <2> HIDE DEF y
  <2>8. Quiet(y, a)
    BY <2>7 DEF Goes, Engine, VFields, Quiet, SameMovie, SamePlace, SameFiles, SameQueues
  <2> HIDE DEF a
  <2>9. Quiet(a, core_vr_resume_emu(a))
    BY <2>8, PausingQuiet DEF Quiet
  <2>10. Goes(v, core_vr_resume_emu(a))
    BY <2>7, <2>8, <2>9, GoesThenQuiet
  <2>11. Goes(v, x)
    BY <2>5, CalmGoes
  <2> QED BY <2>2, <2>3, <2>10, <2>11
<1>6. Goes(v, z)
  BY <1>1, <1>3, <1>4, <1>5
<1> QED BY <1>6 DEF z

-----------------------------------------------------------------------------
(* Controller polls                                                        *)

LEMMA StopsSeekIfNeeded ==
    ASSUME NEW v, Engine(v) PROVE Calm(v, vcr_stop_seek_if_needed(v))
<1> DEFINE x == core_vcr_stop_seek(v)
<1>1. Quiet(v, x) /\ DOMAIN x = VFields /\ Quiet(v, v)
  BY PausingQuiet, QuietSelf DEF Engine, Quiet
<1>2. Quiet(x, core_vr_pause_emu(x))
  BY <1>1, PausingQuiet
<1>3. Quiet(v, core_vr_pause_emu(x))
  BY <1>1, <1>2, QuietTransitive
<1> QED BY <1>1, <1>3, QuietCalm DEF vcr_stop_seek_if_needed

LEMMA StartingTasks ==
    ASSUME NEW v, Engine(v) PROVE Calm(v, vcr_handle_starting_tasks(v))
<1> DEFINE u == [v EXCEPT !.g_reset_pending = TRUE]
           w == vcr_handle_starting_tasks(v)
<1>1. Quiet(v, u)
  BY DEF Engine, VFields, Quiet, SameMovie, SamePlace, SameFiles, SameQueues
<1>2. Calm(v, u) /\ Engine(u)
  BY <1>1, QuietCalm DEF Calm
<1>3. Calm(v, v)
  BY DEF Calm
<1>4. CASE v.g_task \in {"task_start_recording_from_reset", "task_start_playback_from_reset"}
  <2>1. PICK what \in {"record_reset", "playback_reset"} :
           w = submit_task(u, Job(what, 0, NoMovie))
    BY <1>4 DEF vcr_handle_starting_tasks
  <2> HIDE DEF u, w
  <2>2. Begun(u)
    BY <1>2, <1>4 DEF Calm, Engine, BegunOK
  <2>3. NamesSnapshot(Job(what, 0, NoMovie))
    BY RequestFields DEF NamesSnapshot
  <2>4. Calm(u, w)
    BY <1>2, <2>1, <2>2, <2>3, JobSubmitted
  <2>5. Calm(v, w)
    BY <1>2, <2>4, CalmTransitive
  <2> QED BY <2>5 DEF w
<1>5. CASE v.g_task \notin {"task_start_recording_from_reset", "task_start_playback_from_reset"}
  BY <1>3, <1>5 DEF vcr_handle_starting_tasks
<1> QED BY <1>4, <1>5

LEMMA CreatesSeekSavestates ==
    ASSUME NEW v, Engine(v) PROVE Calm(v, vcr_create_seek_savestates(v))
<1> DEFINE u == purge_oldest(v)
           t == StTask("seek_save", v.m_current_sample, NoMovie, NoState)
<1>1. Calm(v, v)
  BY DEF Calm
<1>2. Calm(v, u)
  BY <1>1, Purged DEF purge_oldest
<1>3. NamesSnapshot(t) /\ Frozen(t.st) /\ t.what \notin Starts
  BY RequestFields, NothingFrozen DEF NamesSnapshot, Starts
<1> HIDE DEF u, t
<1>4. Calm(u, st_push(u, t))
  BY <1>2, <1>3, TaskRequested DEF Calm
<1>5. Calm(v, st_push(u, t))
  BY <1>2, <1>4, CalmTransitive
<1>6. vcr_create_seek_savestates(v) \in {v, st_push(u, t)}
  BY DEF vcr_create_seek_savestates, vcr_create_n_frame_savestate, u, t
<1> QED BY <1>1, <1>5, <1>6

LEMMA BeforeInput == ASSUME NEW v, Engine(v) PROVE Calm(v, before_input(v))
<1> DEFINE x == vcr_stop_seek_if_needed(v)
           y == vcr_handle_starting_tasks(x)
<1>1. Calm(v, x) /\ Engine(x)
  BY StopsSeekIfNeeded DEF Calm
<1> HIDE DEF x
<1>2. Calm(x, y) /\ Engine(y)
  BY <1>1, StartingTasks DEF Calm
<1> HIDE DEF y
<1>3. Calm(y, vcr_create_seek_savestates(y))
  BY <1>2, CreatesSeekSavestates
<1>4. Calm(v, vcr_create_seek_savestates(y))
  BY <1>1, <1>2, <1>3, CalmTransitive
<1> QED BY <1>4 DEF before_input, x, y

\* The next sample of a movie.
LEMMA NextSample ==
    ASSUME NEW v, Engine(v), Begun(v) PROVE Calm(v, next_sample(v))
<1> DEFINE w == next_sample(v)
<1>1. /\ DOMAIN w = VFields /\ SameMovie(v, w) /\ SameFiles(v, w) /\ SameQueues(v, w)
      /\ w.g_task = v.g_task /\ w.g_movie_path = v.g_movie_path
      /\ w.m_current_sample = v.m_current_sample + 1
  BY DEF next_sample, Engine, VFields, SameMovie, SameFiles, SameQueues
<1> HIDE DEF w
<1>2. Begun(w)
  BY <1>1 DEF Begun
<1>3. Engine(w)
  BY <1>1, <1>2 DEF Engine, SameMovie, SameFiles, SameQueues, MovieOK, FilesOK,
     SeekSavestatesOK, BegunOK
<1>4. Calm(v, w)
  BY <1>1, <1>2, <1>3 DEF Calm, SameMovie, SameFiles
<1> QED BY <1>4 DEF w

\* A recorded input: header and inputs grow together.
LEMMA InputAppended ==
    ASSUME NEW v, Engine(v), v.g_task = "task_recording", NEW input \in Input
    PROVE  Goes(v, append_input(v, input)) /\ append_input(v, input).g_task = "task_recording"
<1> DEFINE w == append_input(v, input)
<1>1. /\ DOMAIN w = VFields /\ SamePlace(v, w) /\ SameFiles(v, w) /\ SameQueues(v, w)
      /\ w.g_task = v.g_task /\ w.uid = v.uid /\ w.startFlags = v.startFlags
      /\ w.g_movie_inputs = Append(v.g_movie_inputs, input)
      /\ w.length_samples = v.length_samples + 1
  BY DEF append_input, Engine, VFields, SamePlace, SameFiles, SameQueues
<1> HIDE DEF w
<1>2. MovieOK(w)
  BY <1>1 DEF Engine, MovieOK
<1>3. Engine(w)
  BY <1>1, <1>2 DEF Engine, SamePlace, SameFiles, SameQueues, FilesOK, SeekSavestatesOK,
     BegunOK, Begun
<1>4. Goes(v, w) /\ w.g_task = "task_recording"
  BY <1>1, <1>3 DEF Goes, Flushed, SamePlace, Begun
<1> QED BY <1>4 DEF w

\* A reset that is left to the workers, with some flags set.
LEMMA ResetSubmitted ==
    ASSUME NEW v, Engine(v), NEW u, Quiet(v, u), NEW what \in {"user_reset", "movie_reset"}
    PROVE  Calm(v, submit_task(u, Job(what, 0, NoMovie)))
<1>1. Calm(v, u) /\ Engine(u)
  BY QuietCalm DEF Calm
<1>2. NamesSnapshot(Job(what, 0, NoMovie)) /\ Job(what, 0, NoMovie).what \notin Starts
  BY RequestFields DEF NamesSnapshot, Starts
<1>3. Calm(u, submit_task(u, Job(what, 0, NoMovie)))
  BY <1>1, <1>2, JobSubmitted
<1> QED BY <1>1, <1>3, CalmTransitive

LEMMA HandlesRecording ==
    ASSUME NEW v, Engine(v), v.g_task = "task_recording", NEW index, NEW keys \in Buttons
    PROVE  Goes(v, vcr_handle_recording(v, index, keys))
<1> DEFINE x == IF use_inputs_from_buffer(v, index) THEN v
                ELSE append_input(v, recording_input(v, index, keys))
           y == next_sample(x)
           u == [y EXCEPT !.vcr_reset_requested = FALSE, !.g_reset_pending = TRUE]
           z == vcr_handle_recording(v, index, keys)
<1>1. Goes(v, x) /\ x.g_task = "task_recording"
  <2>1. CASE use_inputs_from_buffer(v, index)
    BY <2>1, GoesNowhere
  <2>2. CASE ~use_inputs_from_buffer(v, index)
    <3>1. recording_input(v, index, keys) \in Input
      BY <2>2 DEF recording_input, Input
    <3> QED BY <2>2, <3>1, InputAppended
  <2> QED BY <2>1, <2>2
<1>2. z \in {y, submit_task(u, Job("user_reset", 0, NoMovie))}
  BY DEF vcr_handle_recording, user_reset
<1> HIDE DEF x, z
<1>3. Engine(x) /\ Begun(x)
  BY <1>1 DEF Goes, Engine, BegunOK
<1>4. Calm(x, y)
  BY <1>3, NextSample
<1> HIDE DEF y
<1>5. Engine(y)
  BY <1>4 DEF Calm
<1>6. Quiet(y, u)
  BY <1>5 DEF Engine, VFields, Quiet, SameMovie, SamePlace, SameFiles, SameQueues
<1> HIDE DEF u
<1>7. Calm(y, submit_task(u, Job("user_reset", 0, NoMovie)))
  BY <1>5, <1>6, ResetSubmitted
<1>8. Calm(x, z)
  BY <1>2, <1>4, <1>7, CalmTransitive
<1>9. Goes(v, z)
  BY <1>1, <1>8, GoesThenCalm
<1> QED BY <1>9 DEF z

LEMMA HandlesPlayback ==
    ASSUME NEW v, Engine(v), v.g_task = "task_playback", NEW index
    PROVE  Goes(v, vcr_handle_playback(v, index))
<1> DEFINE w == pause_at_movie_end(v)
           u == [w EXCEPT !.g_reset_pending = TRUE]
           z == vcr_handle_playback(v, index)
<1>1. Quiet(v, w)
  BY QuietSelf, PausingQuiet DEF pause_at_movie_end, Engine
<1>2. Calm(v, w)
  BY <1>1, QuietCalm
<1>3. \/ z = movie_ended(w)
      \/ z = next_sample(w)
      \/ z = next_sample(submit_task(u, Job("movie_reset", 0, NoMovie)))
  BY DEF vcr_handle_playback, movie_reset
<1> HIDE DEF w, z
<1>4. Engine(w) /\ Begun(w) /\ w.g_task = "task_playback"
  BY <1>2 DEF Calm, Engine, BegunOK
<1>5. Goes(w, movie_ended(w))
  <2> DEFINE x == core_vcr_stop_all(w)
             y == core_vcr_start_playback(x, w.g_movie_path)
  <2>1. Stopped(w, x)
    BY <1>4, StopsAll
  <2> HIDE DEF x
  <2>2. Engine(x) /\ w.g_movie_path \in Movies
    BY <1>4, <2>1 DEF Stopped, Begun
  <2>3. Goes(x, y)
    BY <2>2, StartsPlayback
  <2> HIDE DEF y
  <2>4. Goes(w, x)
    BY <2>1, StoppedGoes
  <2>5. Goes(w, y)
    BY <1>4, <2>3, <2>4 DEF Goes, Flushed
  <2> QED BY <2>4, <2>5 DEF movie_ended, x, y
<1>6. Calm(w, next_sample(w))
  BY <1>4, NextSample
<1>7. Calm(w, next_sample(submit_task(u, Job("movie_reset", 0, NoMovie))))
  <2> DEFINE x == submit_task(u, Job("movie_reset", 0, NoMovie))
  <2>1. Quiet(w, u)
    BY <1>4 DEF Engine, VFields, Quiet, SameMovie, SamePlace, SameFiles, SameQueues
  <2> HIDE DEF u
  <2>2. Calm(w, x)
    BY <1>4, <2>1, ResetSubmitted
  <2> HIDE DEF x
  <2>3. Calm(x, next_sample(x))
    BY <1>4, <2>2, NextSample DEF Calm
  <2>4. Calm(w, next_sample(x))
    BY <2>2, <2>3, CalmTransitive
  <2> QED BY <2>4 DEF x
<1>8. Goes(w, z)
  BY <1>3, <1>5, <1>6, <1>7, CalmGoes
<1>9. Goes(v, z)
  BY <1>2, <1>8, CalmThenGoes
<1> QED BY <1>9 DEF z

LEMMA Polls ==
    ASSUME NEW v, Engine(v), NEW index, NEW keys \in Buttons
    PROVE  Goes(v, vcr_on_controller_poll(v, index, keys))
<1> DEFINE w == before_input(v)
           z == vcr_on_controller_poll(v, index, keys)
<1>1. Calm(v, w) /\ Engine(w)
  BY BeforeInput DEF Calm
<1>2. Goes(v, v) /\ Goes(w, w)
  BY <1>1, GoesNowhere
<1>3. \/ z = v
      \/ w.g_task = "task_recording" /\ z = vcr_handle_recording(w, index, keys)
      \/ w.g_task = "task_playback" /\ z = vcr_handle_playback(w, index)
      \/ z = w
  BY DEF vcr_on_controller_poll
<1> HIDE DEF w, z
<1>4. z = v \/ Goes(w, z)
  BY <1>1, <1>2, <1>3, HandlesRecording, HandlesPlayback
<1>5. Goes(v, z)
  BY <1>1, <1>2, <1>4, CalmThenGoes
<1> QED BY <1>5 DEF z

-----------------------------------------------------------------------------
(* The threads                                                             *)

\* The callback of a playback that was asked for before a recording began makes the
\* engine play back without a look at its task.
PlaybackTakesOver ==
    \/ reset.stage = "callback" /\ reset.what = "playback_reset" /\ reset' = NoReset
    \/ working /\ next' = next + 1 /\ vcr.g_tasks[next].what = "playback_snapshot"

Good == Inv' /\ (PlaybackTakesOver \/ Flushed(vcr, vcr'))

LEMMA PlainStep ==
    ASSUME Inv, Goes(vcr, vcr'), UNCHANGED <<slot, reset>>, recordings' \in Nat,
           next' \in Nat \ {0}
    PROVE  Good
  BY DEF Inv, Goes, Good

LEMMA CallbackFails == ASSUME NEW v, Engine(v), NEW t PROVE Goes(v, task_failed(v, t))
<1> DEFINE u == [v EXCEPT !.g_seek_savestate_loading = FALSE]
<1>1. Quiet(v, u)
  BY DEF Engine, VFields, Quiet, SameMovie, SamePlace, SameFiles, SameQueues
<1>2. task_failed(v, t) \in {core_vcr_stop_seek(u), core_vcr_stop_all(v), v}
  BY DEF task_failed
<1> HIDE DEF u
<1>3. Quiet(u, core_vcr_stop_seek(u))
  BY <1>1, PausingQuiet DEF Quiet
<1>4. Goes(v, core_vcr_stop_seek(u))
  BY <1>1, <1>3, QuietTransitive, QuietGoes
<1>5. Goes(v, core_vcr_stop_all(v)) /\ Goes(v, v)
  BY StopsAll, StoppedGoes, GoesNowhere
<1> QED BY <1>2, <1>4, <1>5

\* After a load that did not count, a stopped movie is in its file too.
LEMMA CallbackFailsAfterLoad ==
    ASSUME NEW u, NEW v, Unfrozen(u, v), NEW t PROVE Goes(u, task_failed(v, t))
<1> DEFINE w == task_failed(v, t)
           s == [v EXCEPT !.g_seek_savestate_loading = FALSE]
           a == core_vcr_stop_all(v)
<1>1. Engine(v)
  BY DEF Unfrozen
<1>2. Quiet(v, s)
  BY <1>1 DEF Engine, VFields, Quiet, SameMovie, SamePlace, SameFiles, SameQueues
<1>3. w \in {core_vcr_stop_seek(s), a, v}
  BY DEF task_failed
<1> HIDE DEF s, w
<1>4. Quiet(s, core_vcr_stop_seek(s))
  BY <1>2, PausingQuiet DEF Quiet
<1>5. Goes(u, core_vcr_stop_seek(s)) /\ Goes(u, v)
  BY <1>2, <1>4, QuietTransitive, UnfrozenGoes, GoesThenQuiet
<1>6. Goes(u, a)
  <2>1. Stopped(v, a)
    BY <1>1, StopsAll
  <2> HIDE DEF a
  <2>2. Engine(a) /\ (Begun(u) => Begun(a))
    BY <2>1, StoppedGoes DEF Goes, Unfrozen
  <2>3. Flushed(u, a)
    BY <2>1 DEF Stopped, Unfrozen, Flushed, SameMovie
  <2> QED BY <2>2, <2>3 DEF Goes
<1>7. Goes(u, w)
  BY <1>3, <1>5, <1>6
<1> QED BY <1>7 DEF w

\* A callback that goes well starts a recording, starts a playback, or keeps the task.
LEMMA CallbackDone ==
    ASSUME NEW v, Engine(v), NEW t, t.what \in Starts => Begun(v), NEW st, Frozen(st)
    PROVE  LET w == task_done(v, t, st)
           IN  /\ Engine(w) /\ (Begun(v) => Begun(w))
               /\ w.movies = v.movies /\ w.g_movie_inputs = v.g_movie_inputs
               /\ w.g_movie_path = v.g_movie_path
               /\ t.what # "playback_snapshot" => w.g_task \in {v.g_task, "task_recording"}
<1> DEFINE w == task_done(v, t, st)
<1>1. CASE t.what = "seek_load"
  <2>1. w = [v EXCEPT !.g_seek_savestate_loading = FALSE]
    BY <1>1 DEF task_done
  <2> HIDE DEF w
  <2>2. Quiet(v, w)
    BY <2>1 DEF Engine, VFields, Quiet, SameMovie, SamePlace, SameFiles, SameQueues
  <2>3. Calm(v, w)
    BY <2>2, QuietCalm
  <2> QED BY <2>3 DEF Calm, w
<1>2. CASE t.what = "seek_save"
  <2> DEFINE sts == [f \in DOMAIN v.g_seek_savestates \cup {t.frame} |->
                        IF f = t.frame THEN st ELSE v.g_seek_savestates[f]]
  <2>1. w = [v EXCEPT !.g_seek_savestates = sts]
    BY <1>2 DEF task_done
  <2>2. \A f \in DOMAIN sts : Frozen(sts[f])
    BY DEF Engine, SeekSavestatesOK
  <2> HIDE DEF w, sts
  <2>3. /\ DOMAIN w = VFields /\ SameMovie(v, w) /\ SamePlace(v, w) /\ SameFiles(v, w)
        /\ w.jobs = v.jobs /\ w.g_tasks = v.g_tasks /\ w.g_task = v.g_task
        /\ w.g_seek_savestates = sts
    BY <2>1 DEF Engine, VFields, SameMovie, SamePlace, SameFiles
  <2>4. Engine(w)
    BY <2>2, <2>3 DEF Engine, SameMovie, SamePlace, SameFiles, MovieOK, FilesOK,
       SeekSavestatesOK, BegunOK, Begun
  <2> QED BY <2>3, <2>4 DEF w, SameMovie, SamePlace, SameFiles, Begun
<1>3. CASE t.what \in {"record_snapshot", "record_existing", "playback_snapshot"}
  <2>1. PICK task \in {"task_recording", "task_playback"} :
           /\ w = [v EXCEPT !.g_task = task]
           /\ t.what # "playback_snapshot" => task = "task_recording"
    BY <1>3 DEF task_done, set_task
  <2> HIDE DEF w
  <2>2. /\ DOMAIN w = VFields /\ SameMovie(v, w) /\ SamePlace(v, w) /\ SameFiles(v, w)
        /\ SameQueues(v, w) /\ w.g_task = task
    BY <2>1 DEF Engine, VFields, SameMovie, SamePlace, SameFiles, SameQueues
  <2>3. Begun(w)
    BY <1>3, <2>2 DEF Starts, SamePlace, Begun
  <2>4. Engine(w)
    BY <2>2, <2>3 DEF Engine, SameMovie, SamePlace, SameFiles, SameQueues, MovieOK, FilesOK,
       SeekSavestatesOK, BegunOK
  <2> QED BY <2>1, <2>2, <2>3, <2>4 DEF w, SameMovie, SamePlace, SameFiles
<1>4. CASE t.what \notin {"seek_load", "seek_save", "record_snapshot", "record_existing",
                          "playback_snapshot"}
  <2>1. w = v
    BY <1>4 DEF task_done
  <2> QED BY <2>1
<1> QED BY <1>1, <1>2, <1>3, <1>4

\* The task that the emulation thread performs.
LEMMA TaskAtHand ==
    ASSUME Inv, NEW i \in 1 .. Len(vcr.g_tasks)
    PROVE  /\ NamesSnapshot(vcr.g_tasks[i]) /\ Frozen(vcr.g_tasks[i].st)
           /\ vcr.g_tasks[i].what \in Starts => Begun(vcr)
  BY DEF Inv, Engine, TasksOK, BegunOK, StartAhead

LEMMA SavesStep ==
    ASSUME Inv, NEW t, t.what \in Starts => Begun(vcr), savestates_save_immediate_impl(t),
           UNCHANGED <<reset, recordings>>, next' \in Nat \ {0}
    PROVE  Inv' /\ Flushed(vcr, vcr')
<1> DEFINE x == write_movie(vcr)
           st == savestate(vcr)
           y == [x EXCEPT !.snapshots[t.path] = st]
<1>1. /\ Engine(x) /\ SameMovie(vcr, x) /\ SamePlace(vcr, x) /\ x.g_task = vcr.g_task
      /\ x.snapshots = vcr.snapshots
  BY WritesMovie DEF Inv
<1>2. Frozen(st)
  <2>1. st.freeze = core_vcr_freeze(vcr)
    BY DEF savestate
  <2>2. Engine(vcr)
    BY DEF Inv
  <2> QED BY <2>1, <2>2, FreezesMovie DEF Frozen
<1>3. \/ /\ vcr' = task_done(IF t.what = "record_snapshot" THEN y ELSE x, t, st)
         /\ slot' \in {st, slot}
      \/ vcr' = task_failed(x, t) /\ slot' = slot
  BY DEF savestates_save_immediate_impl
<1>4. Begun(vcr) => Begun(x)
  BY <1>1 DEF SamePlace, Begun
<1> HIDE DEF x, st
<1>5. /\ Engine(y) /\ SameMovie(vcr, y) /\ SamePlace(vcr, y) /\ y.g_task = vcr.g_task
  <2>1. /\ DOMAIN y = VFields /\ SameMovie(x, y) /\ SamePlace(x, y) /\ SameQueues(x, y)
        /\ y.g_task = x.g_task /\ y.movies = x.movies
        /\ y.snapshots = [x.snapshots EXCEPT ![t.path] = st]
    BY <1>1 DEF Engine, VFields, SameMovie, SamePlace, SameQueues
  <2> HIDE DEF y
  <2>2. DOMAIN y.snapshots = Movies /\ \A p \in Movies : Frozen(y.snapshots[p])
    <3>1. \A p \in Movies : y.snapshots[p] = st \/ y.snapshots[p] = x.snapshots[p]
      BY <1>1, <2>1 DEF Engine, FilesOK
    <3> QED BY <1>1, <1>2, <2>1, <3>1 DEF Engine, FilesOK
  <2>3. Engine(y)
    BY <1>1, <2>1, <2>2 DEF Engine, SameMovie, SamePlace, SameQueues, MovieOK, FilesOK,
       SeekSavestatesOK, BegunOK, Begun
  <2> QED BY <1>1, <2>1, <2>3 DEF SameMovie, SamePlace
<1>6. Begun(vcr) => Begun(y)
  BY <1>5 DEF SamePlace, Begun
<1> HIDE DEF y
<1>7. CASE vcr' = task_failed(x, t) /\ slot' = slot
  <2>1. Goes(x, vcr')
    BY <1>1, <1>7, CallbackFails
  <2>2. Flushed(vcr, vcr')
    BY <1>1, <2>1 DEF Goes, Flushed, SameMovie, SamePlace
  <2> QED BY <1>4, <1>7, <2>1, <2>2 DEF Goes, Inv
<1>8. ASSUME NEW z \in {x, y}, vcr' = task_done(z, t, st), slot' \in {st, slot}
      PROVE  Inv' /\ Flushed(vcr, vcr')
  <2>1. Engine(z) /\ (Begun(vcr) => Begun(z)) /\ z.g_task = vcr.g_task
    BY <1>1, <1>4, <1>5, <1>6
  <2>2. t.what \in Starts => Begun(z)
    BY <2>1
  <2>3. /\ Engine(vcr') /\ (Begun(z) => Begun(vcr'))
        /\ t.what # "playback_snapshot" => vcr'.g_task \in {z.g_task, "task_recording"}
    BY <1>2, <1>8, <2>1, <2>2, CallbackDone
  <2>4. t.what # "playback_snapshot"
    BY DEF savestates_save_immediate_impl, SaveTasks
  <2>5. Flushed(vcr, vcr')
    BY <2>1, <2>3, <2>4 DEF Flushed
  <2> QED BY <1>2, <1>8, <2>1, <2>3, <2>5 DEF Inv
<1> QED BY <1>3, <1>7, <1>8

LEMMA LoadsStep ==
    ASSUME Inv, NEW t, NamesSnapshot(t), Frozen(t.st), t.what \in Starts => Begun(vcr),
           savestates_load_immediate_impl(t), UNCHANGED <<reset, recordings>>, next' \in Nat \ {0}
    PROVE  Inv' /\ (t.what # "playback_snapshot" => Flushed(vcr, vcr'))
<1> DEFINE st == task_buffer(t)
           u == unfrozen(st)
<1>1. Engine(vcr) /\ Frozen(slot) /\ UNCHANGED slot
  BY DEF Inv, savestates_load_immediate_impl
<1>2. Frozen(st)
  <2>1. t.what \in LoadTasks
    BY DEF savestates_load_immediate_impl
  <2>2. t.what \in {"record_existing", "playback_snapshot"} => Frozen(vcr.snapshots[t.path])
    BY <1>1 DEF NamesSnapshot, Engine, FilesOK
  <2> QED BY <1>1, <2>1, <2>2 DEF task_buffer, LoadTasks
<1>3. \/ st = NoState /\ vcr' = task_failed(vcr, t)
      \/ st # NoState /\ vcr' = task_failed(u, t)
      \/ st # NoState /\ vcr' = task_done(u, t, st)
  BY DEF savestates_load_immediate_impl
<1>4. st # NoState => Unfrozen(vcr, u)
  <2>1. Unfrozen(vcr, vcr)
    BY <1>1 DEF Unfrozen
  <2> QED BY <1>1, <1>2, <2>1, Unfreezes DEF unfrozen, Frozen
<1> HIDE DEF st, u
<1>5. CASE st = NoState /\ vcr' = task_failed(vcr, t)
  BY <1>1, <1>5, CallbackFails DEF Goes, Inv
<1>6. CASE st # NoState /\ vcr' = task_failed(u, t)
  <2>1. Goes(vcr, vcr')
    BY <1>4, <1>6, CallbackFailsAfterLoad
  <2> QED BY <1>1, <2>1 DEF Goes, Inv
<1>7. CASE st # NoState /\ vcr' = task_done(u, t, st)
  <2>1. Engine(u) /\ (Begun(vcr) => Begun(u)) /\ Goes(vcr, u)
    BY <1>4, <1>7, UnfrozenGoes DEF Unfrozen
  <2>2. t.what \in Starts => Begun(u)
    BY <2>1
  <2>3. /\ Engine(vcr') /\ (Begun(u) => Begun(vcr'))
        /\ vcr'.movies = u.movies /\ vcr'.g_movie_inputs = u.g_movie_inputs
        /\ vcr'.g_movie_path = u.g_movie_path
        /\ t.what # "playback_snapshot" => vcr'.g_task \in {u.g_task, "task_recording"}
    BY <1>2, <1>7, <2>1, <2>2, CallbackDone
  <2>4. t.what # "playback_snapshot" => Flushed(vcr, vcr')
    BY <2>1, <2>3 DEF Goes, Flushed
  <2> QED BY <1>1, <2>1, <2>3, <2>4 DEF Inv
<1> QED BY <1>3, <1>5, <1>6, <1>7

\* A queue that is emptied: st_do_work is through, or the core stops.
LEMMA QueueCleared ==
    ASSUME NEW v, Engine(v), NEW w, DOMAIN w = VFields, SameMovie(v, w), SamePlace(v, w),
           SameFiles(v, w), w.jobs = v.jobs, w.g_seek_savestates = v.g_seek_savestates,
           w.g_task = v.g_task, w.g_tasks = << >>
    PROVE  Calm(v, w)
<1>1. Engine(w)
  BY EmptyQueues DEF Engine, SameMovie, SamePlace, SameFiles, MovieOK, FilesOK,
     SeekSavestatesOK, BegunOK, Begun
<1> QED BY <1>1 DEF Calm, SameMovie, SamePlace, SameFiles, Begun

LEMMA EmuThreadStep == ASSUME Inv, EmuThread PROVE Good
<1>e. Engine(vcr) /\ DOMAIN vcr = VFields /\ recordings \in Nat /\ next \in Nat \ {0}
  BY DEF Inv, Engine
<1>1. CASE update_pif_read
  <2>1. vcr' = advance_frame(vcr) /\ UNCHANGED <<slot, reset, recordings, next>>
    BY <1>1 DEF update_pif_read
  <2> DEFINE z == [vcr EXCEPT !.frame_advance_outstanding = 0]
             y == [vcr EXCEPT !.frame_advance_outstanding = @ - 1]
  <2>2. Quiet(vcr, z) /\ Quiet(vcr, y)
    BY <1>e DEF VFields, Quiet, SameMovie, SamePlace, SameFiles, SameQueues
  <2>3. vcr' \in {core_vr_pause_emu(z), y, vcr}
    BY <2>1 DEF advance_frame
  <2> HIDE DEF z, y
  <2>4. Quiet(z, core_vr_pause_emu(z))
    BY <2>2, PausingQuiet DEF Quiet
  <2>5. Quiet(vcr, vcr')
    BY <1>e, <2>2, <2>3, <2>4, QuietTransitive, QuietSelf
  <2> QED BY <1>e, <2>1, <2>5, QuietGoes, PlainStep
<1>2. CASE pif_resumed \/ pif_no_work
  <2>1. UNCHANGED <<vcr, slot, reset, recordings, next>>
    BY <1>2 DEF pif_resumed, pif_no_work
  <2> QED BY <1>e, <2>1, GoesNowhere, PlainStep
<1>3. CASE st_do_work_begin
  <2>1. vcr' \in {vcr, write_movie(vcr)} /\ next' = 1 /\ UNCHANGED <<slot, reset, recordings>>
    BY <1>3 DEF st_do_work_begin
  <2>2. Goes(vcr, write_movie(vcr))
    BY <1>e, WritesMovie DEF Goes, Flushed, SamePlace, Begun
  <2> QED BY <1>e, <2>1, <2>2, GoesNowhere, PlainStep
<1>4. CASE st_do_work_task
  <2> DEFINE t == vcr.g_tasks[next]
  <2>1. /\ working /\ next' = next + 1 /\ next <= Len(vcr.g_tasks)
        /\ savestates_save_immediate_impl(t) \/ savestates_load_immediate_impl(t)
        /\ UNCHANGED <<reset, recordings>>
    BY <1>4 DEF st_do_work_task
  <2>2. next \in 1 .. Len(vcr.g_tasks) /\ next' \in Nat \ {0}
    <3>1. Len(vcr.g_tasks) \in Nat
      BY <1>e, PushFront DEF Engine, TasksOK
    <3> QED BY <1>e, <2>1, <3>1
  <2>3. NamesSnapshot(t) /\ Frozen(t.st) /\ (t.what \in Starts => Begun(vcr))
    BY <2>2, TaskAtHand
  <2>4. Inv' /\ (t.what # "playback_snapshot" => Flushed(vcr, vcr'))
    <3> HIDE DEF t
    <3> QED BY <2>1, <2>2, <2>3, SavesStep, LoadsStep
  <2> QED BY <2>1, <2>4 DEF Good, PlaybackTakesOver
<1>5. CASE st_do_work_end
  <2>1. vcr' = [vcr EXCEPT !.g_tasks = << >>] /\ UNCHANGED <<slot, reset, recordings, next>>
    BY <1>5 DEF st_do_work_end
  <2>2. /\ DOMAIN vcr' = VFields /\ SameMovie(vcr, vcr') /\ SamePlace(vcr, vcr')
        /\ SameFiles(vcr, vcr') /\ vcr'.jobs = vcr.jobs /\ vcr'.g_task = vcr.g_task
        /\ vcr'.g_seek_savestates = vcr.g_seek_savestates /\ vcr'.g_tasks = << >>
    BY <1>e, <2>1 DEF VFields, SameMovie, SamePlace, SameFiles
  <2>3. Goes(vcr, vcr')
    BY <1>e, <2>2, QueueCleared, CalmGoes
  <2> QED BY <1>e, <2>1, <2>3, PlainStep
<1>6. CASE internal_ReadController
  <2>1. PICK keys \in Buttons : vcr' = vcr_on_controller_poll(vcr, channel, keys)
    BY <1>6 DEF internal_ReadController
  <2>2. UNCHANGED <<slot, reset, recordings, next>>
    BY <1>6 DEF internal_ReadController
  <2>3. Goes(vcr, vcr')
    BY <1>e, <2>1, Polls
  <2> QED BY <1>e, <2>2, <2>3, PlainStep
<1>7. CASE emu_thread_ends
  <2>1. /\ vcr' = [vcr EXCEPT !.core_executing = FALSE, !.emu_paused = TRUE, !.g_tasks = << >>]
        /\ UNCHANGED <<slot, reset, recordings, next>>
    BY <1>7 DEF emu_thread_ends
  <2>2. /\ DOMAIN vcr' = VFields /\ SameMovie(vcr, vcr') /\ SamePlace(vcr, vcr')
        /\ SameFiles(vcr, vcr') /\ vcr'.jobs = vcr.jobs /\ vcr'.g_task = vcr.g_task
        /\ vcr'.g_seek_savestates = vcr.g_seek_savestates /\ vcr'.g_tasks = << >>
    BY <1>e, <2>1 DEF VFields, SameMovie, SamePlace, SameFiles
  <2>3. Goes(vcr, vcr')
    BY <1>e, <2>2, QueueCleared, CalmGoes
  <2> QED BY <1>e, <2>1, <2>3, PlainStep
<1> QED BY <1>1, <1>2, <1>3, <1>4, <1>5, <1>6, <1>7 DEF EmuThread

\* A job that a worker has taken out.
LEMMA JobAtHand ==
    ASSUME Inv, NEW i \in 1 .. Len(vcr.jobs)
    PROVE  /\ Calm(vcr, without_job(vcr, i))
           /\ without_job(vcr, i).g_seek_savestates = vcr.g_seek_savestates
           /\ NamesSnapshot(vcr.jobs[i])
           /\ vcr.jobs[i].what \in Starts => Begun(vcr)
<1> DEFINE w == without_job(vcr, i)
<1>1. /\ DOMAIN w = VFields /\ SameMovie(vcr, w) /\ SamePlace(vcr, w) /\ SameFiles(vcr, w)
      /\ w.g_tasks = vcr.g_tasks /\ w.g_seek_savestates = vcr.g_seek_savestates
      /\ w.g_task = vcr.g_task /\ w.jobs = RemoveIndex(vcr.jobs, i)
  BY DEF without_job, Inv, Engine, VFields, SameMovie, SamePlace, SameFiles
<1> HIDE DEF w
<1>2. JobsOK(w.jobs) /\ (StartAhead(w.jobs) => StartAhead(vcr.jobs))
  BY <1>1, JobTaken DEF Inv, Engine
<1>3. Engine(w)
  BY <1>1, <1>2 DEF Inv, Engine, SameMovie, SamePlace, SameFiles, MovieOK, FilesOK,
     SeekSavestatesOK, BegunOK, Begun
<1>4. Calm(vcr, w)
  BY <1>1, <1>3 DEF Calm, SameMovie, SamePlace, SameFiles, Begun
<1>5. NamesSnapshot(vcr.jobs[i]) /\ (vcr.jobs[i].what \in Starts => Begun(vcr))
  BY DEF Inv, Engine, JobsOK, BegunOK, StartAhead
<1> QED BY <1>1, <1>4, <1>5 DEF w

\* g_seek_savestates[key] may add an empty entry.
LEMMA Touched ==
    ASSUME NEW v, Engine(v), NEW key
    PROVE  Calm(v, touch_seek_savestate(v, key)) /\ Frozen(seek_savestate_at(v, key))
<1> DEFINE w == touch_seek_savestate(v, key)
           st == seek_savestate_at(v, key)
           sts == [f \in DOMAIN v.g_seek_savestates \cup {key} |->
                      IF f = key THEN st ELSE v.g_seek_savestates[f]]
<1>1. Frozen(st)
  BY NothingFrozen DEF seek_savestate_at, Engine, SeekSavestatesOK
<1>2. w = [v EXCEPT !.g_seek_savestates = sts]
  BY DEF touch_seek_savestate
<1> HIDE DEF w, st
<1>3. \A f \in DOMAIN sts : Frozen(sts[f])
  BY <1>1 DEF Engine, SeekSavestatesOK
<1> HIDE DEF sts
<1>4. /\ DOMAIN w = VFields /\ SameMovie(v, w) /\ SamePlace(v, w) /\ SameFiles(v, w)
      /\ w.jobs = v.jobs /\ w.g_tasks = v.g_tasks /\ w.g_task = v.g_task
      /\ w.g_seek_savestates = sts
  BY <1>2 DEF Engine, VFields, SameMovie, SamePlace, SameFiles
<1>5. Engine(w)
  BY <1>3, <1>4 DEF Engine, SameMovie, SamePlace, SameFiles, MovieOK, FilesOK,
     SeekSavestatesOK, BegunOK, Begun
<1>6. Calm(v, w)
  BY <1>4, <1>5 DEF Calm, SameMovie, SamePlace, SameFiles, Begun
<1> QED BY <1>1, <1>6 DEF w, st

LEMMA JobLoadStep ==
    ASSUME Inv, NEW i \in 1 .. Len(vcr.jobs), job_load(i) PROVE Good
<1> DEFINE j == vcr.jobs[i]
           u == without_job(vcr, i)
           v == IF j.what = "seek_load" THEN touch_seek_savestate(u, j.frame) ELSE u
           t == job_task(vcr, j)
<1>1. /\ vcr' \in {st_push(v, t), task_failed(v, t)}
      /\ UNCHANGED <<slot, reset, recordings, next>>
  BY DEF job_load
<1>2. Calm(vcr, u) /\ NamesSnapshot(j) /\ (j.what \in Starts => Begun(vcr))
  BY JobAtHand
<1>3. Engine(vcr) /\ Engine(u) /\ recordings \in Nat /\ next \in Nat \ {0}
  BY <1>2 DEF Inv, Calm
<1>4. t.what = j.what /\ t.path = j.path /\ t.st = seek_savestate_at(vcr, j.frame)
  BY RequestFields DEF job_task
<1>5. NamesSnapshot(t) /\ Frozen(t.st)
  BY <1>2, <1>3, <1>4, Touched DEF NamesSnapshot
<1> HIDE DEF j, t, u
<1>6. Calm(vcr, v) /\ Engine(v)
  <2>1. Calm(u, touch_seek_savestate(u, j.frame))
    BY <1>3, Touched
  <2>2. Calm(vcr, v)
    BY <1>2, <2>1, CalmTransitive
  <2> QED BY <2>2 DEF Calm
<1>7. t.what \in Starts => Begun(v)
  BY <1>2, <1>4, <1>6 DEF Calm
<1> HIDE DEF v
<1>8. Goes(v, st_push(v, t)) /\ Goes(v, task_failed(v, t))
  BY <1>5, <1>6, <1>7, TaskRequested, CalmGoes, CallbackFails
<1>9. Goes(vcr, vcr')
  BY <1>1, <1>6, <1>8, CalmThenGoes
<1> QED BY <1>1, <1>3, <1>9, PlainStep

\* The fields of a reset in progress.
LEMMA ResetFields ==
    /\ \A what, stage, result : Reset(what, stage, result).what = what
    /\ NoReset.what \notin Starts
<1>1. \A what, stage, result : Reset(what, stage, result).what = what
  BY DEF Reset
<1> QED BY <1>1 DEF NoReset, Starts

LEMMA ClosesRom ==
    ASSUME NEW v, Engine(v), NEW what PROVE Goes(v, close_rom(v, what))
<1> DEFINE w == core_vr_resume_emu_impl(v, TRUE)
<1>1. Quiet(v, w)
  BY PausingQuiet DEF Engine
<1>2. close_rom(v, what) \in {w, core_vcr_stop_all(w)}
  BY DEF close_rom
<1> HIDE DEF w
<1>3. Engine(w)
  BY <1>1, QuietKeeps
<1>4. Goes(w, core_vcr_stop_all(w)) /\ Goes(w, w)
  BY <1>3, StopsAll, StoppedGoes, GoesNowhere
<1> QED BY <1>1, <1>2, <1>4, QuietThenGoes

\* A worker that resets or closes the ROM.
LEMMA ResetBeginsStep ==
    ASSUME Inv, NEW i \in 1 .. Len(vcr.jobs), vr_reset_rom_impl(i) \/ vr_close_rom_impl(i)
    PROVE  Good
<1> DEFINE j == vcr.jobs[i]
           u == without_job(vcr, i)
           a == [u EXCEPT !.vcr_reset_requested = TRUE]
           b == stop_frame_advance(u)
<1>1. /\ vcr' \in {u, a, close_rom(b, j.what), close_rom(u, "ui_close")}
      /\ \/ reset' = reset
         \/ \E stage, result : reset' = Reset(j.what, stage, result)
      /\ UNCHANGED <<slot, recordings, next>>
  BY DEF vr_reset_rom_impl, vr_close_rom_impl
<1>2. Calm(vcr, u) /\ (j.what \in Starts => Begun(vcr))
  BY JobAtHand
<1>3. Engine(u) /\ DOMAIN u = VFields
  BY <1>2 DEF Calm, Engine
<1> HIDE DEF j, u
<1>4. Quiet(u, a) /\ Quiet(u, b)
  BY <1>3, PausingQuiet DEF VFields, Quiet, SameMovie, SamePlace, SameFiles, SameQueues
<1> HIDE DEF a, b
<1>5. Goes(u, a) /\ Engine(b)
  BY <1>3, <1>4, QuietGoes, QuietKeeps
<1>6. Goes(b, close_rom(b, j.what)) /\ Goes(u, close_rom(u, "ui_close")) /\ Goes(u, u)
  BY <1>3, <1>5, ClosesRom, GoesNowhere
<1>7. Goes(u, close_rom(b, j.what))
  BY <1>3, <1>4, <1>6, QuietThenGoes
<1>8. Goes(vcr, vcr')
  BY <1>1, <1>2, <1>5, <1>6, <1>7, CalmThenGoes
<1>9. reset'.what \in Starts => Begun(vcr')
  BY <1>1, <1>2, <1>8, ResetFields DEF Inv, Goes
<1> QED BY <1>1, <1>8, <1>9 DEF Inv, Goes, Good

LEMMA StartRomStep == ASSUME Inv, vr_start_rom_impl PROVE Good
<1> DEFINE w == [vcr EXCEPT !.core_executing = TRUE, !.emu_paused = FALSE]
<1>1. /\ vcr' \in {w, vcr} /\ UNCHANGED <<slot, recordings, next>>
      /\ \E stage, result : reset' = Reset(reset.what, stage, result)
  BY DEF vr_start_rom_impl
<1>2. Quiet(vcr, w)
  BY DEF Inv, Engine, VFields, Quiet, SameMovie, SamePlace, SameFiles, SameQueues
<1> HIDE DEF w
<1>3. Goes(vcr, vcr')
  BY <1>1, <1>2, QuietGoes, GoesNowhere DEF Inv
<1>4. reset'.what \in Starts => Begun(vcr')
  BY <1>1, <1>3, ResetFields DEF Inv, Goes
<1> QED BY <1>1, <1>3, <1>4 DEF Inv, Goes, Good

\* The job behind a reset: its callback starts the movie or stops it.
LEMMA ResetCallbackStep == ASSUME Inv, reset_callback PROVE Good
<1> DEFINE v == no_reset_pending(vcr)
<1>1. /\ \/ vcr' = reset_done(reset.what)
         \/ vcr' = reset_failed(reset.what)
      /\ reset' = NoReset /\ reset.stage = "callback"
      /\ UNCHANGED <<slot, recordings, next>>
  BY DEF reset_callback
<1>2. Quiet(vcr, v)
  BY PausingQuiet DEF Inv, Engine
<1>3. \/ vcr' \in {vcr, v, core_vcr_stop_all(v)}
      \/ reset.what = "record_reset" /\ vcr' = started(v, "task_recording")
      \/ reset.what = "playback_reset" /\ vcr' = started(v, "task_playback")
  BY <1>1 DEF reset_done, reset_failed
<1> HIDE DEF v
<1>4. Engine(v) /\ Goes(vcr, v) /\ Goes(vcr, vcr)
  BY <1>2, QuietKeeps, QuietGoes, GoesNowhere DEF Inv
<1>5. Goes(vcr, core_vcr_stop_all(v))
  BY <1>2, <1>4, StopsAll, StoppedGoes, QuietThenGoes DEF Inv
<1>6. CASE vcr' \in {vcr, v, core_vcr_stop_all(v)}
  BY <1>1, <1>4, <1>5, <1>6, ResetFields DEF Inv, Goes, Good
<1>7. ASSUME NEW task, vcr' = started(v, task), reset.what \in {"record_reset", "playback_reset"}
      PROVE  Inv' /\ vcr'.g_task = task
  <2>1. Begun(vcr)
    BY <1>7 DEF Inv, Starts
  <2>2. v.g_movie_path \in Movies
    BY <1>2, <2>1 DEF Quiet, SamePlace, Begun
  <2>3. Engine(vcr') /\ Begun(vcr') /\ vcr'.g_task = task
    BY <1>4, <1>7, <2>2, MovieStarted
  <2> QED BY <1>1, <2>3 DEF Inv
<1>8. CASE reset.what = "record_reset" /\ vcr' = started(v, "task_recording")
  BY <1>7, <1>8 DEF Good, Flushed
<1>9. CASE reset.what = "playback_reset" /\ vcr' = started(v, "task_playback")
  BY <1>1, <1>7, <1>9 DEF Good, PlaybackTakesOver
<1> QED BY <1>3, <1>6, <1>8, <1>9

LEMMA WorkersStep == ASSUME Inv, Workers PROVE Good
<1>1. CASE rom_closed
  <2>1. UNCHANGED <<vcr, slot, recordings, next>> /\ reset' = NoReset
    BY <1>1 DEF rom_closed
  <2>2. Goes(vcr, vcr')
    BY <2>1, GoesNowhere DEF Inv
  <2> QED BY <2>1, <2>2, ResetFields DEF Inv, Goes, Good
<1> QED BY <1>1, JobLoadStep, ResetBeginsStep, StartRomStep, ResetCallbackStep DEF Workers

\* A command of the user.
LEMMA CommandStep ==
    ASSUME Inv, NEW op, NEW v, user(op, v), Goes(vcr, v), recordings' \in {recordings, recordings + 1}
    PROVE  Good
<1>1. vcr' = v /\ UNCHANGED <<slot, reset, next>>
  BY DEF user
<1>2. recordings' \in Nat /\ next' \in Nat \ {0}
  BY <1>1 DEF Inv
<1> QED BY <1>1, <1>2, PlainStep

\* An edit of the piano roll is a sequence of inputs.
LEMMA EditedInputs == ASSUME NEW s \in Seq(Input), NEW e \in edits(s) PROVE e \in Seq(Input)
<1>1. ASSUME NEW i \in scene.first_edit + 1 .. Len(s), NEW b \in Buttons, e = [s EXCEPT ![i] = b]
      PROVE  e \in Seq(Input)
  <2>1. b \in Input
    BY DEF Input
  <2>2. s \in [1 .. Len(s) -> Input] /\ Len(s) \in Nat
    OBVIOUS
  <2>3. e \in [1 .. Len(s) -> Input]
    BY <1>1, <2>1, <2>2
  <2> QED BY <2>2, <2>3, SeqDef
<1>2. ASSUME NEW n \in scene.first_edit + 1 .. Len(s), e = SubSeq(s, 1, n)
      PROVE  e \in Seq(Input)
  <2>1. n \in Int /\ n <= Len(s)
    OBVIOUS
  <2>2. CASE n < 1
    BY <1>2, <2>1, <2>2
  <2>3. CASE n >= 1
    BY <1>2, <2>1, <2>3
  <2> QED BY <2>1, <2>2, <2>3
<1>3. ASSUME NEW b \in Buttons, e = Append(s, b) PROVE e \in Seq(Input)
  BY <1>3 DEF Input
<1> QED BY <1>1, <1>2, <1>3 DEF edits

LEMMA UserStep == ASSUME Inv, User PROVE Good
<1>e. Engine(vcr) /\ DOMAIN vcr = VFields /\ recordings \in Nat
  BY DEF Inv, Engine
<1>1. ASSUME NEW path \in Movies, NEW flags \in StartFlags, user_start_record(path, flags)
      PROVE  Good
  <2>1. /\ user(flags, core_vcr_start_record(vcr, path, flags, recordings + 2))
        /\ recordings' = recordings + 1
    BY <1>1 DEF user_start_record
  <2>2. Goes(vcr, core_vcr_start_record(vcr, path, flags, recordings + 2))
    BY <1>e, StartsRecord
  <2> QED BY <2>1, <2>2, CommandStep
<1>d. ASSUME NEW path \in Movies, user_declines_record(path) PROVE Good
  BY <1>e, <1>d, DeclinedGoes, CommandStep DEF user_declines_record
<1>2. ASSUME NEW path \in Movies, user_start_playback(path) PROVE Good
  BY <1>e, <1>2, StartsPlayback, CommandStep DEF user_start_playback
<1>3. CASE user_stop_all
  BY <1>e, <1>3, StopsAll, StoppedGoes, CommandStep DEF user_stop_all
<1>4. ASSUME NEW frame, NEW pause, user_begin_seek(frame, pause) PROVE Good
  BY <1>e, <1>4, BeginsSeek, CommandStep DEF user_begin_seek, core_vcr_begin_seek
<1>5. CASE user_stop_seek
  BY <1>e, <1>5, PausingQuiet, QuietGoes, CommandStep DEF user_stop_seek
<1>6. ASSUME NEW inputs \in edits(vcr.g_movie_inputs), user_begin_warp_modify(inputs) PROVE Good
  <2>1. inputs \in Seq(Input)
    BY <1>e, EditedInputs DEF Engine, MovieOK
  <2>2. Goes(vcr, core_vcr_begin_warp_modify(vcr, inputs))
    BY <1>e, <2>1, BeginsWarpModify
  <2> QED BY <1>6, <2>2, CommandStep DEF user_begin_warp_modify
<1>7. ASSUME NEW what \in {"slot_save", "slot_load"}, user_savestate(what) PROVE Good
  <2> DEFINE t == StTask(what, 0, NoMovie, NoState)
  <2>1. NamesSnapshot(t) /\ Frozen(t.st) /\ t.what \notin Starts
    BY RequestFields, NothingFrozen DEF NamesSnapshot, Starts
  <2>2. user(what, st_push(vcr, t)) /\ recordings' = recordings
    BY <1>7 DEF user_savestate
  <2> HIDE DEF t
  <2>3. Goes(vcr, st_push(vcr, t))
    BY <1>e, <2>1, TaskRequested, CalmGoes
  <2> QED BY <2>2, <2>3, CommandStep
<1>8. CASE user_pause
  <2>1. /\ Goes(vcr, core_vr_pause_emu(vcr)) /\ Goes(vcr, core_vr_resume_emu(vcr))
        /\ Goes(vcr, core_vr_frame_advance(vcr, 1))
    BY <1>e, PausingQuiet, QuietGoes
  <2> QED BY <1>8, <2>1, CommandStep DEF user_pause
<1>9. CASE user_toggle_readonly
  <2> DEFINE w == [vcr EXCEPT !.vcr_readonly = ~@]
  <2>1. user("readonly", w) /\ recordings' = recordings
    BY <1>9 DEF user_toggle_readonly
  <2>2. Quiet(vcr, w)
    BY <1>e DEF VFields, Quiet, SameMovie, SamePlace, SameFiles, SameQueues
  <2> HIDE DEF w
  <2> QED BY <1>e, <2>1, <2>2, QuietGoes, CommandStep
<1>10. CASE user_reset_rom
  <2>1. ASSUME NEW what \in {"ui_reset", "ui_close"}
        PROVE  Goes(vcr, submit_task(vcr, Job(what, 0, NoMovie)))
    <3>1. NamesSnapshot(Job(what, 0, NoMovie)) /\ Job(what, 0, NoMovie).what \notin Starts
      BY RequestFields DEF NamesSnapshot, Starts
    <3> QED BY <1>e, <3>1, JobSubmitted, CalmGoes
  <2> QED BY <1>10, <2>1, CommandStep DEF user_reset_rom
<1> QED BY <1>1, <1>2, <1>d, <1>3, <1>4, <1>5, <1>6, <1>7, <1>8, <1>9, <1>10 DEF User

-----------------------------------------------------------------------------
(* The theorems                                                            *)

\* The initial state, with the movie files of any scenario.
LEMMA InitInv == Init => Inv
<1> SUFFICES ASSUME Init PROVE Inv
  OBVIOUS
<1>1. scene \in Scenarios
  BY DEF Init
<1> DEFINE sts(files) ==
             [p \in Movies |->
                    IF files[p] = NoMovie THEN NoState
                    ELSE IF files[p].startFlags # "MOVIE_START_FROM_SNAPSHOT" THEN NoState
                    ELSE [machine |-> Snapshot,
                          freeze |-> [is_movie |-> TRUE, uid |-> files[p].uid,
                                      current_sample |-> 0, length_samples |-> 0,
                                      input_buffer |-> << >>]]]
<1>2. PICK files \in [Movies -> scene.files] :
         \E chts : vcr = InitialVcr(scene.cfg, files, sts(files), chts)
  BY DEF Init
<1>3. files \in [Movies -> MovieFiles \cup {NoMovie}]
  BY <1>1, <1>2, ScenariosAssumption
<1>4. \A p \in Movies : Frozen(sts(files)[p])
  <2> TAKE p \in Movies
  <2> DEFINE f == [is_movie |-> TRUE, uid |-> files[p].uid, current_sample |-> 0,
                   length_samples |-> 0, input_buffer |-> << >>]
             st == [machine |-> Snapshot, freeze |-> f]
  <2>1. sts(files)[p] \in {NoState, st}
    OBVIOUS
  <2>2. st.freeze = f
    OBVIOUS
  <2>3. f.current_sample = 0 /\ f.input_buffer = << >>
    OBVIOUS
  <2>4. << >> \in Seq(Input) /\ 0 \in Nat
    OBVIOUS
  <2> HIDE DEF f, st
  <2>5. Frozen(st)
    BY <2>2, <2>3, <2>4 DEF Frozen
  <2> QED BY <2>1, <2>5, NothingFrozen
<1>5. DOMAIN sts(files) = Movies
  OBVIOUS
<1> HIDE DEF sts
<1>6. /\ DOMAIN vcr = VFields
      /\ vcr.g_task = "task_idle" /\ vcr.uid = 0 /\ vcr.startFlags = "MOVIE_START_FROM_NOTHING"
      /\ vcr.length_samples = 0 /\ vcr.g_movie_inputs = << >>
      /\ vcr.movies = files /\ vcr.snapshots = sts(files)
      /\ vcr.g_tasks = << >> /\ vcr.jobs = << >> /\ vcr.g_seek_savestates = << >>
  BY <1>2 DEF InitialVcr, VFields
<1>7. << >> \in Seq(Input) /\ Len(<< >>) = 0 /\ DOMAIN << >> = {}
  OBVIOUS
<1>8. Engine(vcr)
  BY <1>3, <1>4, <1>5, <1>6, <1>7, EmptyQueues
  DEF Engine, MovieOK, FilesOK, SeekSavestatesOK, BegunOK, StartFlags
<1>9. /\ slot = NoState /\ recordings = 0 /\ next = 1 /\ reset = NoReset
  BY DEF Init
<1> QED BY <1>8, <1>9, NothingFrozen, ResetFields DEF Inv

LEMMA StepGood == ASSUME Inv, Next PROVE Good
  BY EmuThreadStep, WorkersStep, UserStep DEF Next

LEMMA StutterInv == ASSUME Inv, UNCHANGED vars PROVE Inv'
  BY DEF Inv, vars

\* The movie, its file and what is on its way fit together in every reachable state.
THEOREM EngineConsistent == Spec => []Inv
<1>1. Inv /\ [Next]_vars => Inv'
  BY StepGood, StutterInv DEF Good
<1> QED BY <1>1, InitInv, PTL DEF Spec

\* Whatever is recorded, loaded, edited, stopped or lost, length_samples is the
\* number of inputs: write_movie_impl and core_vcr_freeze never copy beyond them.
THEOREM HeaderMatchesInputs == Spec => []LengthMatchesInputs
<1>1. Inv => LengthMatchesInputs
  BY DEF Inv, Engine, MovieOK, LengthMatchesInputs
<1> QED BY <1>1, EngineConsistent, PTL

\* A recording that ends is in its file with all its inputs, in every scenario, unless a
\* playback that was requested before takes the engine over in its callback.
THEOREM RecordingsAreFlushed ==
    Spec => ([][~PlaybackTakesOver]_vars => RecordingFlushed)
<1>1. Inv /\ [Next]_vars => [PlaybackTakesOver \/ Flushed(vcr, vcr')]_vars
  BY StepGood DEF Good
<1>2. [PlaybackTakesOver \/ Flushed(vcr, vcr')]_vars /\ [~PlaybackTakesOver]_vars
        => [(vcr.g_task = "task_recording" /\ vcr'.g_task # "task_recording")
           => /\ vcr'.movies[vcr.g_movie_path] # NoMovie
              /\ vcr'.movies[vcr.g_movie_path].inputs
                    \in {vcr.g_movie_inputs, vcr'.g_movie_inputs}]_vars
  BY DEF Flushed
<1> QED BY <1>1, <1>2, EngineConsistent, PTL DEF Spec, RecordingFlushed

-----------------------------------------------------------------------------
(* What the engine waits for                                               *)

\* The jobs of the workers, and the savestate tasks from the k-th on, which the
\* emulation thread has still to perform.
JobIn(v, x) == \E i \in 1 .. Len(v.jobs) : v.jobs[i] = x
TaskIn(v, k, x) == \E i \in k .. Len(v.g_tasks) : v.g_tasks[i] = x
Ahead(v, k, x) == JobIn(v, x) \/ TaskIn(v, k, x)

EngineResets == {"record_reset", "playback_reset", "movie_reset", "user_reset"}
SnapshotStarts == {"task_start_recording_from_snapshot",
                   "task_start_recording_from_existing_snapshot",
                   "task_start_playback_from_snapshot"}

\* A pending reset is a worker's job, or (resetting) in progress.
ResetAwaited(v, resetting) ==
    v.g_reset_pending => resetting \/ \E x : JobIn(v, x) /\ x.what \in EngineResets

\* A load that a movie starts with will find its snapshot.
SnapshotAhead(v, k, what) ==
    \E x : Ahead(v, k, x) /\ x.what = what /\ v.snapshots[x.path] # NoState

\* The savestate that the engine waits for is on its way.
Awaited(v, k) ==
    /\ v.g_seek_savestate_loading => \E x : Ahead(v, k, x) /\ x.what = "seek_load"
    /\ v.g_task = "task_start_recording_from_snapshot" =>
          \E x : TaskIn(v, k, x) /\ x.what = "record_snapshot"
    /\ v.g_task = "task_start_recording_from_existing_snapshot" =>
          SnapshotAhead(v, k, "record_existing") /\ v.core_executing
    /\ v.g_task = "task_start_playback_from_snapshot" =>
          SnapshotAhead(v, k, "playback_snapshot")

\* At most one load of a seek savestate is on its way, and only while it is waited for.
Lone(v, k) ==
    /\ \A x : Ahead(v, k, x) /\ x.what = "seek_load" => v.g_seek_savestate_loading
    /\ \A i, j \in 1 .. Len(v.jobs) :
          v.jobs[i].what = "seek_load" /\ v.jobs[j].what = "seek_load" => i = j
    /\ \A i, j \in k .. Len(v.g_tasks) :
          v.g_tasks[i].what = "seek_load" /\ v.g_tasks[j].what = "seek_load" => i = j
    /\ \A i \in 1 .. Len(v.jobs), j \in k .. Len(v.g_tasks) :
          ~(v.jobs[i].what = "seek_load" /\ v.g_tasks[j].what = "seek_load")

\* What a call of the engine does to all this: nothing is waited for in vain.
Keeps(v, w, k) ==
    /\ \A r \in BOOLEAN : ResetAwaited(v, r) => ResetAwaited(w, r)
    /\ Awaited(v, k) => Awaited(w, k)
    /\ Lone(v, k) => Lone(w, k)

\* A call that begins no load of a seek savestate.
Serves(v, w, k) ==
    Keeps(v, w, k) /\ (w.g_seek_savestate_loading => v.g_seek_savestate_loading)

LEMMA KeepsTransitive ==
    ASSUME NEW u, NEW v, NEW w, NEW k, Keeps(u, v, k), Keeps(v, w, k) PROVE Keeps(u, w, k)
  BY DEF Keeps

LEMMA ServesTransitive ==
    ASSUME NEW u, NEW v, NEW w, NEW k, Serves(u, v, k), Serves(v, w, k) PROVE Serves(u, w, k)
  BY KeepsTransitive DEF Serves

LEMMA ServesItself == \A v, k : Serves(v, v, k)
  BY DEF Serves, Keeps

\* Calls that ask for nothing: a task they set waits for no savestate.
Eases(v, w) ==
    /\ w.jobs = v.jobs /\ w.g_tasks = v.g_tasks
    /\ w.g_reset_pending => v.g_reset_pending
    /\ w.g_seek_savestate_loading = v.g_seek_savestate_loading
    /\ w.g_task \in SnapshotStarts =>
          /\ w.g_task = v.g_task /\ w.core_executing = v.core_executing
          /\ \A p \in Movies : v.snapshots[p] # NoState => w.snapshots[p] # NoState

LEMMA EasesTransitive ==
    ASSUME NEW u, NEW v, NEW w, Eases(u, v), Eases(v, w) PROVE Eases(u, w)
  BY DEF Eases

\* Requests that start a movie name its snapshot.
LEMMA RequestNames ==
    ASSUME NEW v, Engine(v), NEW k \in Nat \ {0}, NEW x, Ahead(v, k, x),
           x.what \in {"record_existing", "playback_snapshot"}
    PROVE  x.path \in Movies
<1>1. CASE JobIn(v, x)
  BY <1>1 DEF JobIn, Engine, JobsOK, NamesSnapshot
<1>2. CASE TaskIn(v, k, x)
  <2>1. PICK i \in k .. Len(v.g_tasks) : v.g_tasks[i] = x
    BY <1>2 DEF TaskIn
  <2>2. i \in 1 .. Len(v.g_tasks)
    OBVIOUS
  <2> QED BY <2>1, <2>2 DEF Engine, TasksOK, NamesSnapshot
<1> QED BY <1>1, <1>2 DEF Ahead

LEMMA EasesServes ==
    ASSUME NEW v, NEW w, Engine(v), NEW k \in Nat \ {0}, Eases(v, w)
    PROVE  Serves(v, w, k)
<1>1. \A x : (JobIn(w, x) <=> JobIn(v, x)) /\ (TaskIn(w, k, x) <=> TaskIn(v, k, x))
  BY DEF Eases, JobIn, TaskIn
<1>2. \A x : Ahead(w, k, x) <=> Ahead(v, k, x)
  BY <1>1 DEF Ahead
<1>3. \A r \in BOOLEAN : ResetAwaited(v, r) => ResetAwaited(w, r)
  BY <1>1 DEF ResetAwaited, Eases
<1>4. \A what \in {"record_existing", "playback_snapshot"} :
         SnapshotAhead(v, k, what) /\ w.g_task \in SnapshotStarts => SnapshotAhead(w, k, what)
  BY <1>2, RequestNames DEF SnapshotAhead, Eases
<1>5. Awaited(v, k) => Awaited(w, k)
  BY <1>1, <1>2, <1>4 DEF Awaited, Eases, SnapshotStarts
<1>6. Lone(v, k) => Lone(w, k)
  BY <1>2 DEF Lone, Eases
<1> QED BY <1>3, <1>5, <1>6 DEF Serves, Keeps, Eases

\* A job for the workers.
LEMMA JobIsIn ==
    ASSUME NEW v, Engine(v), NEW j
    PROVE  LET w == submit_task(v, j)
           IN  /\ \A x : JobIn(w, x) <=> JobIn(v, x) \/ x = j
               /\ \A k, x : TaskIn(w, k, x) <=> TaskIn(v, k, x)
               /\ w.g_tasks = v.g_tasks /\ w.g_reset_pending = v.g_reset_pending
               /\ w.g_seek_savestate_loading = v.g_seek_savestate_loading
               /\ w.g_task = v.g_task /\ w.core_executing = v.core_executing
               /\ w.snapshots = v.snapshots /\ w.jobs = Append(v.jobs, j)
               /\ w.vcr_readonly = v.vcr_readonly /\ w.seek_to_frame = v.seek_to_frame
               /\ w.cheat_layers = v.cheat_layers
<1> DEFINE w == submit_task(v, j)
<1>1. /\ w.g_tasks = v.g_tasks /\ w.g_reset_pending = v.g_reset_pending
      /\ w.g_seek_savestate_loading = v.g_seek_savestate_loading
      /\ w.g_task = v.g_task /\ w.core_executing = v.core_executing
      /\ w.snapshots = v.snapshots /\ w.jobs = Append(v.jobs, j)
      /\ w.vcr_readonly = v.vcr_readonly /\ w.seek_to_frame = v.seek_to_frame
      /\ w.cheat_layers = v.cheat_layers
  BY DEF submit_task, Engine, VFields
<1>2. /\ Len(v.jobs) \in Nat /\ Len(w.jobs) = Len(v.jobs) + 1
      /\ \A i \in 1 .. Len(w.jobs) : w.jobs[i] = IF i <= Len(v.jobs) THEN v.jobs[i] ELSE j
  BY <1>1, PushBack DEF Engine, JobsOK
<1> HIDE DEF w
<1>3. \A x : JobIn(w, x) => JobIn(v, x) \/ x = j
  BY <1>2 DEF JobIn
<1>4. \A x : JobIn(v, x) => JobIn(w, x)
  BY <1>2 DEF JobIn
<1>5. JobIn(w, j)
  <2>1. w.jobs[Len(v.jobs) + 1] = j
    BY <1>2
  <2> QED BY <1>2, <2>1 DEF JobIn
<1>6. \A k, x : TaskIn(w, k, x) <=> TaskIn(v, k, x)
  BY <1>1 DEF TaskIn
<1> QED BY <1>1, <1>3, <1>4, <1>5, <1>6 DEF w

LEMMA JobServes ==
    ASSUME NEW v, Engine(v), NEW k \in Nat \ {0}, NEW j, j.what # "seek_load"
    PROVE  Serves(v, submit_task(v, j), k)
<1> DEFINE w == submit_task(v, j)
<1>1. /\ \A x : JobIn(w, x) <=> JobIn(v, x) \/ x = j
      /\ \A x : TaskIn(w, k, x) <=> TaskIn(v, k, x)
      /\ w.g_tasks = v.g_tasks /\ w.g_reset_pending = v.g_reset_pending
      /\ w.g_seek_savestate_loading = v.g_seek_savestate_loading
      /\ w.g_task = v.g_task /\ w.core_executing = v.core_executing
      /\ w.snapshots = v.snapshots /\ w.jobs = Append(v.jobs, j)
  BY JobIsIn
<1>2. /\ Len(v.jobs) \in Nat /\ Len(w.jobs) = Len(v.jobs) + 1
      /\ \A i \in 1 .. Len(w.jobs) : w.jobs[i] = IF i <= Len(v.jobs) THEN v.jobs[i] ELSE j
  BY <1>1, PushBack DEF Engine, JobsOK
<1> HIDE DEF w
<1>3. \A r \in BOOLEAN : ResetAwaited(v, r) => ResetAwaited(w, r)
  BY <1>1 DEF ResetAwaited
<1>4. Awaited(v, k) => Awaited(w, k)
  BY <1>1 DEF Awaited, SnapshotAhead, Ahead
<1>5. \A i \in 1 .. Len(w.jobs) : w.jobs[i].what = "seek_load" =>
         i \in 1 .. Len(v.jobs) /\ v.jobs[i].what = "seek_load"
  BY <1>2
<1>6. Lone(v, k) => Lone(w, k)
  BY <1>1, <1>5 DEF Lone, Ahead
<1>7. Serves(v, w, k)
  BY <1>1, <1>3, <1>4, <1>6 DEF Serves, Keeps
<1> QED BY <1>7 DEF w

\* A savestate task, while the emulation thread performs none.
LEMMA TaskServes ==
    ASSUME NEW v, Engine(v), NEW t, t.what # "seek_load"
    PROVE  /\ Serves(v, st_push(v, t), 1) /\ TaskIn(st_push(v, t), 1, t)
           /\ \A x : TaskIn(st_push(v, t), 1, x) <=> TaskIn(v, 1, x) \/ x = t
<1> DEFINE w == st_push(v, t)
<1>1. /\ w.jobs = v.jobs /\ w.g_reset_pending = v.g_reset_pending
      /\ w.g_seek_savestate_loading = v.g_seek_savestate_loading
      /\ w.g_task = v.g_task /\ w.core_executing = v.core_executing
      /\ w.snapshots = v.snapshots /\ w.g_tasks = <<t>> \o v.g_tasks
  BY DEF st_push, Engine, VFields
<1>2. /\ Len(v.g_tasks) \in Nat /\ Len(w.g_tasks) = Len(v.g_tasks) + 1
      /\ \A i \in 1 .. Len(w.g_tasks) : w.g_tasks[i] = IF i = 1 THEN t ELSE v.g_tasks[i - 1]
  BY <1>1, PushFront DEF Engine, TasksOK
<1> HIDE DEF w
<1>3. \A x : TaskIn(w, 1, x) <=> TaskIn(v, 1, x) \/ x = t
  <2>1. \A x : TaskIn(w, 1, x) => TaskIn(v, 1, x) \/ x = t
    <3> SUFFICES ASSUME NEW x, NEW i \in 1 .. Len(w.g_tasks), w.g_tasks[i] = x, x # t
                 PROVE  \E n \in 1 .. Len(v.g_tasks) : v.g_tasks[n] = x
      BY DEF TaskIn
    <3>1. i - 1 \in 1 .. Len(v.g_tasks) /\ v.g_tasks[i - 1] = x
      BY <1>2
    <3> QED BY <3>1
  <2>2. \A x : TaskIn(v, 1, x) => TaskIn(w, 1, x)
    <3> SUFFICES ASSUME NEW x, NEW i \in 1 .. Len(v.g_tasks), v.g_tasks[i] = x
                 PROVE  \E n \in 1 .. Len(w.g_tasks) : w.g_tasks[n] = x
      BY DEF TaskIn
    <3>1. i + 1 \in 1 .. Len(w.g_tasks) /\ i + 1 # 1 /\ (i + 1) - 1 = i
      BY <1>2
    <3>2. w.g_tasks[i + 1] = x
      BY <1>2, <3>1
    <3> QED BY <3>1, <3>2
  <2>3. TaskIn(w, 1, t)
    BY <1>2 DEF TaskIn
  <2> QED BY <2>1, <2>2, <2>3
<1>4. \A x : JobIn(w, x) <=> JobIn(v, x)
  BY <1>1 DEF JobIn
<1>5. \A r \in BOOLEAN : ResetAwaited(v, r) => ResetAwaited(w, r)
  BY <1>1, <1>4 DEF ResetAwaited
<1>6. Awaited(v, 1) => Awaited(w, 1)
  BY <1>1, <1>3, <1>4 DEF Awaited, SnapshotAhead, Ahead
<1>7. \A i \in 1 .. Len(w.g_tasks) : w.g_tasks[i].what = "seek_load" =>
         i - 1 \in 1 .. Len(v.g_tasks) /\ v.g_tasks[i - 1].what = "seek_load"
  BY <1>2
<1>8. Lone(v, 1) => Lone(w, 1)
  <2> SUFFICES ASSUME Lone(v, 1) PROVE Lone(w, 1)
    OBVIOUS
  <2>1. \A x : Ahead(w, 1, x) /\ x.what = "seek_load" => w.g_seek_savestate_loading
    BY <1>1, <1>3, <1>4 DEF Lone, Ahead
  <2>2. \A i, j \in 1 .. Len(w.g_tasks) :
           w.g_tasks[i].what = "seek_load" /\ w.g_tasks[j].what = "seek_load" => i = j
    <3> SUFFICES ASSUME NEW i \in 1 .. Len(w.g_tasks), NEW j \in 1 .. Len(w.g_tasks),
                        w.g_tasks[i].what = "seek_load", w.g_tasks[j].what = "seek_load"
                 PROVE  i = j
      OBVIOUS
    <3>1. i - 1 = j - 1
      BY <1>7 DEF Lone
    <3> QED BY <3>1
  <2>3. \A i \in 1 .. Len(w.jobs), j \in 1 .. Len(w.g_tasks) :
           ~(w.jobs[i].what = "seek_load" /\ w.g_tasks[j].what = "seek_load")
    BY <1>1, <1>7 DEF Lone
  <2> QED BY <1>1, <2>1, <2>2, <2>3 DEF Lone
<1>9. Serves(v, w, 1)
  BY <1>1, <1>5, <1>6, <1>8 DEF Serves, Keeps
<1> QED BY <1>3, <1>9 DEF w

\* Calls that leave alone what is waited for and what is on its way.
Aside(v, w) ==
    /\ DOMAIN w = VFields
    /\ w.jobs = v.jobs /\ w.g_tasks = v.g_tasks /\ w.snapshots = v.snapshots
    /\ w.g_task = v.g_task /\ w.g_reset_pending = v.g_reset_pending
    /\ w.g_seek_savestate_loading = v.g_seek_savestate_loading
    /\ w.core_executing = v.core_executing

LEMMA AsideEases == ASSUME NEW v, NEW w, Aside(v, w) PROVE Eases(v, w)
  BY DEF Aside, Eases

LEMMA AsideTransitive ==
    ASSUME NEW u, NEW v, NEW w, Aside(u, v), Aside(v, w) PROVE Aside(u, w)
  BY DEF Aside

LEMMA AsideItself == ASSUME NEW v, DOMAIN v = VFields PROVE Aside(v, v)
  BY DEF Aside

\* Pausing, resuming, and the fields of the movie.
LEMMA PausingAside ==
    ASSUME NEW v, DOMAIN v = VFields
    PROVE  /\ Aside(v, core_vr_pause_emu(v))
           /\ \A force \in BOOLEAN : Aside(v, core_vr_resume_emu_impl(v, force))
           /\ Aside(v, core_vr_resume_emu(v))
           /\ \A n : Aside(v, core_vr_frame_advance(v, n))
           /\ Aside(v, core_vcr_stop_seek(v))
           /\ Aside(v, stop_frame_advance(v))
           /\ Aside(v, vcr_clear_seek_savestates(v))
           /\ Aside(v, cht_layer_push(v))
           /\ Aside(v, next_sample(v))
           /\ Aside(v, write_movie(v))
           /\ \A input : Aside(v, append_input(v, input))
           /\ \A inputs : Aside(v, with_inputs(v, inputs))
<1> USE DEF VFields, Aside
<1>1. Aside(v, core_vr_pause_emu(v))
  BY DEF core_vr_pause_emu
<1>2. \A force : Aside(v, core_vr_resume_emu_impl(v, force))
  BY DEF core_vr_resume_emu_impl
<1>3. Aside(v, core_vcr_stop_seek(v)) /\ Aside(v, stop_frame_advance(v))
  BY DEF core_vcr_stop_seek, stop_frame_advance
<1>4. Aside(v, vcr_clear_seek_savestates(v)) /\ Aside(v, cht_layer_push(v))
  BY DEF vcr_clear_seek_savestates, cht_layer_push
<1>5. ASSUME NEW n PROVE Aside(v, core_vr_frame_advance(v, n))
  <2> DEFINE w == [v EXCEPT !.frame_advance_outstanding = n]
  <2>1. Aside(v, w)
    OBVIOUS
  <2>2. DOMAIN w = VFields
    OBVIOUS
  <2>3. Aside(w, core_vr_resume_emu_impl(w, FALSE))
    <3> HIDE DEF w
    <3> QED BY <2>2 DEF core_vr_resume_emu_impl
  <2> HIDE DEF w, Aside
  <2>4. Aside(v, core_vr_resume_emu_impl(w, FALSE))
    BY <2>1, <2>3, AsideTransitive
  <2>5. Aside(v, v)
    BY AsideItself
  <2> QED BY <2>4, <2>5 DEF core_vr_frame_advance, core_vr_resume_emu, w
<1>6. Aside(v, next_sample(v))
  BY DEF next_sample
<1>7. Aside(v, write_movie(v))
  BY DEF write_movie, write_movie_impl
<1>8. \A input : Aside(v, append_input(v, input))
  BY DEF append_input
<1>9. \A inputs : Aside(v, with_inputs(v, inputs))
  BY DEF with_inputs
<1> HIDE DEF Aside
<1> QED BY <1>1, <1>2, <1>3, <1>4, <1>5, <1>6, <1>7, <1>8, <1>9 DEF core_vr_resume_emu

\* Seek savestates that are dropped.
LEMMA PurgedAside ==
    ASSUME NEW v, DOMAIN v = VFields, NEW F
    PROVE  Aside(v, [v EXCEPT !.g_seek_savestates = F])
  BY DEF VFields, Aside

\* core_vcr_stop_all drops a snapshot only with a recording that never started.
LEMMA StopEases == ASSUME NEW v, DOMAIN v = VFields PROVE Eases(v, core_vcr_stop_all(v))
<1> DEFINE u == vcr_clear_seek_savestates(v)
           x == write_movie(u)
           w == core_vcr_stop_all(v)
<1>1. Aside(v, u)
  BY PausingAside
<1> HIDE DEF u
<1>2. DOMAIN u = VFields
  BY <1>1 DEF Aside
<1>3. Aside(u, x)
  BY <1>2, PausingAside
<1> HIDE DEF x
<1>4. Aside(v, x)
  BY <1>1, <1>3, AsideTransitive
<1>5. \/ w = u
      \/ w = [x EXCEPT !.g_task = "task_idle"]
      \/ w = [u EXCEPT !.g_task = "task_idle", !.movies[u.g_movie_path] = NoMovie,
                       !.snapshots[u.g_movie_path] = NoState]
      \/ w = [[u EXCEPT !.g_task = "task_idle"] EXCEPT !.cheat_layers = @ - 1]
  BY <1>1 DEF core_vcr_stop_all, vcr_stop_record, vcr_stop_playback, cht_layer_pop, u, x, Aside
<1> HIDE DEF w
<1>6. ASSUME w = u
      PROVE  Eases(v, w)
  BY <1>1, <1>6, AsideEases
<1>7. ASSUME w = [x EXCEPT !.g_task = "task_idle"]
      PROVE  Eases(v, w)
  BY <1>4, <1>7 DEF Aside, VFields, Eases, SnapshotStarts
<1>8. ASSUME w = [u EXCEPT !.g_task = "task_idle", !.movies[u.g_movie_path] = NoMovie,
                       !.snapshots[u.g_movie_path] = NoState]
      PROVE  Eases(v, w)
  BY <1>1, <1>8 DEF Aside, VFields, Eases, SnapshotStarts
<1>9. ASSUME w = [[u EXCEPT !.g_task = "task_idle"] EXCEPT !.cheat_layers = @ - 1]
      PROVE  Eases(v, w)
  BY <1>1, <1>9 DEF Aside, VFields, Eases, SnapshotStarts
<1>10. Eases(v, w)
  BY <1>5, <1>6, <1>7, <1>8, <1>9
<1> QED BY <1>10 DEF w

\* core_vcr_unfreeze sets a task that waits for nothing.
LEMMA UnfreezeEases ==
    ASSUME NEW v, DOMAIN v = VFields, NEW freeze PROVE Eases(v, core_vcr_unfreeze(v, freeze))
<1> DEFINE w == core_vcr_unfreeze(v, freeze)
           n == freeze.current_sample
           x == [v EXCEPT !.g_task = "task_recording", !.m_current_sample = n]
           y == [x EXCEPT !.length_samples = n, !.g_movie_inputs = resize(freeze.input_buffer, n)]
           z == write_movie(v)
<1>1. w \in {v, [v EXCEPT !.m_current_sample = n], x, write_movie(y),
             [z EXCEPT !.g_task = "task_playback", !.m_current_sample = n]}
  BY DEF core_vcr_unfreeze, unfreeze_readwrite, unfreeze_readonly, overwrite_inputs
<1>2. Eases(v, v) /\ Eases(v, [v EXCEPT !.m_current_sample = n])
  BY DEF Eases, VFields
<1>3. Eases(v, x) /\ DOMAIN x = VFields
  BY DEF Eases, VFields, SnapshotStarts
<1> HIDE DEF x, w
<1>4. Eases(v, write_movie(y))
  <2>1. Aside(x, y)
    BY <1>3 DEF Aside, VFields
  <2> HIDE DEF y
  <2>2. Aside(y, write_movie(y))
    BY <2>1, PausingAside DEF Aside
  <2> QED BY <1>3, <2>1, <2>2, AsideEases, EasesTransitive
<1>5. Eases(v, [z EXCEPT !.g_task = "task_playback", !.m_current_sample = n])
  <2>1. Aside(v, z)
    BY PausingAside
  <2> HIDE DEF z
  <2> QED BY <2>1 DEF Aside, VFields, Eases, SnapshotStarts
<1>6. Eases(v, w)
  BY <1>1, <1>2, <1>3, <1>4, <1>5
<1> QED BY <1>6 DEF w

\* A movie that starts, and waits for nothing or for what is on its way.
LEMMA StartedEases ==
    ASSUME NEW v, DOMAIN v = VFields, NEW task, task \notin SnapshotStarts
    PROVE  Eases(v, started(v, task)) /\ Eases(v, set_task(v, task))
  BY DEF started, set_task, VFields, Eases

\* A reset that is left to the workers.
LEMMA ResetServes ==
    ASSUME NEW v, NEW u, Engine(v), Engine(u), NEW k \in Nat \ {0},
           Aside(v, [u EXCEPT !.g_reset_pending = v.g_reset_pending]),
           NEW j, j.what \in EngineResets
    PROVE  Serves(v, submit_task(u, j), k)
<1> DEFINE a == [u EXCEPT !.g_reset_pending = v.g_reset_pending]
           w == submit_task(u, j)
           b == submit_task(a, j)
<1>1. Eases(v, a)
  BY AsideEases
<1>2. Serves(v, a, k)
  BY <1>1, EasesServes
<1>3. /\ a.jobs = u.jobs /\ a.g_tasks = u.g_tasks /\ a.g_task = u.g_task
      /\ a.g_seek_savestate_loading = u.g_seek_savestate_loading
      /\ a.core_executing = u.core_executing /\ a.snapshots = u.snapshots
  BY DEF Engine, VFields
<1> HIDE DEF a
<1>4. j.what # "seek_load"
  BY DEF EngineResets
<1>5. Serves(u, w, k)
  BY <1>4, JobServes
<1>6. JobIn(w, j)
  BY JobIsIn
<1> HIDE DEF w
<1>7. \A x : (JobIn(a, x) <=> JobIn(u, x)) /\ (TaskIn(a, k, x) <=> TaskIn(u, k, x))
  BY <1>3 DEF JobIn, TaskIn
<1>8. (Awaited(a, k) => Awaited(u, k)) /\ (Lone(a, k) => Lone(u, k))
  BY <1>3, <1>7 DEF Awaited, Lone, SnapshotAhead, Ahead
<1>9. \A r \in BOOLEAN : ResetAwaited(w, r)
  BY <1>6 DEF ResetAwaited
<1>10. w.g_seek_savestate_loading => v.g_seek_savestate_loading
  BY <1>2, <1>3, <1>5 DEF Serves
<1>11. Serves(v, w, k)
  BY <1>2, <1>5, <1>8, <1>9, <1>10 DEF Serves, Keeps
<1> QED BY <1>11 DEF w

\* core_vcr_start_record; a start from a snapshot comes while no task is performed.
LEMMA RecordServes ==
    ASSUME NEW v, Engine(v), NEW path \in Movies, NEW flags \in StartFlags, NEW uid \in Nat,
           NEW k \in Nat \ {0}, flags = "MOVIE_START_FROM_SNAPSHOT" => k = 1, v.core_executing
    PROVE  Serves(v, core_vcr_start_record(v, path, flags, uid), k)
<1> DEFINE x == core_vcr_stop_all(v)
           y == new_recording(x, path, flags, uid)
           w == core_vcr_start_record(v, path, flags, uid)
<1>1. Eases(v, x) /\ Engine(x)
  BY StopEases, StopsAll DEF Engine, Stopped
<1>c. x.core_executing
  <2> DEFINE u == vcr_clear_seek_savestates(v)
  <2>1. Aside(v, u)
    BY PausingAside DEF Engine
  <2> HIDE DEF u
  <2>2. DOMAIN u = VFields /\ u.core_executing
    BY <2>1 DEF Aside
  <2>3. x \in {u, vcr_stop_record(u), vcr_stop_playback(u)}
    BY DEF core_vcr_stop_all, u
  <2>4. write_movie(u).core_executing /\ DOMAIN write_movie(u) = VFields
    BY <2>2, PausingAside DEF Aside
  <2>5. vcr_stop_record(u).core_executing
    BY <2>2, <2>4 DEF vcr_stop_record, VFields
  <2>6. vcr_stop_playback(u).core_executing
    BY <2>2 DEF vcr_stop_playback, cht_layer_pop, VFields
  <2> QED BY <2>2, <2>3, <2>5, <2>6
<1> HIDE DEF x
<1>2. Aside(x, y) /\ y.g_movie_path = path
  BY <1>1 DEF new_recording, Engine, Aside, VFields
<1>3. Eases(v, y)
  BY <1>1, <1>2, AsideEases, EasesTransitive
<1>4. Serves(v, y, k)
  BY <1>3, EasesServes
<1>5. Engine(y)
  <2>1. << >> \in Seq(Input) /\ Len(<< >>) = 0
    OBVIOUS
  <2>2. /\ SameFiles(x, y) /\ SameQueues(x, y) /\ y.m_current_sample = x.m_current_sample
        /\ y.uid = uid /\ y.startFlags = flags /\ y.length_samples = 0 /\ y.g_movie_inputs = << >>
    BY <1>1 DEF new_recording, Engine, VFields, SameFiles, SameQueues
  <2> HIDE DEF y
  <2> QED BY <1>1, <1>2, <2>1, <2>2 DEF Engine, Aside, SameFiles, SameQueues, MovieOK, FilesOK,
         SeekSavestatesOK, BegunOK, Begun
<1> HIDE DEF y
<1>6. CASE flags = "MOVIE_START_FROM_SNAPSHOT"
  <2> DEFINE z == started(y, "task_start_recording_from_snapshot")
             t == StTask("record_snapshot", 0, path, NoState)
  <2>1. w = st_push(z, t)
    BY <1>6 DEF core_vcr_start_record, y, x
  <2>2. t.what = "record_snapshot"
    BY RequestFields
  <2>3. Engine(z)
    BY <1>2, <1>5, MovieStarted
  <2>4. /\ z.jobs = y.jobs /\ z.g_tasks = y.g_tasks /\ z.snapshots = y.snapshots
        /\ z.g_reset_pending = y.g_reset_pending
        /\ z.g_seek_savestate_loading = y.g_seek_savestate_loading
        /\ z.g_task = "task_start_recording_from_snapshot"
    BY <1>5 DEF started, Engine, VFields
  <2> HIDE DEF z, t
  <2>5. /\ Serves(z, w, 1) /\ \A n : TaskIn(w, 1, n) <=> TaskIn(z, 1, n) \/ n = t
    BY <2>1, <2>2, <2>3, TaskServes
  <2>6. /\ w.g_task = z.g_task /\ w.g_reset_pending = z.g_reset_pending /\ w.jobs = z.jobs
        /\ w.g_seek_savestate_loading = z.g_seek_savestate_loading
    BY <2>1, <2>3 DEF st_push, Engine, VFields
  <2> HIDE DEF w
  <2>7. \A n : (JobIn(w, n) <=> JobIn(y, n)) /\ (JobIn(z, n) <=> JobIn(y, n))
               /\ (TaskIn(z, 1, n) <=> TaskIn(y, 1, n))
    BY <2>4, <2>6 DEF JobIn, TaskIn
  <2>8. \A r \in BOOLEAN : ResetAwaited(y, r) => ResetAwaited(w, r)
    BY <2>4, <2>6, <2>7 DEF ResetAwaited
  <2>9. Awaited(y, 1) => Awaited(w, 1)
    BY <2>2, <2>4, <2>5, <2>6, <2>7 DEF Awaited, Ahead
  <2>10. Lone(y, 1) => Lone(z, 1)
    BY <2>4, <2>7 DEF Lone, Ahead
  <2>11. Serves(y, w, 1)
    BY <2>4, <2>5, <2>6, <2>8, <2>9, <2>10 DEF Serves, Keeps
  <2>12. Serves(v, w, k)
    BY <1>4, <1>6, <2>11, ServesTransitive
  <2> QED BY <2>12 DEF w
<1>7. CASE flags = "MOVIE_START_FROM_EXISTING_SNAPSHOT" /\ y.snapshots[path] = NoState
  <2>1. w = y
    BY <1>7 DEF core_vcr_start_record, y, x
  <2> QED BY <1>4, <2>1
<1>8. CASE flags = "MOVIE_START_FROM_EXISTING_SNAPSHOT" /\ y.snapshots[path] # NoState
  <2> DEFINE e == [y EXCEPT !.startFlags = "MOVIE_START_FROM_SNAPSHOT"]
             z == started(e, "task_start_recording_from_existing_snapshot")
             j == Job("record_existing", 0, path)
  <2>1. w = submit_task(z, j)
    BY <1>8 DEF core_vcr_start_record, y, x
  <2>2. j.what = "record_existing" /\ j.path = path
    BY RequestFields
  <2>3. /\ z.jobs = y.jobs /\ z.g_tasks = y.g_tasks /\ z.snapshots = y.snapshots
        /\ z.g_reset_pending = y.g_reset_pending /\ z.core_executing = y.core_executing
        /\ z.g_seek_savestate_loading = y.g_seek_savestate_loading
        /\ z.g_task = "task_start_recording_from_existing_snapshot"
    BY <1>5 DEF started, Engine, VFields
  <2>4. Engine(z)
    <3>1. /\ DOMAIN e = VFields /\ SameFiles(y, e) /\ SameQueues(y, e) /\ SamePlace(y, e)
          /\ e.g_task = y.g_task /\ e.startFlags = "MOVIE_START_FROM_SNAPSHOT"
          /\ e.g_movie_inputs = y.g_movie_inputs /\ e.length_samples = y.length_samples
          /\ e.uid = y.uid
      BY <1>5 DEF Engine, VFields, SameFiles, SameQueues, SamePlace
    <3> HIDE DEF e
    <3>2. Engine(e) /\ e.g_movie_path \in Movies
      BY <1>2, <1>5, <3>1 DEF Engine, SameFiles, SameQueues, SamePlace, MovieOK, FilesOK,
         SeekSavestatesOK, BegunOK, Begun, StartFlags
    <3> QED BY <3>2, MovieStarted
  <2> HIDE DEF z, j
  <2>5. Serves(z, w, k) /\ JobIn(w, j)
    BY <2>1, <2>2, <2>4, JobServes, JobIsIn
  <2>6. /\ w.g_task = z.g_task /\ w.g_reset_pending = z.g_reset_pending
        /\ w.g_seek_savestate_loading = z.g_seek_savestate_loading
        /\ w.core_executing = z.core_executing /\ w.snapshots = z.snapshots
        /\ \A n : JobIn(w, n) <=> JobIn(z, n) \/ n = j
        /\ \A n : TaskIn(w, k, n) <=> TaskIn(z, k, n)
    BY <2>1, <2>4, JobIsIn
  <2> HIDE DEF w
  <2>7. \A n : (JobIn(z, n) <=> JobIn(y, n)) /\ (TaskIn(z, k, n) <=> TaskIn(y, k, n))
    BY <2>3 DEF JobIn, TaskIn
  <2>8. \A r \in BOOLEAN : ResetAwaited(y, r) => ResetAwaited(w, r)
    BY <2>3, <2>6, <2>7 DEF ResetAwaited
  <2>9. SnapshotAhead(w, k, "record_existing")
    BY <1>8, <2>2, <2>3, <2>5, <2>6 DEF SnapshotAhead, Ahead
  <2>10. w.core_executing
    BY <1>c, <1>2, <2>3, <2>6 DEF Aside
  <2>11. Awaited(y, k) => Awaited(w, k)
    BY <2>3, <2>6, <2>7, <2>9, <2>10 DEF Awaited, Ahead
  <2>12. Lone(y, k) => Lone(z, k)
    BY <2>3, <2>7 DEF Lone, Ahead
  <2>13. Serves(y, w, k)
    BY <2>3, <2>5, <2>6, <2>8, <2>11, <2>12 DEF Serves, Keeps
  <2>14. Serves(v, w, k)
    BY <1>4, <2>13, ServesTransitive
  <2> QED BY <2>14 DEF w
<1>9. CASE flags = "MOVIE_START_FROM_NOTHING"
  <2>1. w = started(y, "task_start_recording_from_reset")
    BY <1>9 DEF core_vcr_start_record, y, x
  <2>2. Eases(y, w)
    BY <1>5, <2>1, StartedEases DEF Engine, SnapshotStarts
  <2> HIDE DEF w
  <2>3. Serves(v, w, k)
    BY <1>3, <2>2, EasesTransitive, EasesServes
  <2> QED BY <2>3 DEF w
<1> QED BY <1>6, <1>7, <1>8, <1>9 DEF StartFlags

\* core_vcr_start_playback; the snapshot was there when the job was submitted.
LEMMA PlaybackServes ==
    ASSUME NEW v, Engine(v), NEW path \in Movies, NEW k \in Nat \ {0}
    PROVE  Serves(v, core_vcr_start_playback(v, path), k)
<1> DEFINE u == push_cheats(v, path)
           x == core_vcr_stop_all(u)
           file == v.movies[path]
           y == new_playback(x, path, file)
           w == core_vcr_start_playback(v, path)
<1>1. Aside(v, u)
  BY PausingAside, AsideItself DEF push_cheats, Engine
<1>2. Engine(u)
  <2>1. Quiet(v, u)
    BY DEF push_cheats, cht_layer_push, Engine, VFields, Quiet, SameMovie, SamePlace, SameFiles,
           SameQueues
  <2> QED BY <2>1, QuietKeeps
<1>3. CASE file = NoMovie
  <2>1. w = v
    BY <1>3 DEF core_vcr_start_playback, start_playback_result
  <2> QED BY <2>1, ServesItself
<1>4. CASE file # NoMovie
  <2>1. w = start_playback_task(y, path)
    BY <1>4 DEF core_vcr_start_playback, start_playback_result
  <2>2. Eases(u, x) /\ Engine(x)
    BY <1>2, StopEases, StopsAll DEF Engine, Stopped
  <2>3. file \in MovieFiles
    BY <1>4 DEF Engine, FilesOK
  <2> HIDE DEF x, w, file
  <2>4. Aside(x, y)
    BY <2>2 DEF new_playback, Engine, VFields, Aside
  <2>5. Eases(v, y)
    BY <1>1, <2>2, <2>4, AsideEases, EasesTransitive
  <2>6. Serves(v, y, k)
    BY <2>5, EasesServes
  <2>7. Engine(y) /\ Begun(y)
    <3>1. /\ SameFiles(x, y) /\ SameQueues(x, y) /\ y.g_task = x.g_task
          /\ y.g_movie_path = path /\ y.m_current_sample = 0
          /\ y.uid = file.uid /\ y.startFlags = file.startFlags /\ DOMAIN y = VFields
          /\ y.length_samples = Len(file.inputs) /\ y.g_movie_inputs = file.inputs
      BY <2>2 DEF new_playback, Engine, VFields, SameFiles, SameQueues
    <3> HIDE DEF y
    <3>2. Begun(y)
      BY <3>1 DEF Begun
    <3> QED BY <2>2, <2>3, <3>1, <3>2 DEF Engine, SameFiles, SameQueues, MovieOK, FilesOK,
           SeekSavestatesOK, BegunOK, MovieFiles
  <2> HIDE DEF y
  <2>8. CASE y.startFlags # "MOVIE_START_FROM_SNAPSHOT"
    <3>1. w = [y EXCEPT !.g_task = "task_start_playback_from_reset"]
      BY <2>1, <2>8 DEF start_playback_task
    <3>2. Eases(y, w)
      BY <2>7, <3>1 DEF Engine, VFields, Eases, SnapshotStarts
    <3>3. Serves(v, w, k)
      BY <2>5, <3>2, EasesTransitive, EasesServes
    <3> QED BY <3>3 DEF w
  <2>9. CASE y.startFlags = "MOVIE_START_FROM_SNAPSHOT" /\ y.snapshots[path] = NoState
    <3>1. w = y
      BY <2>1, <2>9 DEF start_playback_task
    <3> QED BY <2>6, <3>1 DEF w
  <2>10. CASE y.startFlags = "MOVIE_START_FROM_SNAPSHOT" /\ y.snapshots[path] # NoState
    <3> DEFINE z == [y EXCEPT !.g_task = "task_start_playback_from_snapshot"]
               j == Job("playback_snapshot", 0, path)
    <3>1. w = submit_task(z, j)
      BY <2>1, <2>10 DEF start_playback_task
    <3>2. j.what = "playback_snapshot" /\ j.path = path
      BY RequestFields
    <3>3. /\ z.jobs = y.jobs /\ z.g_tasks = y.g_tasks /\ z.snapshots = y.snapshots
          /\ z.g_reset_pending = y.g_reset_pending
          /\ z.g_seek_savestate_loading = y.g_seek_savestate_loading
          /\ z.g_task = "task_start_playback_from_snapshot"
      BY <2>7 DEF Engine, VFields
    <3>4. Engine(z)
      <4>1. /\ DOMAIN z = VFields /\ SameMovie(y, z) /\ SameFiles(y, z) /\ SameQueues(y, z)
            /\ SamePlace(y, z)
        BY <2>7 DEF Engine, VFields, SameMovie, SameFiles, SameQueues, SamePlace
      <4> HIDE DEF z
      <4>2. Begun(z)
        BY <2>7, <4>1 DEF Begun, SamePlace
      <4> QED BY <2>7, <4>1, <4>2 DEF Engine, SameMovie, SameFiles, SameQueues, MovieOK, FilesOK,
             SeekSavestatesOK, BegunOK
    <3> HIDE DEF z, j
    <3>5. Serves(z, w, k) /\ JobIn(w, j)
      BY <3>1, <3>2, <3>4, JobServes, JobIsIn
    <3>6. /\ w.g_task = z.g_task /\ w.g_reset_pending = z.g_reset_pending
          /\ w.g_seek_savestate_loading = z.g_seek_savestate_loading
          /\ w.snapshots = z.snapshots
          /\ \A n : JobIn(w, n) <=> JobIn(z, n) \/ n = j
          /\ \A n : TaskIn(w, k, n) <=> TaskIn(z, k, n)
      BY <3>1, <3>4, JobIsIn
    <3>7. \A n : (JobIn(z, n) <=> JobIn(y, n)) /\ (TaskIn(z, k, n) <=> TaskIn(y, k, n))
      BY <3>3 DEF JobIn, TaskIn
    <3>8. \A r \in BOOLEAN : ResetAwaited(y, r) => ResetAwaited(w, r)
      BY <3>3, <3>6, <3>7 DEF ResetAwaited
    <3>9. SnapshotAhead(w, k, "playback_snapshot")
      BY <2>10, <3>2, <3>3, <3>5, <3>6 DEF SnapshotAhead, Ahead
    <3>10. Awaited(y, k) => Awaited(w, k)
      BY <3>3, <3>6, <3>7, <3>9 DEF Awaited, Ahead
    <3>11. Lone(y, k) => Lone(z, k)
      BY <3>3, <3>7 DEF Lone, Ahead
    <3>12. Serves(y, w, k)
      BY <3>3, <3>5, <3>6, <3>8, <3>10, <3>11 DEF Serves, Keeps
    <3>13. Serves(v, w, k)
      BY <2>6, <3>12, ServesTransitive
    <3> QED BY <3>13 DEF w
  <2> QED BY <2>8, <2>9, <2>10
<1> QED BY <1>3, <1>4

\* What keeps the inputs when the savestate of a seek is loaded.
Held(v) ==
    \/ v.g_task = "task_recording" /\ core_vcr_is_seeking(v)
    \/ v.g_task = "task_playback" /\ v.vcr_readonly

\* Calls that may begin to load a seek savestate.
Seeks(v, w, k) == Keeps(v, w, k) /\ (w.g_seek_savestate_loading => Held(w))

LEMMA ServesSeeks ==
    ASSUME NEW v, NEW w, NEW k, Serves(v, w, k), ~v.g_seek_savestate_loading
    PROVE  Seeks(v, w, k)
  BY DEF Serves, Seeks

LEMMA LoadSeeks ==
    ASSUME NEW v, Engine(v), NEW k \in Nat \ {0}, ~v.g_seek_savestate_loading, Held(v), NEW key
    PROVE  Seeks(v, load_seek_savestate(v, key), k)
<1> DEFINE u == [v EXCEPT !.g_seek_savestate_loading = TRUE]
           j == Job("seek_load", key, NoMovie)
           w == submit_task(u, j)
<1>1. /\ u.jobs = v.jobs /\ u.g_tasks = v.g_tasks /\ u.snapshots = v.snapshots
      /\ u.g_task = v.g_task /\ u.g_reset_pending = v.g_reset_pending
      /\ u.core_executing = v.core_executing /\ u.g_seek_savestate_loading = TRUE
      /\ u.seek_to_frame = v.seek_to_frame /\ u.vcr_readonly = v.vcr_readonly
  BY DEF Engine, VFields
<1>2. Engine(u)
  <2>1. Quiet(v, u)
    BY DEF Engine, VFields, Quiet, SameMovie, SamePlace, SameFiles, SameQueues
  <2> QED BY <2>1, QuietKeeps
<1>3. j.what = "seek_load"
  BY RequestFields
<1> HIDE DEF u, j
<1>4. /\ \A x : JobIn(w, x) <=> JobIn(u, x) \/ x = j
      /\ \A x : TaskIn(w, k, x) <=> TaskIn(u, k, x)
      /\ w.g_tasks = u.g_tasks /\ w.g_reset_pending = u.g_reset_pending
      /\ w.g_seek_savestate_loading = u.g_seek_savestate_loading
      /\ w.g_task = u.g_task /\ w.core_executing = u.core_executing
      /\ w.snapshots = u.snapshots /\ w.jobs = Append(u.jobs, j)
      /\ w.vcr_readonly = u.vcr_readonly /\ w.seek_to_frame = u.seek_to_frame
  BY <1>2, JobIsIn
<1>5. \A x : (JobIn(u, x) <=> JobIn(v, x)) /\ (TaskIn(u, k, x) <=> TaskIn(v, k, x))
  BY <1>1 DEF JobIn, TaskIn
<1>6. /\ Len(v.jobs) \in Nat /\ Len(w.jobs) = Len(v.jobs) + 1
      /\ \A i \in 1 .. Len(w.jobs) : w.jobs[i] = IF i <= Len(v.jobs) THEN v.jobs[i] ELSE j
  BY <1>1, <1>4, PushBack DEF Engine, JobsOK
<1> HIDE DEF w
<1>7. \A r \in BOOLEAN : ResetAwaited(v, r) => ResetAwaited(w, r)
  BY <1>1, <1>4, <1>5 DEF ResetAwaited
<1>8. Awaited(v, k) => Awaited(w, k)
  BY <1>1, <1>3, <1>4, <1>5 DEF Awaited, SnapshotAhead, Ahead
<1>9. Lone(v, k) => Lone(w, k)
  <2> SUFFICES ASSUME Lone(v, k) PROVE Lone(w, k)
    OBVIOUS
  <2>1. \A x : Ahead(v, k, x) => x.what # "seek_load"
    BY DEF Lone
  <2>2. \A i \in 1 .. Len(v.jobs) : v.jobs[i].what # "seek_load"
    BY <2>1 DEF Ahead, JobIn
  <2>3. \A i \in k .. Len(v.g_tasks) : v.g_tasks[i].what # "seek_load"
    BY <2>1 DEF Ahead, TaskIn
  <2>4. \A i \in 1 .. Len(w.jobs) : w.jobs[i].what = "seek_load" => i = Len(v.jobs) + 1
    BY <1>6, <2>2
  <2>5. \A i \in k .. Len(w.g_tasks) : w.g_tasks[i].what # "seek_load"
    BY <1>1, <1>4, <2>3
  <2> QED BY <1>1, <1>4, <2>4, <2>5 DEF Lone
<1>10. Held(w)
  BY <1>1, <1>4 DEF Held, core_vcr_is_seeking
<1>11. Seeks(v, w, k)
  BY <1>7, <1>8, <1>9, <1>10 DEF Seeks, Keeps
<1> QED BY <1>11 DEF load_seek_savestate, w, u, j

\* Fields that a seek relies on.
SameSeek(v, w) ==
    w.g_task = v.g_task /\ w.seek_to_frame = v.seek_to_frame /\ w.vcr_readonly = v.vcr_readonly

LEMMA SeeksThenAside ==
    ASSUME NEW u, NEW v, NEW w, NEW k \in Nat \ {0}, Engine(v), Seeks(u, v, k), Aside(v, w),
           SameSeek(v, w)
    PROVE  Seeks(u, w, k)
<1>1. Serves(v, w, k)
  BY AsideEases, EasesServes
<1>2. Keeps(u, w, k)
  BY <1>1, KeepsTransitive DEF Serves, Seeks
<1> QED BY <1>1, <1>2 DEF Seeks, Serves, Held, core_vcr_is_seeking, SameSeek

LEMMA AsideThenSeeks ==
    ASSUME NEW u, NEW v, NEW w, NEW k \in Nat \ {0}, Engine(u), Aside(u, v), Seeks(v, w, k)
    PROVE  Seeks(u, w, k)
<1>1. Serves(u, v, k)
  BY AsideEases, EasesServes
<1> QED BY <1>1, KeepsTransitive DEF Serves, Seeks

LEMMA RewindRecordingSeeks ==
    ASSUME NEW v, Engine(v), NEW k \in Nat \ {0}, ~v.g_seek_savestate_loading, Held(v), NEW target
    PROVE  Seeks(v, rewind_recording(v, target), k)
<1> DEFINE w == purge_seek_savestates(v, target)
<1>1. Aside(v, w) /\ SameSeek(v, w)
  <2>1. DOMAIN v = VFields
    BY DEF Engine
  <2>2. \A F : Aside(v, [v EXCEPT !.g_seek_savestates = F])
               /\ SameSeek(v, [v EXCEPT !.g_seek_savestates = F])
    BY <2>1, PurgedAside DEF VFields, SameSeek
  <2>3. Aside(v, v) /\ SameSeek(v, v)
    BY <2>1, AsideItself DEF SameSeek
  <2> QED BY <2>2, <2>3 DEF purge_seek_savestates
<1>2. Engine(w)
  <2>1. Calm(v, w)
    BY Purged DEF purge_seek_savestates, Calm
  <2> QED BY <2>1 DEF Calm
<1> HIDE DEF w
<1>3. Held(w) /\ ~w.g_seek_savestate_loading
  BY <1>1 DEF Held, SameSeek, Aside, core_vcr_is_seeking
<1>4. \A key : Seeks(w, load_seek_savestate(w, key), k)
  BY <1>2, <1>3, LoadSeeks
<1>5. rewind_recording(v, target)
        = load_seek_savestate(w, vcr_find_closest_savestate_before_frame(w, target))
  BY DEF rewind_recording, w
<1> QED BY <1>1, <1>4, <1>5, AsideThenSeeks

LEMMA RewindPlaybackSeeks ==
    ASSUME NEW v, Engine(v), NEW k \in Nat \ {0}, ~v.g_seek_savestate_loading,
           v.g_task = "task_playback", NEW frame
    PROVE  Seeks(v, rewind_playback(v, frame), k)
<1>1. CASE v.cfg.seek_savestate_interval # 0
  <2> DEFINE u == [v EXCEPT !.vcr_readonly = TRUE]
  <2>1. Aside(v, u) /\ u.vcr_readonly = TRUE /\ u.g_task = v.g_task
    BY DEF Engine, VFields, Aside
  <2>2. Engine(u)
    <3>1. Quiet(v, u)
      BY DEF Engine, VFields, Quiet, SameMovie, SamePlace, SameFiles, SameQueues
    <3> QED BY <3>1, QuietKeeps
  <2> HIDE DEF u
  <2>3. Held(u) /\ ~u.g_seek_savestate_loading
    BY <2>1 DEF Held, Aside
  <2>4. \A key : Seeks(u, load_seek_savestate(u, key), k)
    BY <2>2, <2>3, LoadSeeks
  <2>5. rewind_playback(v, frame)
          = load_seek_savestate(u, vcr_find_closest_savestate_before_frame(v, frame))
    BY <1>1 DEF rewind_playback, u
  <2> QED BY <2>1, <2>4, <2>5, AsideThenSeeks
<1>2. CASE v.cfg.seek_savestate_interval = 0
  <2> DEFINE w == core_vcr_start_playback(v, v.g_movie_path)
             z == [w EXCEPT !.seek_to_frame = NoFrame]
  <2>1. v.g_movie_path \in Movies
    BY DEF Engine, BegunOK, Begun
  <2>2. Serves(v, w, k) /\ Engine(w)
    BY <2>1, PlaybackServes, StartsPlayback DEF Goes
  <2> HIDE DEF w
  <2>3. Aside(w, z)
    BY <2>2 DEF Engine, VFields, Aside
  <2> HIDE DEF z
  <2>4. Serves(w, z, k)
    BY <2>2, <2>3, AsideEases, EasesServes
  <2>5. Serves(v, z, k)
    BY <2>2, <2>4, ServesTransitive
  <2>6. rewind_playback(v, frame) \in {w, z}
    BY <1>2 DEF rewind_playback, restart_playback, w, z
  <2> QED BY <2>2, <2>5, <2>6, ServesSeeks
<1> QED BY <1>1, <1>2

LEMMA BacktrackSeeks ==
    ASSUME NEW v, Engine(v), NEW k \in Nat \ {0}, ~v.g_seek_savestate_loading,
           core_vcr_is_seeking(v), NEW frame, NEW warp
    PROVE  Seeks(v, backtrack(v, frame, warp), k)
<1>1. Seeks(v, v, k)
  BY ServesItself, ServesSeeks
<1>2. v.g_task = "task_recording" => \A target : Seeks(v, rewind_recording(v, target), k)
  BY RewindRecordingSeeks DEF Held
<1> QED BY <1>1, <1>2, RewindPlaybackSeeks DEF backtrack

\* vcr_begin_seek_impl refuses while a seek savestate is being loaded.
LEMMA BeginSeeks ==
    ASSUME NEW v, Engine(v), NEW k \in Nat \ {0}, NEW frame \in Nat, NEW pause \in BOOLEAN,
           NEW resume \in BOOLEAN, NEW warp,
           begin_seek_result(v, frame, pause) = "Res_Ok"
    PROVE  /\ Seeks(v, vcr_begin_seek_impl(v, frame, pause, resume, warp), k)
           /\ ~v.g_seek_savestate_loading
<1> DEFINE end == seek_end(frame, pause)
           w == [v EXCEPT !.seek_to_frame = end, !.g_seek_pause_at_end = pause]
           r == core_vr_resume_emu(w)
           z == vcr_begin_seek_impl(v, frame, pause, resume, warp)
<1>1. ~v.g_seek_savestate_loading /\ can_seek_to(v, end)
  BY DEF begin_seek_result
<1>2. end # NoFrame
  BY <1>1 DEF can_seek_to, NoFrame, seek_end
<1>3. Aside(v, w) /\ w.seek_to_frame = end
  BY DEF Engine, VFields, Aside
<1>4. z \in {core_vcr_stop_seek(w), backtrack(w, end, warp), backtrack(r, end, warp)}
  BY DEF vcr_begin_seek_impl
<1>5. Quiet(v, w)
  BY DEF Engine, VFields, Quiet, SameMovie, SamePlace, SameFiles, SameQueues
<1> HIDE DEF w, z, end
<1>6. DOMAIN w = VFields /\ Engine(w)
  BY <1>3, <1>5, QuietKeeps DEF Aside
<1>7. Aside(w, r) /\ r.seek_to_frame = end /\ Engine(r) /\ Aside(w, core_vcr_stop_seek(w))
  <2>1. Aside(w, r) /\ Aside(w, core_vcr_stop_seek(w)) /\ Quiet(w, r)
    BY <1>6, PausingAside, PausingQuiet
  <2>2. r.seek_to_frame = w.seek_to_frame
    BY <1>6 DEF core_vr_resume_emu, core_vr_resume_emu_impl, VFields
  <2> QED BY <1>3, <1>6, <2>1, <2>2, QuietKeeps
<1> HIDE DEF r
<1>8. \A x \in {w, r} : Seeks(v, backtrack(x, end, warp), k)
  <2> TAKE x \in {w, r}
  <2>1. Aside(v, x) /\ Engine(x) /\ x.seek_to_frame = end
    BY <1>3, <1>6, <1>7, AsideTransitive
  <2>2. core_vcr_is_seeking(x) /\ ~x.g_seek_savestate_loading
    BY <1>1, <1>2, <2>1 DEF core_vcr_is_seeking, Aside
  <2>3. Seeks(x, backtrack(x, end, warp), k)
    BY <2>1, <2>2, BacktrackSeeks
  <2> QED BY <2>1, <2>3, AsideThenSeeks
<1>9. Seeks(v, core_vcr_stop_seek(w), k)
  <2>1. Aside(v, core_vcr_stop_seek(w))
    BY <1>3, <1>7, AsideTransitive
  <2> QED BY <1>1, <2>1, AsideEases, EasesServes, ServesSeeks
<1>10. Seeks(v, z, k)
  BY <1>4, <1>8, <1>9
<1> QED BY <1>1, <1>10 DEF z

\* A command of the user that may begin a seek.
Begins(v, w, k) ==
    Keeps(v, w, k) /\ (w.g_seek_savestate_loading => v.g_seek_savestate_loading \/ Held(w))

LEMMA ServesBegins == ASSUME NEW v, NEW w, NEW k, Serves(v, w, k) PROVE Begins(v, w, k)
  BY DEF Serves, Begins

LEMMA SeeksBegins == ASSUME NEW v, NEW w, NEW k, Seeks(v, w, k) PROVE Begins(v, w, k)
  BY DEF Seeks, Begins

LEMMA SeekBegins ==
    ASSUME NEW v, Engine(v), NEW k \in Nat \ {0}, NEW frame \in Nat, NEW pause \in BOOLEAN,
           NEW resume \in BOOLEAN, NEW warp
    PROVE  Begins(v, vcr_begin_seek_impl(v, frame, pause, resume, warp), k)
<1>1. CASE begin_seek_result(v, frame, pause) = "Res_Ok"
  BY <1>1, BeginSeeks, SeeksBegins
<1>2. CASE begin_seek_result(v, frame, pause) # "Res_Ok"
  BY <1>2, ServesItself, ServesBegins DEF vcr_begin_seek_impl
<1> QED BY <1>1, <1>2

LEMMA WarpBegins ==
    ASSUME NEW v, Engine(v), NEW k \in Nat \ {0}, NEW inputs \in Seq(Input)
    PROVE  Begins(v, core_vcr_begin_warp_modify(v, inputs), k)
<1> DEFINE diff == vcr_find_first_input_difference(v.g_movie_inputs, inputs)
           w == [v EXCEPT !.g_warp_modify_first_difference_frame = diff]
           z == core_vcr_begin_warp_modify(v, inputs)
<1>1. \/ z = v
      \/ v.g_task = "task_recording" /\ z \in {w, with_inputs(w, inputs), warp_seek(w, inputs)}
  BY DEF core_vcr_begin_warp_modify
<1>2. Aside(v, w) /\ Quiet(v, w)
  BY DEF Engine, VFields, Aside, Quiet, SameMovie, SamePlace, SameFiles, SameQueues
<1> HIDE DEF w, z, diff
<1>3. Engine(w) /\ DOMAIN w = VFields
  BY <1>2, QuietKeeps DEF Aside
<1>4. Begins(v, v, k) /\ Begins(v, w, k)
  BY <1>2, ServesItself, AsideEases, EasesServes, ServesBegins
<1>5. Begins(v, with_inputs(w, inputs), k)
  <2>1. Aside(v, with_inputs(w, inputs))
    BY <1>2, <1>3, PausingAside, AsideTransitive
  <2> QED BY <2>1, AsideEases, EasesServes, ServesBegins
<1>6. ASSUME v.g_task = "task_recording" PROVE Begins(v, warp_seek(w, inputs), k)
  <2> DEFINE target == SmallerOf(Len(inputs), w.m_current_sample)
             pause == w.emu_paused \/ w.frame_advance_outstanding > 0
             x == vcr_begin_seek_impl(w, target, pause, FALSE, TRUE)
             y == with_inputs(x, inputs)
             a == [y EXCEPT !.g_warp_modify_active = TRUE]
             b == core_vr_resume_emu(a)
  <2>1. w.g_task = "task_recording"
    BY <1>2, <1>6 DEF Aside
  <2>2. w.m_current_sample \in Nat
    BY <1>3, <2>1 DEF Engine, BegunOK, Begun
  <2>3. target \in Nat /\ pause \in BOOLEAN
    BY <2>2 DEF SmallerOf
  <2>4. \/ warp_seek(w, inputs) = x
        \/ warp_seek(w, inputs) = b /\ begin_seek_result(w, target, pause) = "Res_Ok"
    BY DEF warp_seek
  <2> HIDE DEF pause, target
  <2>5. Begins(w, x, k)
    BY <1>3, <2>3, SeekBegins
  <2>6. Begins(v, x, k)
    <3>1. Serves(v, w, k)
      BY <1>2, AsideEases, EasesServes
    <3> QED BY <2>5, <3>1, KeepsTransitive DEF Begins, Serves
  <2>7. ASSUME begin_seek_result(w, target, pause) = "Res_Ok" PROVE Begins(v, b, k)
    <3>1. Seeks(w, x, k)
      BY <1>3, <2>3, <2>7, BeginSeeks
    <3>2. Seeks(v, x, k)
      BY <1>2, <3>1, AsideThenSeeks
    <3>3. Engine(x) /\ DOMAIN x = VFields
      BY <1>3, <2>1, BeginsSeek DEF Calm, Engine
    <3> HIDE DEF x
    <3>4. Aside(x, y) /\ SameSeek(x, y)
      BY <3>3, PausingAside DEF with_inputs, VFields, SameSeek
    <3>5. DOMAIN y = VFields
      BY <3>4 DEF Aside
    <3> HIDE DEF y
    <3>6. Aside(y, a) /\ SameSeek(y, a)
      BY <3>5 DEF Aside, VFields, SameSeek
    <3>7. DOMAIN a = VFields
      BY <3>6 DEF Aside
    <3> HIDE DEF a
    <3>8. Aside(a, b) /\ SameSeek(a, b)
      BY <3>7, PausingAside DEF core_vr_resume_emu, core_vr_resume_emu_impl, VFields, SameSeek
    <3> HIDE DEF b
    <3>9. Aside(x, b) /\ SameSeek(x, b)
      BY <3>4, <3>6, <3>8, AsideTransitive DEF SameSeek
    <3>10. Seeks(v, b, k)
      BY <3>2, <3>3, <3>9, SeeksThenAside
    <3> QED BY <3>10, SeeksBegins
  <2> QED BY <2>4, <2>6, <2>7
<1>7. Begins(v, z, k)
  BY <1>1, <1>4, <1>5, <1>6
<1> QED BY <1>7 DEF z

\* The parts of a controller poll, which comes while no savestate task is performed.
LEMMA StartingServes ==
    ASSUME NEW v, Engine(v), NEW k \in Nat \ {0} PROVE Serves(v, vcr_handle_starting_tasks(v), k)
<1> DEFINE u == [v EXCEPT !.g_reset_pending = TRUE]
           w == vcr_handle_starting_tasks(v)
<1>1. Engine(u)
  <2>1. Quiet(v, u)
    BY DEF Engine, VFields, Quiet, SameMovie, SamePlace, SameFiles, SameQueues
  <2> QED BY <2>1, QuietKeeps
<1>2. Aside(v, [u EXCEPT !.g_reset_pending = v.g_reset_pending])
  BY DEF Engine, VFields, Aside
<1>3. \/ w = v
      \/ \E what \in {"record_reset", "playback_reset"} : w = submit_task(u, Job(what, 0, NoMovie))
  BY DEF vcr_handle_starting_tasks
<1> HIDE DEF u, w
<1>4. \A what \in {"record_reset", "playback_reset"} :
         Serves(v, submit_task(u, Job(what, 0, NoMovie)), k)
  <2> TAKE what \in {"record_reset", "playback_reset"}
  <2>1. Job(what, 0, NoMovie).what \in EngineResets
    BY RequestFields DEF EngineResets
  <2> QED BY <1>1, <1>2, <2>1, ResetServes
<1>5. Serves(v, w, k)
  BY <1>3, <1>4, ServesItself
<1> QED BY <1>5 DEF w

LEMMA CreatesServes ==
    ASSUME NEW v, Engine(v) PROVE Serves(v, vcr_create_seek_savestates(v), 1)
<1> DEFINE u == purge_oldest(v)
           t == StTask("seek_save", v.m_current_sample, NoMovie, NoState)
<1>1. Aside(v, u)
  <2>1. DOMAIN v = VFields
    BY DEF Engine
  <2> QED BY <2>1, PurgedAside, AsideItself DEF purge_oldest
<1>2. Engine(u)
  <2>1. Calm(v, u)
    BY Purged DEF purge_oldest, Calm
  <2> QED BY <2>1 DEF Calm
<1>3. t.what # "seek_load"
  BY RequestFields
<1> HIDE DEF u, t
<1>4. Serves(v, u, 1)
  BY <1>1, AsideEases, EasesServes
<1>5. Serves(u, st_push(u, t), 1)
  BY <1>2, <1>3, TaskServes
<1>6. Serves(v, st_push(u, t), 1)
  BY <1>4, <1>5, ServesTransitive
<1>7. vcr_create_seek_savestates(v) \in {v, st_push(u, t)}
  BY DEF vcr_create_seek_savestates, vcr_create_n_frame_savestate, u, t
<1> QED BY <1>6, <1>7, ServesItself

LEMMA BeforeInputServes == ASSUME NEW v, Engine(v) PROVE Serves(v, before_input(v), 1)
<1> DEFINE x == vcr_stop_seek_if_needed(v)
           y == vcr_handle_starting_tasks(x)
           s == core_vcr_stop_seek(v)
<1>1. Aside(v, x)
  <2>1. Aside(v, v) /\ Aside(v, s)
    BY AsideItself, PausingAside DEF Engine
  <2>2. Aside(s, core_vr_pause_emu(s))
    BY <2>1, PausingAside DEF Aside
  <2>3. Aside(v, core_vr_pause_emu(s))
    BY <2>1, <2>2, AsideTransitive
  <2> QED BY <2>1, <2>3 DEF vcr_stop_seek_if_needed
<1>2. Engine(x) /\ Engine(y)
  <2>1. Engine(x)
    BY StopsSeekIfNeeded DEF Calm
  <2> HIDE DEF x
  <2> QED BY <2>1, StartingTasks DEF Calm
<1>3. Serves(v, x, 1)
  BY <1>1, AsideEases, EasesServes
<1> HIDE DEF x
<1>4. Serves(x, y, 1)
  BY <1>2, StartingServes
<1> HIDE DEF y
<1>5. Serves(y, vcr_create_seek_savestates(y), 1)
  BY <1>2, CreatesServes
<1>6. Serves(v, vcr_create_seek_savestates(y), 1)
  BY <1>3, <1>4, <1>5, ServesTransitive
<1> QED BY <1>6 DEF before_input, x, y

LEMMA RecordingServes ==
    ASSUME NEW v, Engine(v), v.g_task = "task_recording", NEW index, NEW keys \in Buttons
    PROVE  Serves(v, vcr_handle_recording(v, index, keys), 1)
<1> DEFINE x == IF use_inputs_from_buffer(v, index) THEN v
                ELSE append_input(v, recording_input(v, index, keys))
           y == next_sample(x)
           u == [y EXCEPT !.vcr_reset_requested = FALSE, !.g_reset_pending = TRUE]
           z == vcr_handle_recording(v, index, keys)
           j == Job("user_reset", 0, NoMovie)
<1>1. Aside(v, x)
  BY AsideItself, PausingAside DEF Engine
<1>2. Engine(x) /\ Begun(x)
  <2>1. CASE use_inputs_from_buffer(v, index)
    BY <2>1 DEF Engine, BegunOK
  <2>2. CASE ~use_inputs_from_buffer(v, index)
    <3>1. recording_input(v, index, keys) \in Input
      BY <2>2 DEF recording_input, Input
    <3>2. Goes(v, x)
      BY <2>2, <3>1, InputAppended
    <3>3. Begun(v)
      BY DEF Engine, BegunOK
    <3> QED BY <3>2, <3>3 DEF Goes
  <2> QED BY <2>1, <2>2
<1>3. z \in {y, submit_task(u, j)}
  BY DEF vcr_handle_recording, user_reset
<1> HIDE DEF x, z
<1>4. Aside(x, y)
  BY <1>1, PausingAside DEF Aside
<1>5. Engine(y)
  BY <1>2, NextSample DEF Calm
<1>6. Aside(v, y)
  BY <1>1, <1>4, AsideTransitive
<1> HIDE DEF y
<1>7. Serves(v, y, 1)
  BY <1>6, AsideEases, EasesServes
<1>8. Serves(y, submit_task(u, j), 1)
  <2>1. Engine(u)
    <3>1. Quiet(y, u)
      BY <1>5 DEF Engine, VFields, Quiet, SameMovie, SamePlace, SameFiles, SameQueues
    <3> QED BY <1>5, <3>1, QuietKeeps
  <2>2. Aside(y, [u EXCEPT !.g_reset_pending = y.g_reset_pending])
    BY <1>5 DEF Engine, VFields, Aside
  <2>3. j.what \in EngineResets
    BY RequestFields DEF EngineResets
  <2> HIDE DEF u, j
  <2> QED BY <1>5, <2>1, <2>2, <2>3, ResetServes
<1>9. Serves(v, z, 1)
  BY <1>3, <1>7, <1>8, ServesTransitive
<1> QED BY <1>9 DEF z

LEMMA PlayingServes ==
    ASSUME NEW v, Engine(v), v.g_task = "task_playback", NEW index
    PROVE  Serves(v, vcr_handle_playback(v, index), 1)
<1> DEFINE w == pause_at_movie_end(v)
           u == [w EXCEPT !.g_reset_pending = TRUE]
           j == Job("movie_reset", 0, NoMovie)
           q == submit_task(u, j)
           z == vcr_handle_playback(v, index)
<1>1. Aside(v, w) /\ Quiet(v, w)
  BY AsideItself, PausingAside, QuietSelf, PausingQuiet DEF pause_at_movie_end, Engine
<1>2. z \in {movie_ended(w), next_sample(w), next_sample(q)}
  BY DEF vcr_handle_playback, movie_reset
<1> HIDE DEF w, z
<1>3. Engine(w) /\ w.g_task = "task_playback" /\ w.g_movie_path \in Movies
  <2>1. Engine(w)
    BY <1>1, QuietKeeps
  <2>2. w.g_task = "task_playback"
    BY <1>1 DEF Aside
  <2> QED BY <2>1, <2>2 DEF Engine, BegunOK, Begun
<1>4. Serves(v, w, 1)
  BY <1>1, AsideEases, EasesServes
<1>5. Serves(w, movie_ended(w), 1)
  <2> DEFINE x == core_vcr_stop_all(w)
  <2>1. Engine(x)
    BY <1>3, StopsAll DEF Stopped
  <2>2. Serves(w, x, 1)
    BY <1>3, StopEases, EasesServes DEF Engine
  <2> HIDE DEF x
  <2>3. Serves(x, core_vcr_start_playback(x, w.g_movie_path), 1)
    BY <1>3, <2>1, PlaybackServes
  <2>4. Serves(w, core_vcr_start_playback(x, w.g_movie_path), 1)
    BY <2>2, <2>3, ServesTransitive
  <2> QED BY <2>2, <2>4 DEF movie_ended, x
<1>6. Serves(w, next_sample(w), 1)
  BY <1>3, PausingAside, AsideEases, EasesServes DEF Engine
<1>7. Serves(w, next_sample(q), 1)
  <2>1. Engine(u)
    <3>1. Quiet(w, u)
      BY <1>3 DEF Engine, VFields, Quiet, SameMovie, SamePlace, SameFiles, SameQueues
    <3> QED BY <1>3, <3>1, QuietKeeps
  <2>2. Aside(w, [u EXCEPT !.g_reset_pending = w.g_reset_pending])
    BY <1>3 DEF Engine, VFields, Aside
  <2>3. j.what \in EngineResets /\ NamesSnapshot(j) /\ j.what \notin Starts
    BY RequestFields DEF EngineResets, NamesSnapshot, Starts
  <2> HIDE DEF u, j
  <2>4. Serves(w, q, 1)
    BY <1>3, <2>1, <2>2, <2>3, ResetServes
  <2>5. Engine(q)
    BY <2>1, <2>3, JobSubmitted DEF Calm
  <2> HIDE DEF q
  <2>6. Serves(q, next_sample(q), 1)
    BY <2>5, PausingAside, AsideEases, EasesServes DEF Engine
  <2> QED BY <2>4, <2>6, ServesTransitive
<1>8. Serves(w, z, 1)
  BY <1>2, <1>5, <1>6, <1>7
<1>9. Serves(v, z, 1)
  BY <1>4, <1>8, ServesTransitive
<1> QED BY <1>9 DEF z

LEMMA PollServes ==
    ASSUME NEW v, Engine(v), NEW index, NEW keys \in Buttons
    PROVE  Serves(v, vcr_on_controller_poll(v, index, keys), 1)
<1> DEFINE w == before_input(v)
           z == vcr_on_controller_poll(v, index, keys)
<1>1. Engine(w) /\ Serves(v, w, 1)
  BY BeforeInput, BeforeInputServes DEF Calm
<1>2. \/ z = v
      \/ w.g_task = "task_recording" /\ z = vcr_handle_recording(w, index, keys)
      \/ w.g_task = "task_playback" /\ z = vcr_handle_playback(w, index)
      \/ z = w
  BY DEF vcr_on_controller_poll
<1> HIDE DEF w, z
<1>3. z = v \/ Serves(w, z, 1)
  BY <1>1, <1>2, RecordingServes, PlayingServes, ServesItself
<1>4. Serves(v, z, 1)
  BY <1>1, <1>3, ServesItself, ServesTransitive
<1> QED BY <1>4 DEF z

-----------------------------------------------------------------------------
(* Requests that are performed                                             *)

\* The first savestate task that the emulation thread has not performed yet.
First == IF working THEN next ELSE 1

\* The core stops while a savestate that the engine waits for is queued, or before the
\* existing snapshot was asked for: st_on_core_stop clears the queue without a callback.
StopDropsRequest ==
    /\ emu_thread_ends
    /\ \/ HasStTask({"seek_load", "record_snapshot", "record_existing", "playback_snapshot"})
       \/ vcr.g_task = "task_start_recording_from_existing_snapshot"

Resetting == reset.what \in EngineResets

Steady ==
    /\ ResetAwaited(vcr, Resetting) => ResetAwaited(vcr', Resetting')
    /\ Lone(vcr, First) => Lone(vcr', First')
    /\ ~StopDropsRequest /\ Undisturbed /\ Awaited(vcr, First) => Awaited(vcr', First')
    /\ vcr'.g_seek_savestate_loading => vcr.g_seek_savestate_loading \/ Held(vcr')

LEMMA BeginsStep ==
    ASSUME Begins(vcr, vcr', First), First' = First, UNCHANGED reset PROVE Steady
<1>1. Resetting \in BOOLEAN /\ Resetting' = Resetting
  BY DEF Resetting
<1>2. /\ ResetAwaited(vcr, Resetting) => ResetAwaited(vcr', Resetting)
      /\ Awaited(vcr, First) => Awaited(vcr', First)
      /\ Lone(vcr, First) => Lone(vcr', First)
      /\ vcr'.g_seek_savestate_loading => vcr.g_seek_savestate_loading \/ Held(vcr')
  BY <1>1 DEF Begins, Keeps
<1> QED BY <1>1, <1>2 DEF Steady

\* A task that is passed over is not the one that is waited for.
Moot(v, t) ==
    /\ t.what = "seek_load" => ~v.g_seek_savestate_loading
    /\ t.what = "record_snapshot" => v.g_task # "task_start_recording_from_snapshot"
    /\ t.what = "record_existing" =>
          \/ v.g_task # "task_start_recording_from_existing_snapshot"
          \/ v.snapshots[t.path] = NoState
    /\ t.what = "playback_snapshot" =>
          \/ v.g_task # "task_start_playback_from_snapshot"
          \/ v.snapshots[t.path] = NoState

LEMMA TaskPassed ==
    ASSUME NEW v, Engine(v), NEW k \in 1 .. Len(v.g_tasks), Moot(v, v.g_tasks[k])
    PROVE  (Awaited(v, k) => Awaited(v, k + 1)) /\ (Lone(v, k) => Lone(v, k + 1))
<1>0. Len(v.g_tasks) \in Nat
  BY PushFront DEF Engine, TasksOK
<1>1. \A x : TaskIn(v, k, x) => x = v.g_tasks[k] \/ TaskIn(v, k + 1, x)
  BY <1>0 DEF TaskIn
<1>2. \A x : TaskIn(v, k + 1, x) => TaskIn(v, k, x)
  BY <1>0 DEF TaskIn
<1>3. Awaited(v, k) => Awaited(v, k + 1)
  BY <1>1 DEF Awaited, SnapshotAhead, Ahead, Moot
<1>4. \A i \in k + 1 .. Len(v.g_tasks) : i \in k .. Len(v.g_tasks)
  BY <1>0
<1>5. Lone(v, k) => Lone(v, k + 1)
  BY <1>2, <1>4 DEF Lone, Ahead
<1> QED BY <1>3, <1>5

\* What the k-th task does once it is performed.
Performs(v, w, k) ==
    /\ \A r \in BOOLEAN : ResetAwaited(v, r) => ResetAwaited(w, r)
    /\ Awaited(v, k) => Awaited(w, k + 1)
    /\ Lone(v, k) => Lone(w, k + 1)
    /\ w.g_seek_savestate_loading => v.g_seek_savestate_loading

LEMMA PassedThenEases ==
    ASSUME NEW v, NEW w, Engine(v), NEW k \in 1 .. Len(v.g_tasks), Moot(v, v.g_tasks[k]),
           Eases(v, w)
    PROVE  Performs(v, w, k)
<1>1. k + 1 \in Nat \ {0}
  BY PushFront DEF Engine, TasksOK
<1>2. Serves(v, w, k + 1)
  BY <1>1, EasesServes
<1> QED BY <1>2, TaskPassed DEF Performs, Serves, Keeps

LEMMA EasedThenPassed ==
    ASSUME NEW v, NEW w, Engine(v), Engine(w), NEW k \in 1 .. Len(v.g_tasks), Eases(v, w),
           Moot(w, v.g_tasks[k])
    PROVE  Performs(v, w, k)
<1>1. k \in Nat \ {0} /\ w.g_tasks = v.g_tasks
  BY PushFront DEF Engine, TasksOK, Eases
<1>2. Serves(v, w, k)
  BY <1>1, EasesServes
<1>3. (Awaited(w, k) => Awaited(w, k + 1)) /\ (Lone(w, k) => Lone(w, k + 1))
  BY <1>1, TaskPassed
<1> QED BY <1>2, <1>3 DEF Performs, Serves, Keeps

\* A load of a seek savestate that ends was the only one.
LEMMA SeekLoadPassed ==
    ASSUME NEW v, NEW u, NEW w, Engine(v), NEW k \in 1 .. Len(v.g_tasks),
           v.g_tasks[k].what = "seek_load", Eases(v, u), DOMAIN u = VFields,
           Aside([u EXCEPT !.g_seek_savestate_loading = FALSE], w)
    PROVE  Performs(v, w, k)
<1>0. Len(v.g_tasks) \in Nat
  BY PushFront DEF Engine, TasksOK
<1>1. /\ w.jobs = v.jobs /\ w.g_tasks = v.g_tasks
      /\ w.g_task \in SnapshotStarts =>
          /\ w.g_task = v.g_task /\ w.core_executing = v.core_executing
          /\ \A p \in Movies : v.snapshots[p] # NoState => w.snapshots[p] # NoState
      /\ w.g_seek_savestate_loading = FALSE /\ (w.g_reset_pending => v.g_reset_pending)
  BY DEF Eases, VFields, Aside
<1>2. \A x : TaskIn(v, k, x) => x = v.g_tasks[k] \/ TaskIn(w, k + 1, x)
  BY <1>0, <1>1 DEF TaskIn
<1>3. \A x : TaskIn(w, k + 1, x) => TaskIn(v, k, x)
  BY <1>0, <1>1 DEF TaskIn
<1>4. \A x : JobIn(v, x) <=> JobIn(w, x)
  BY <1>1 DEF JobIn
<1>5. \A what \in {"record_existing", "playback_snapshot"} :
         SnapshotAhead(v, k, what) /\ w.g_task \in SnapshotStarts
            => SnapshotAhead(w, k + 1, what)
  BY <1>1, <1>2, <1>4, RequestNames DEF SnapshotAhead, Ahead
<1>6. Awaited(v, k) => Awaited(w, k + 1)
  BY <1>1, <1>2, <1>4, <1>5 DEF Awaited, SnapshotStarts
<1>7. \A i \in k + 1 .. Len(v.g_tasks) : i \in k .. Len(v.g_tasks) /\ i # k
  BY <1>0
<1>8. Lone(v, k) => \A i \in k + 1 .. Len(v.g_tasks) : v.g_tasks[i].what # "seek_load"
  BY <1>0, <1>7 DEF Lone
<1>9. Lone(v, k) => \A i \in 1 .. Len(v.jobs) : v.jobs[i].what # "seek_load"
  BY <1>0 DEF Lone
<1>10. Lone(v, k) => Lone(w, k + 1)
  <2> SUFFICES ASSUME Lone(v, k) PROVE Lone(w, k + 1)
    OBVIOUS
  <2>1. \A x : Ahead(w, k + 1, x) => x.what # "seek_load"
    BY <1>1, <1>8, <1>9 DEF Ahead, JobIn, TaskIn
  <2> QED BY <1>1, <1>8, <1>9, <2>1 DEF Lone
<1>11. \A r \in BOOLEAN : ResetAwaited(v, r) => ResetAwaited(w, r)
  BY <1>1, <1>4 DEF ResetAwaited
<1> QED BY <1>1, <1>6, <1>10, <1>11 DEF Performs

LEMMA LonePassed ==
    ASSUME NEW v, Engine(v), NEW k \in 1 .. Len(v.g_tasks), Lone(v, k)
    PROVE  Lone(v, k + 1)
<1>0. Len(v.g_tasks) \in Nat
  BY PushFront DEF Engine, TasksOK
<1>1. \A x : TaskIn(v, k + 1, x) => TaskIn(v, k, x)
  BY <1>0 DEF TaskIn
<1>2. \A i \in k + 1 .. Len(v.g_tasks) : i \in k .. Len(v.g_tasks)
  BY <1>0
<1> QED BY <1>1, <1>2 DEF Lone, Ahead

\* The callback of a task that failed, after the state the load left.
LEMMA FailurePerforms ==
    ASSUME NEW v, NEW u, Engine(v), Engine(u), NEW k \in 1 .. Len(v.g_tasks), Eases(v, u),
           v.g_tasks[k].what # "record_snapshot",
           v.g_tasks[k].what \in {"record_existing", "playback_snapshot"} =>
               v.snapshots[v.g_tasks[k].path] = NoState
    PROVE  Performs(v, task_failed(u, v.g_tasks[k]), k)
<1> DEFINE t == v.g_tasks[k]
           s == [u EXCEPT !.g_seek_savestate_loading = FALSE]
<1>1. CASE t.what = "seek_load"
  <2>1. task_failed(u, t) = core_vcr_stop_seek(s)
    BY <1>1 DEF task_failed
  <2>2. DOMAIN u = VFields /\ DOMAIN s = VFields
    BY DEF Engine
  <2>3. Aside(s, core_vcr_stop_seek(s))
    BY <2>2, PausingAside
  <2> QED BY <1>1, <2>1, <2>2, <2>3, SeekLoadPassed
<1>2. CASE t.what # "seek_load"
  <2>1. Moot(v, t)
    BY <1>2 DEF Moot
  <2>2. Eases(u, core_vcr_stop_all(u))
    BY StopEases DEF Engine
  <2>3. task_failed(u, t) \in {u, core_vcr_stop_all(u)}
    BY <1>2 DEF task_failed
  <2>4. Eases(v, task_failed(u, t))
    BY <2>2, <2>3, EasesTransitive
  <2> QED BY <2>1, <2>4, PassedThenEases
<1> QED BY <1>1, <1>2

LEMMA SuccessPerforms ==
    ASSUME NEW v, NEW u, NEW st, Engine(v), Engine(u), NEW k \in 1 .. Len(v.g_tasks), Eases(v, u),
           Engine(task_done(u, v.g_tasks[k], st))
    PROVE  Performs(v, task_done(u, v.g_tasks[k], st), k)
<1> DEFINE t == v.g_tasks[k]
           w == task_done(u, t, st)
           s == [u EXCEPT !.g_seek_savestate_loading = FALSE]
<1>0. DOMAIN u = VFields /\ DOMAIN s = VFields
  BY DEF Engine
<1>1. CASE t.what = "seek_load"
  <2>1. w = s
    BY <1>1 DEF task_done
  <2> QED BY <1>0, <1>1, <2>1, AsideItself, SeekLoadPassed
<1>2. CASE t.what = "seek_save"
  <2> DEFINE F == [f \in DOMAIN u.g_seek_savestates \cup {t.frame} |->
                     IF f = t.frame THEN st ELSE u.g_seek_savestates[f]]
  <2>1. w = [u EXCEPT !.g_seek_savestates = F]
    BY <1>2 DEF task_done
  <2>2. Aside(u, [u EXCEPT !.g_seek_savestates = F])
    BY <1>0, PurgedAside
  <2>3. Eases(v, w)
    BY <2>1, <2>2, AsideEases, EasesTransitive
  <2>4. Moot(v, t)
    BY <1>2 DEF Moot
  <2> QED BY <2>3, <2>4, PassedThenEases
<1>3. ASSUME NEW task \in {"task_recording", "task_playback"}, w = set_task(u, task)
      PROVE  Performs(v, w, k)
  <2>1. Eases(v, w)
    BY <1>0, <1>3, StartedEases, EasesTransitive DEF SnapshotStarts
  <2>2. w.g_task = task
    BY <1>0, <1>3 DEF set_task, VFields
  <2>3. CASE t.what # "seek_load"
    <3>1. Moot(w, t)
      BY <2>2, <2>3 DEF Moot
    <3> QED BY <2>1, <3>1, EasedThenPassed
  <2> QED BY <2>3, <1>1
<1>4. CASE t.what \in {"record_snapshot", "record_existing", "playback_snapshot"}
  BY <1>3, <1>4 DEF task_done
<1>5. CASE t.what \notin {"seek_load", "seek_save", "record_snapshot", "record_existing",
                          "playback_snapshot"}
  <2>1. w = u
    BY <1>5 DEF task_done
  <2>2. Moot(v, t)
    BY <1>5 DEF Moot
  <2> QED BY <2>1, <2>2, PassedThenEases
<1> QED BY <1>1, <1>2, <1>4, <1>5

LEMMA WriteAside == ASSUME NEW v, DOMAIN v = VFields PROVE Aside(v, write_movie(v))
  BY DEF write_movie, write_movie_impl, VFields, Aside

LEMMA PerformsStep ==
    ASSUME working, working', next' = next + 1, UNCHANGED reset, Performs(vcr, vcr', next)
    PROVE  Steady
<1>1. First = next /\ First' = next + 1
  BY DEF First
<1>2. Resetting \in BOOLEAN /\ Resetting' = Resetting
  BY DEF Resetting
<1> QED BY <1>1, <1>2 DEF Steady, Performs

\* The snapshot that a recording starts with was not saved: its task stays as it is.
LEMMA SnapshotNotSaved ==
    ASSUME NEW v, Engine(v), NEW k \in 1 .. Len(v.g_tasks),
           v.g_tasks[k].what = "record_snapshot"
    PROVE  LET w == task_failed(v, v.g_tasks[k])
           IN  /\ \A r \in BOOLEAN : ResetAwaited(v, r) => ResetAwaited(w, r)
               /\ Lone(v, k) => Lone(w, k + 1)
               /\ w.g_seek_savestate_loading => v.g_seek_savestate_loading
<1> DEFINE w == task_failed(v, v.g_tasks[k])
<1>1. w = core_vcr_stop_all(v)
  BY DEF task_failed
<1>2. Eases(v, w) /\ k + 1 \in Nat \ {0}
  BY <1>1, StopEases, PushFront DEF Engine, TasksOK
<1>3. Serves(v, w, k + 1)
  BY <1>2, EasesServes
<1> QED BY <1>3, LonePassed DEF Serves, Keeps

LEMMA SavePerforms ==
    ASSUME Inv, Inv', next \in 1 .. Len(vcr.g_tasks), working, working', next' = next + 1,
           UNCHANGED <<scene, reset>>, savestates_save_immediate_impl(vcr.g_tasks[next])
    PROVE  Steady
<1> DEFINE t == vcr.g_tasks[next]
           v == write_movie(vcr)
           st == savestate(vcr)
           y == [v EXCEPT !.snapshots[t.path] = st]
<1>0. Engine(vcr) /\ Engine(vcr') /\ DOMAIN vcr = VFields
  BY DEF Inv, Engine
<1>1. Aside(vcr, v) /\ Engine(v) /\ Eases(vcr, v)
  BY <1>0, WriteAside, WritesMovie, AsideEases
<1>2. \/ vcr' = task_done(IF t.what = "record_snapshot" THEN y ELSE v, t, st)
      \/ "save_fails" \in scene.env /\ vcr' = task_failed(v, t)
  BY DEF savestates_save_immediate_impl
<1>3. t.what \in {"seek_save", "record_snapshot", "slot_save"}
  BY DEF savestates_save_immediate_impl, SaveTasks
<1>4. v.g_tasks = vcr.g_tasks
  BY <1>1 DEF Aside
<1> HIDE DEF v, st
<1>5. CASE vcr' = task_done(v, t, st) /\ t.what # "record_snapshot"
  BY <1>0, <1>1, <1>5, SuccessPerforms, PerformsStep
<1>6. CASE vcr' = task_done(y, t, st) /\ t.what = "record_snapshot"
  <2>1. vcr' = set_task(y, "task_recording")
    BY <1>6 DEF task_done
  <2>2. DOMAIN v = VFields
    BY <1>1 DEF Engine
  <2>3. Eases(vcr, set_task(y, "task_recording")) /\ set_task(y, "task_recording").g_task = "task_recording"
    BY <1>1, <2>2 DEF set_task, Aside, Eases, VFields, SnapshotStarts
  <2>4. Moot(vcr', t)
    BY <1>6, <2>1, <2>3 DEF Moot
  <2>5. Performs(vcr, vcr', next)
    BY <1>0, <2>1, <2>3, <2>4, EasedThenPassed
  <2> QED BY <2>5, PerformsStep
<1>7. CASE vcr' = task_failed(v, t) /\ t.what # "record_snapshot"
  <2>1. Performs(vcr, vcr', next)
    BY <1>0, <1>1, <1>3, <1>7, FailurePerforms
  <2> QED BY <2>1, PerformsStep
<1>8. CASE /\ vcr' = task_failed(v, t) /\ t.what = "record_snapshot"
           /\ "save_fails" \in scene.env
  <2>0. next \in Nat \ {0}
    BY <1>0, PushFront DEF Engine, TasksOK
  <2>1. Serves(vcr, v, next)
    BY <1>0, <1>1, <2>0, EasesServes
  <2>2. /\ \A r \in BOOLEAN : ResetAwaited(v, r) => ResetAwaited(vcr', r)
        /\ Lone(v, next) => Lone(vcr', next + 1)
        /\ vcr'.g_seek_savestate_loading => v.g_seek_savestate_loading
    BY <1>1, <1>4, <1>8, SnapshotNotSaved
  <2>3. ~Undisturbed
    BY <1>8 DEF Undisturbed
  <2>4. First = next /\ First' = next + 1
    BY DEF First
  <2>5. Resetting \in BOOLEAN /\ Resetting' = Resetting
    BY DEF Resetting
  <2> QED BY <2>1, <2>2, <2>3, <2>4, <2>5 DEF Steady, Serves, Keeps
<1> QED BY <1>2, <1>5, <1>6, <1>7, <1>8

LEMMA LoadPerforms ==
    ASSUME Inv, Inv', next \in 1 .. Len(vcr.g_tasks), working, working', next' = next + 1,
           UNCHANGED <<scene, reset>>, savestates_load_immediate_impl(vcr.g_tasks[next])
    PROVE  Steady
<1> DEFINE t == vcr.g_tasks[next]
           st == task_buffer(t)
           u == unfrozen(st)
<1>0. Engine(vcr) /\ Engine(vcr') /\ DOMAIN vcr = VFields
  BY DEF Inv, Engine
<1>1. \/ st = NoState /\ vcr' = task_failed(vcr, t)
      \/ st # NoState /\ t.what \in {"seek_load", "slot_load"} /\ vcr' = task_failed(u, t)
      \/ st # NoState /\ vcr' = task_done(u, t, st)
  BY DEF savestates_load_immediate_impl, load_warns
<1>2. t.what \in LoadTasks
  BY DEF savestates_load_immediate_impl
<1>3. Eases(vcr, vcr)
  BY <1>0, AsideItself, AsideEases
<1>4. st # NoState => Engine(u) /\ Eases(vcr, u)
  <2> SUFFICES ASSUME st # NoState PROVE Engine(u) /\ Eases(vcr, u)
    OBVIOUS
  <2>1. Frozen(st)
    <3>1. NamesSnapshot(t) /\ Frozen(t.st)
      BY TaskAtHand
    <3> QED BY <1>0, <1>2, <3>1 DEF task_buffer, Inv, Engine, FilesOK, NamesSnapshot, LoadTasks
  <2>2. CASE st.freeze.is_movie
    <3>1. u = core_vcr_unfreeze(vcr, st.freeze)
      BY <2>2 DEF unfrozen
    <3> QED BY <1>0, <2>1, <2>2, <3>1, Unfreezes, UnfreezeEases DEF Frozen, Unfrozen
  <2>3. CASE ~st.freeze.is_movie
    BY <1>0, <1>3, <2>3 DEF unfrozen
  <2> QED BY <2>2, <2>3
<1>5. CASE st = NoState /\ vcr' = task_failed(vcr, t)
  <2>1. t.what \in {"record_existing", "playback_snapshot"} => vcr.snapshots[t.path] = NoState
    BY <1>5 DEF task_buffer
  <2>2. t.what # "record_snapshot"
    BY <1>2 DEF LoadTasks
  <2>3. Performs(vcr, task_failed(vcr, t), next)
    BY <1>0, <1>3, <2>1, <2>2, FailurePerforms
  <2> QED BY <1>5, <2>3, PerformsStep
<1>6. CASE st # NoState /\ t.what \in {"seek_load", "slot_load"} /\ vcr' = task_failed(u, t)
  <2>1. Performs(vcr, task_failed(u, t), next)
    BY <1>0, <1>4, <1>6, FailurePerforms
  <2> QED BY <1>6, <2>1, PerformsStep
<1>7. CASE st # NoState /\ vcr' = task_done(u, t, st)
  <2>1. Performs(vcr, task_done(u, t, st), next)
    BY <1>0, <1>4, <1>7, SuccessPerforms
  <2> QED BY <1>7, <2>1, PerformsStep
<1> QED BY <1>1, <1>5, <1>6, <1>7

LEMMA TaskSteady == ASSUME Inv, Inv', st_do_work_task PROVE Steady
<1>1. /\ next \in 1 .. Len(vcr.g_tasks) /\ working /\ working' /\ next' = next + 1
      /\ UNCHANGED <<scene, reset>>
  <2>1. working /\ working' /\ UNCHANGED <<scene, reset>>
    BY DEF st_do_work_task, working
  <2>2. next <= Len(vcr.g_tasks) /\ next' = next + 1
    BY DEF st_do_work_task
  <2>3. next \in Nat \ {0} /\ Len(vcr.g_tasks) \in Nat
    BY PushFront DEF Inv, Engine, TasksOK
  <2> QED BY <2>1, <2>2, <2>3
<1>2. \/ savestates_save_immediate_impl(vcr.g_tasks[next])
      \/ savestates_load_immediate_impl(vcr.g_tasks[next])
  BY DEF st_do_work_task
<1> QED BY <1>1, <1>2, SavePerforms, LoadPerforms

LEMMA AsideStep ==
    ASSUME Inv, Aside(vcr, vcr'), First' = First, UNCHANGED reset PROVE Steady
<1>1. First \in Nat \ {0}
  BY DEF Inv, First
<1>2. Serves(vcr, vcr', First)
  BY <1>1, AsideEases, EasesServes DEF Inv
<1> QED BY <1>2, ServesBegins, BeginsStep

\* The queue is empty once its tasks are performed, or lost when the core stops.
LEMMA ClearedSteady ==
    ASSUME Inv, First' \in Nat \ {0}, UNCHANGED reset, DOMAIN vcr' = VFields,
           vcr'.jobs = vcr.jobs, vcr'.g_tasks = << >>, vcr'.g_task = vcr.g_task,
           vcr'.snapshots = vcr.snapshots, vcr'.g_reset_pending = vcr.g_reset_pending,
           vcr'.g_seek_savestate_loading = vcr.g_seek_savestate_loading,
           ~StopDropsRequest =>
              /\ \A x : TaskIn(vcr, First, x) => x.what \notin
                    {"seek_load", "record_snapshot", "record_existing", "playback_snapshot"}
              /\ \/ vcr'.core_executing = vcr.core_executing
                 \/ vcr.g_task # "task_start_recording_from_existing_snapshot"
    PROVE  Steady
<1>1. \A x : JobIn(vcr', x) <=> JobIn(vcr, x)
  BY DEF JobIn
<1>2. \A x : ~TaskIn(vcr', First', x)
  <2>1. Len(vcr'.g_tasks) = 0
    OBVIOUS
  <2> QED BY <2>1 DEF TaskIn
<1>3. ResetAwaited(vcr, Resetting) => ResetAwaited(vcr', Resetting')
  BY <1>1 DEF ResetAwaited, Resetting
<1>4. Lone(vcr, First) => Lone(vcr', First')
  <2> SUFFICES ASSUME Lone(vcr, First) PROVE Lone(vcr', First')
    OBVIOUS
  <2>1. \A i \in First' .. Len(vcr'.g_tasks) : FALSE
    <3>1. Len(vcr'.g_tasks) = 0
      OBVIOUS
    <3> QED BY <3>1
  <2>2. \A x : Ahead(vcr', First', x) => Ahead(vcr, First, x)
    BY <1>1, <1>2 DEF Ahead
  <2> QED BY <2>1, <2>2 DEF Lone
<1>5. ~StopDropsRequest /\ Awaited(vcr, First) => Awaited(vcr', First')
  <2> SUFFICES ASSUME ~StopDropsRequest, Awaited(vcr, First) PROVE Awaited(vcr', First')
    OBVIOUS
  <2>1. \A x : /\ Ahead(vcr, First, x)
               /\ x.what \in {"seek_load", "record_snapshot", "record_existing", "playback_snapshot"}
               => JobIn(vcr', x)
    BY <1>1 DEF Ahead
  <2> QED BY <2>1 DEF Awaited, SnapshotAhead, Ahead
<1> QED BY <1>3, <1>4, <1>5 DEF Steady

LEMMA EmuThreadSteady == ASSUME Inv, Inv', EmuThread PROVE Steady
<1>0. DOMAIN vcr = VFields /\ Engine(vcr)
  BY DEF Inv, Engine
<1>1. CASE update_pif_read
  <2> DEFINE x == [vcr EXCEPT !.frame_advance_outstanding = 0]
             y == [vcr EXCEPT !.frame_advance_outstanding = @ - 1]
  <2>1. vcr' \in {vcr, y, core_vr_pause_emu(x)}
    BY <1>1 DEF update_pif_read, advance_frame
  <2>2. Aside(vcr, x) /\ Aside(vcr, y) /\ DOMAIN x = VFields
    BY <1>0 DEF Aside, VFields
  <2>3. Aside(x, core_vr_pause_emu(x))
    BY <2>2, PausingAside
  <2>4. Aside(vcr, vcr')
    BY <1>0, <2>1, <2>2, <2>3, AsideItself, AsideTransitive
  <2>5. First' = First /\ UNCHANGED reset
    BY <1>1 DEF update_pif_read, First, working
  <2> QED BY <2>4, <2>5, AsideStep
<1>2. CASE pif_resumed \/ pif_no_work
  <2>1. First' = First /\ UNCHANGED <<reset, vcr>>
    BY <1>2 DEF pif_resumed, pif_no_work, First, working
  <2> QED BY <1>0, <2>1, AsideItself, AsideStep
<1>3. CASE st_do_work_begin
  <2>1. First' = First /\ UNCHANGED reset
    BY <1>3 DEF st_do_work_begin, First, working
  <2>2. vcr' \in {vcr, write_movie(vcr)}
    BY <1>3 DEF st_do_work_begin
  <2>3. Aside(vcr, vcr')
    BY <1>0, <2>2, AsideItself, WriteAside
  <2> QED BY <2>1, <2>3, AsideStep
<1>4. CASE st_do_work_task
  BY <1>4, TaskSteady
<1>5. CASE st_do_work_end
  <2>1. /\ First = next /\ UNCHANGED reset /\ next > Len(vcr.g_tasks)
        /\ vcr' = [vcr EXCEPT !.g_tasks = << >>]
    BY <1>5 DEF st_do_work_end, First
  <2>2. First' \in Nat \ {0}
    BY DEF Inv, First
  <2>3. \A x : ~TaskIn(vcr, First, x)
    <3>1. next \in Nat /\ Len(vcr.g_tasks) \in Nat
      BY PushFront DEF Inv, Engine, TasksOK
    <3> QED BY <2>1, <3>1 DEF TaskIn
  <2>4. /\ DOMAIN vcr' = VFields /\ vcr'.jobs = vcr.jobs /\ vcr'.g_tasks = << >>
        /\ vcr'.g_task = vcr.g_task /\ vcr'.snapshots = vcr.snapshots
        /\ vcr'.g_reset_pending = vcr.g_reset_pending
        /\ vcr'.g_seek_savestate_loading = vcr.g_seek_savestate_loading
        /\ vcr'.core_executing = vcr.core_executing
    BY <1>0, <2>1 DEF VFields
  <2> QED BY <2>1, <2>2, <2>3, <2>4, ClearedSteady
<1>6. CASE internal_ReadController
  <2>1. PICK keys \in Buttons : vcr' = vcr_on_controller_poll(vcr, channel, keys)
    BY <1>6 DEF internal_ReadController
  <2>2. First = 1 /\ First' = 1 /\ UNCHANGED reset
    BY <1>6 DEF internal_ReadController, First, working
  <2>3. Serves(vcr, vcr', First)
    BY <1>0, <2>1, <2>2, PollServes
  <2> QED BY <2>2, <2>3, ServesBegins, BeginsStep
<1>7. CASE emu_thread_ends
  <2>1. /\ First = 1 /\ First' = 1 /\ UNCHANGED reset
        /\ vcr' = [vcr EXCEPT !.core_executing = FALSE, !.emu_paused = TRUE, !.g_tasks = << >>]
    BY <1>7 DEF emu_thread_ends, First, working
  <2>2. /\ DOMAIN vcr' = VFields /\ vcr'.jobs = vcr.jobs /\ vcr'.g_tasks = << >>
        /\ vcr'.g_task = vcr.g_task /\ vcr'.snapshots = vcr.snapshots
        /\ vcr'.g_reset_pending = vcr.g_reset_pending
        /\ vcr'.g_seek_savestate_loading = vcr.g_seek_savestate_loading
    BY <1>0, <2>1 DEF VFields
  <2>3. ~StopDropsRequest =>
           /\ \A x : TaskIn(vcr, First, x) => x.what \notin
                 {"seek_load", "record_snapshot", "record_existing", "playback_snapshot"}
           /\ vcr.g_task # "task_start_recording_from_existing_snapshot"
    BY <1>7, <2>1 DEF StopDropsRequest, HasStTask, TaskIn
  <2>4. First' \in Nat \ {0}
    BY <2>1
  <2>5. UNCHANGED reset
    BY <2>1
  <2> QED BY <2>2, <2>3, <2>4, <2>5, ClearedSteady
<1> QED BY <1>1, <1>2, <1>3, <1>4, <1>5, <1>6, <1>7 DEF EmuThread

\* A job that a worker has taken out.
LEMMA JobGone ==
    ASSUME NEW v, Engine(v), NEW i \in 1 .. Len(v.jobs), NEW k
    PROVE  LET u == without_job(v, i)
           IN  /\ \A x : JobIn(v, x) => x = v.jobs[i] \/ JobIn(u, x)
               /\ \A x : JobIn(u, x) => JobIn(v, x)
               /\ \A x : TaskIn(u, k, x) <=> TaskIn(v, k, x)
               /\ DOMAIN u = VFields /\ u.g_tasks = v.g_tasks /\ u.snapshots = v.snapshots
               /\ u.g_task = v.g_task /\ u.g_reset_pending = v.g_reset_pending
               /\ u.g_seek_savestate_loading = v.g_seek_savestate_loading
               /\ u.core_executing = v.core_executing
               /\ Lone(v, k) => Lone(u, k)
               /\ Lone(v, k) /\ v.jobs[i].what = "seek_load" =>
                     \A x : Ahead(u, k, x) => x.what # "seek_load"
<1> DEFINE u == without_job(v, i)
<1>1. /\ DOMAIN u = VFields /\ u.g_tasks = v.g_tasks /\ u.snapshots = v.snapshots
      /\ u.g_task = v.g_task /\ u.g_reset_pending = v.g_reset_pending
      /\ u.g_seek_savestate_loading = v.g_seek_savestate_loading
      /\ u.core_executing = v.core_executing /\ u.jobs = RemoveIndex(v.jobs, i)
  BY DEF without_job, Engine, VFields
<1>2. /\ Len(v.jobs) \in Nat /\ Len(u.jobs) = Len(v.jobs) - 1
      /\ \A n \in 1 .. Len(v.jobs) - 1 : u.jobs[n] = IF n < i THEN v.jobs[n] ELSE v.jobs[n + 1]
  BY <1>1, TakenOut DEF Engine, JobsOK
<1> HIDE DEF u
<1> DEFINE old(n) == IF n < i THEN n ELSE n + 1
<1>3. \A n \in 1 .. Len(u.jobs) :
         old(n) \in 1 .. Len(v.jobs) /\ old(n) # i /\ u.jobs[n] = v.jobs[old(n)]
  BY <1>2
<1>4. \A m, n \in 1 .. Len(u.jobs) : old(m) = old(n) => m = n
  BY <1>2
<1>5. \A n \in 1 .. Len(v.jobs) : n # i => \E m \in 1 .. Len(u.jobs) : u.jobs[m] = v.jobs[n]
  <2> SUFFICES ASSUME NEW n \in 1 .. Len(v.jobs), n # i
               PROVE  \E m \in 1 .. Len(u.jobs) : u.jobs[m] = v.jobs[n]
    OBVIOUS
  <2>1. CASE n < i
    <3>1. n \in 1 .. Len(u.jobs) /\ u.jobs[n] = v.jobs[n]
      BY <1>2, <2>1
    <3> QED BY <3>1
  <2>2. CASE n > i
    <3>1. n - 1 \in 1 .. Len(u.jobs) /\ ~(n - 1 < i) /\ (n - 1) + 1 = n
      BY <1>2, <2>2
    <3>2. u.jobs[n - 1] = v.jobs[n]
      BY <1>2, <3>1
    <3> QED BY <3>1, <3>2
  <2> QED BY <2>1, <2>2
<1> HIDE DEF old
<1>6. \A x : JobIn(v, x) => x = v.jobs[i] \/ JobIn(u, x)
  BY <1>5 DEF JobIn
<1>7. \A x : JobIn(u, x) => JobIn(v, x)
  BY <1>3 DEF JobIn
<1>8. \A x : TaskIn(u, k, x) <=> TaskIn(v, k, x)
  BY <1>1 DEF TaskIn
<1>9. Lone(v, k) => Lone(u, k)
  <2> SUFFICES ASSUME Lone(v, k) PROVE Lone(u, k)
    OBVIOUS
  <2>1. \A x : Ahead(u, k, x) /\ x.what = "seek_load" => u.g_seek_savestate_loading
    BY <1>1, <1>7, <1>8 DEF Lone, Ahead
  <2>2. \A m, n \in 1 .. Len(u.jobs) :
           u.jobs[m].what = "seek_load" /\ u.jobs[n].what = "seek_load" => m = n
    <3> SUFFICES ASSUME NEW m \in 1 .. Len(u.jobs), NEW n \in 1 .. Len(u.jobs),
                        u.jobs[m].what = "seek_load", u.jobs[n].what = "seek_load"
                 PROVE  m = n
      OBVIOUS
    <3>1. old(m) = old(n)
      BY <1>3 DEF Lone
    <3> QED BY <1>4, <3>1
  <2>3. \A m \in 1 .. Len(u.jobs), n \in k .. Len(u.g_tasks) :
           ~(u.jobs[m].what = "seek_load" /\ u.g_tasks[n].what = "seek_load")
    BY <1>1, <1>3 DEF Lone
  <2> QED BY <1>1, <2>1, <2>2, <2>3 DEF Lone
<1>10. Lone(v, k) /\ v.jobs[i].what = "seek_load" =>
          \A x : Ahead(u, k, x) => x.what # "seek_load"
  <2> SUFFICES ASSUME Lone(v, k), v.jobs[i].what = "seek_load", NEW x, Ahead(u, k, x)
               PROVE  x.what # "seek_load"
    OBVIOUS
  <2>1. CASE JobIn(u, x)
    <3>1. PICK n \in 1 .. Len(u.jobs) : u.jobs[n] = x
      BY <2>1 DEF JobIn
    <3> QED BY <1>3, <3>1 DEF Lone
  <2>2. CASE TaskIn(u, k, x)
    <3>1. TaskIn(v, k, x)
      BY <1>8, <2>2
    <3>2. PICK n \in k .. Len(v.g_tasks) : v.g_tasks[n] = x
      BY <3>1 DEF TaskIn
    <3> QED BY <3>2 DEF Lone
  <2> QED BY <2>1, <2>2 DEF Ahead
<1> QED BY <1>1, <1>6, <1>7, <1>8, <1>9, <1>10 DEF u

\* Jobs that load no savestate are not what the engine waits for, but for a reset.
LEMMA JobLeaves ==
    ASSUME NEW v, NEW w, Engine(v), NEW i \in 1 .. Len(v.jobs), NEW k \in Nat \ {0},
           Engine(without_job(v, i)), Eases(without_job(v, i), w),
           v.jobs[i].what \notin {"seek_load", "record_existing", "playback_snapshot"}
    PROVE  /\ Awaited(v, k) => Awaited(w, k)
           /\ Lone(v, k) => Lone(w, k)
           /\ v.jobs[i].what \notin EngineResets /\ ResetAwaited(v, FALSE) => ResetAwaited(w, FALSE)
           /\ w.g_seek_savestate_loading => v.g_seek_savestate_loading
<1> DEFINE u == without_job(v, i)
           j == v.jobs[i]
<1>1. /\ \A x : JobIn(v, x) => x = j \/ JobIn(u, x)
      /\ \A x : TaskIn(u, k, x) <=> TaskIn(v, k, x)
      /\ u.snapshots = v.snapshots
      /\ u.g_task = v.g_task /\ u.g_reset_pending = v.g_reset_pending
      /\ u.g_seek_savestate_loading = v.g_seek_savestate_loading
      /\ u.core_executing = v.core_executing
      /\ Lone(v, k) => Lone(u, k)
  BY JobGone
<1>2. Serves(u, w, k)
  BY EasesServes
<1>3. Awaited(v, k) => Awaited(u, k)
  <2> HIDE DEF u
  <2> QED BY <1>1 DEF Awaited, SnapshotAhead, Ahead
<1>4. j.what \notin EngineResets /\ ResetAwaited(v, FALSE) => ResetAwaited(u, FALSE)
  <2> HIDE DEF u
  <2> QED BY <1>1 DEF ResetAwaited
<1> QED BY <1>1, <1>2, <1>3, <1>4 DEF Serves, Keeps

LEMMA ResetNames ==
    /\ \A what, stage, result : Reset(what, stage, result).what = what
    /\ NoReset.what \notin EngineResets
<1>1. \A what, stage, result : Reset(what, stage, result).what = what
  BY DEF Reset
<1> QED BY <1>1 DEF NoReset, EngineResets

LEMMA ClosesEases ==
    ASSUME NEW v, DOMAIN v = VFields, NEW what PROVE Eases(v, close_rom(v, what))
<1> DEFINE w == core_vr_resume_emu_impl(v, TRUE)
<1>1. Aside(v, w)
  BY PausingAside
<1>2. Eases(v, w) /\ DOMAIN w = VFields
  BY <1>1, AsideEases DEF Aside
<1>3. close_rom(v, what) \in {w, core_vcr_stop_all(w)}
  BY DEF close_rom
<1> HIDE DEF w
<1>4. Eases(w, core_vcr_stop_all(w))
  BY <1>2, StopEases
<1> QED BY <1>2, <1>3, <1>4, EasesTransitive

LEMMA ResetBeginsSteady ==
    ASSUME Inv, NEW i \in 1 .. Len(vcr.jobs), vr_reset_rom_impl(i) \/ vr_close_rom_impl(i)
    PROVE  Steady
<1> DEFINE j == vcr.jobs[i]
           u == without_job(vcr, i)
           a == [u EXCEPT !.vcr_reset_requested = TRUE]
           b == stop_frame_advance(u)
<1>1. /\ vcr' \in {u, a, close_rom(b, j.what), close_rom(u, "ui_close")}
      /\ reset = NoReset /\ First' = First
      /\ \/ j.what \notin EngineResets /\ reset' = reset
         \/ \E stage, result : reset' = Reset(j.what, stage, result)
      /\ j.what \in ResetJobs \cup {"ui_close"}
  BY DEF vr_reset_rom_impl, vr_close_rom_impl, First, working, EngineResets
<1>2. Engine(vcr) /\ Engine(u) /\ DOMAIN u = VFields /\ First \in Nat \ {0}
  BY JobAtHand DEF Inv, Calm, Engine, First
<1> HIDE DEF u
<1>3. Aside(u, a) /\ Aside(u, b) /\ DOMAIN b = VFields
  BY <1>2, PausingAside DEF Aside, VFields
<1>4. Eases(u, vcr')
  <2>1. Eases(u, u) /\ Eases(u, a) /\ Eases(u, b)
    BY <1>2, <1>3, AsideEases, AsideItself
  <2>2. Eases(b, close_rom(b, j.what)) /\ Eases(u, close_rom(u, "ui_close"))
    BY <1>2, <1>3, ClosesEases
  <2>3. Eases(u, close_rom(b, j.what))
    BY <2>1, <2>2, EasesTransitive
  <2> QED BY <1>1, <2>1, <2>2, <2>3
<1>5. j.what \notin {"seek_load", "record_existing", "playback_snapshot"}
  BY <1>1 DEF ResetJobs
<1>6. /\ Awaited(vcr, First) => Awaited(vcr', First)
      /\ Lone(vcr, First) => Lone(vcr', First)
      /\ j.what \notin EngineResets /\ ResetAwaited(vcr, FALSE) => ResetAwaited(vcr', FALSE)
      /\ vcr'.g_seek_savestate_loading => vcr.g_seek_savestate_loading
  BY <1>2, <1>4, <1>5, JobLeaves DEF u
<1>7. Resetting = FALSE
  BY <1>1, ResetNames DEF Resetting
<1>8. Resetting' = (j.what \in EngineResets)
  BY <1>1, ResetNames DEF Resetting
<1>9. ResetAwaited(vcr, Resetting) => ResetAwaited(vcr', Resetting')
  <2>1. CASE j.what \in EngineResets
    BY <1>8, <2>1 DEF ResetAwaited
  <2>2. CASE j.what \notin EngineResets
    <3>1. ~Resetting' /\ ~Resetting
      BY <1>7, <1>8, <2>2
    <3> QED BY <1>6, <2>2, <3>1 DEF ResetAwaited
  <2> QED BY <2>1, <2>2
<1> QED BY <1>1, <1>6, <1>9 DEF Steady

\* No load of a seek savestate is ahead.
LEMMA NoneLone ==
    ASSUME NEW v, NEW k, \A x : Ahead(v, k, x) => x.what # "seek_load" PROVE Lone(v, k)
<1>1. /\ \A i \in 1 .. Len(v.jobs) : v.jobs[i].what # "seek_load"
      /\ \A i \in k .. Len(v.g_tasks) : v.g_tasks[i].what # "seek_load"
  BY DEF Ahead, JobIn, TaskIn
<1> QED BY <1>1 DEF Lone

\* The worker puts its load into the queue.
LEMMA LoadQueued ==
    ASSUME NEW v, NEW u, NEW x, NEW t, Engine(v), Engine(u), NEW i \in 1 .. Len(v.jobs),
           Engine(without_job(v, i)), Aside(without_job(v, i), u), v.jobs[i] = x,
           x.what \notin EngineResets, t.what = x.what, t.path = x.path
    PROVE  Serves(v, st_push(u, t), 1)
<1> DEFINE a == without_job(v, i)
           w == st_push(u, t)
<1>1. /\ \A y : JobIn(v, y) => y = x \/ JobIn(a, y)
      /\ \A y : JobIn(a, y) => JobIn(v, y)
      /\ \A y : TaskIn(a, 1, y) <=> TaskIn(v, 1, y)
      /\ DOMAIN a = VFields /\ a.g_tasks = v.g_tasks /\ a.snapshots = v.snapshots
      /\ a.g_task = v.g_task /\ a.g_reset_pending = v.g_reset_pending
      /\ a.g_seek_savestate_loading = v.g_seek_savestate_loading
      /\ a.core_executing = v.core_executing
      /\ Lone(v, 1) => Lone(a, 1)
      /\ Lone(v, 1) /\ x.what = "seek_load" => \A y : Ahead(a, 1, y) => y.what # "seek_load"
  BY JobGone
<1>2. /\ w.jobs = u.jobs /\ w.g_reset_pending = u.g_reset_pending
      /\ w.g_seek_savestate_loading = u.g_seek_savestate_loading
      /\ w.g_task = u.g_task /\ w.core_executing = u.core_executing
      /\ w.snapshots = u.snapshots /\ w.g_tasks = <<t>> \o u.g_tasks
  BY DEF st_push, Engine, VFields
<1>3. /\ Len(u.g_tasks) \in Nat /\ Len(w.g_tasks) = Len(u.g_tasks) + 1
      /\ \A n \in 1 .. Len(w.g_tasks) : w.g_tasks[n] = IF n = 1 THEN t ELSE u.g_tasks[n - 1]
  <2>1. IsSeq(u.g_tasks)
    BY DEF Engine, TasksOK
  <2>2. /\ Len(u.g_tasks) \in Nat /\ Len(<<t>> \o u.g_tasks) = Len(u.g_tasks) + 1
        /\ \A n \in 1 .. Len(<<t>> \o u.g_tasks) :
              (<<t>> \o u.g_tasks)[n] = IF n = 1 THEN t ELSE u.g_tasks[n - 1]
    BY <2>1, PushFront
  <2> HIDE DEF w
  <2> QED BY <1>2, <2>2
<1>4. Serves(a, u, 1)
  BY AsideEases, EasesServes
<1> HIDE DEF a, w
<1>5. /\ u.jobs = a.jobs /\ u.g_tasks = a.g_tasks /\ u.snapshots = a.snapshots
      /\ u.g_task = a.g_task /\ u.g_reset_pending = a.g_reset_pending
      /\ u.g_seek_savestate_loading = a.g_seek_savestate_loading
      /\ u.core_executing = a.core_executing
  BY DEF Aside, a
<1>6. \A y : JobIn(w, y) <=> JobIn(a, y)
  BY <1>2, <1>5 DEF JobIn
<1>7. \A y : TaskIn(a, 1, y) <=> TaskIn(u, 1, y)
  BY <1>5 DEF TaskIn
<1>8. TaskIn(w, 1, t) /\ \A y : TaskIn(u, 1, y) => TaskIn(w, 1, y)
  <2>1. TaskIn(w, 1, t)
    BY <1>3 DEF TaskIn
  <2>2. \A y : TaskIn(u, 1, y) => TaskIn(w, 1, y)
    <3> SUFFICES ASSUME NEW y, NEW n \in 1 .. Len(u.g_tasks), u.g_tasks[n] = y
                 PROVE  \E m \in 1 .. Len(w.g_tasks) : w.g_tasks[m] = y
      BY DEF TaskIn
    <3>1. n + 1 \in 1 .. Len(w.g_tasks) /\ n + 1 # 1 /\ (n + 1) - 1 = n
      BY <1>3
    <3>2. w.g_tasks[n + 1] = y
      BY <1>3, <3>1
    <3> QED BY <3>1, <3>2
  <2> QED BY <2>1, <2>2
<1>9. \A r \in BOOLEAN : ResetAwaited(v, r) => ResetAwaited(w, r)
  BY <1>1, <1>2, <1>5, <1>6 DEF ResetAwaited
<1>10. Awaited(v, 1) => Awaited(w, 1)
  <2>1. \A y : Ahead(v, 1, y) => y = x \/ Ahead(w, 1, y)
    BY <1>1, <1>6, <1>7, <1>8 DEF Ahead
  <2>2. Ahead(w, 1, t)
    BY <1>8 DEF Ahead
  <2>3. \A y : TaskIn(v, 1, y) => TaskIn(w, 1, y)
    BY <1>1, <1>7, <1>8
  <2>4. /\ w.g_task = v.g_task /\ w.core_executing = v.core_executing
        /\ w.snapshots = v.snapshots
        /\ w.g_seek_savestate_loading = v.g_seek_savestate_loading
    BY <1>1, <1>2, <1>5
  <2>5. \A what : SnapshotAhead(v, 1, what) => SnapshotAhead(w, 1, what)
    BY <2>1, <2>2, <2>4 DEF SnapshotAhead
  <2> QED BY <2>1, <2>2, <2>3, <2>4, <2>5 DEF Awaited
<1>11. Lone(v, 1) => Lone(w, 1)
  <2>1. CASE x.what # "seek_load"
    <3>1. Serves(u, w, 1)
      BY <2>1, TaskServes DEF w
    <3> QED BY <1>1, <1>4, <3>1 DEF Serves, Keeps
  <2>2. CASE x.what = "seek_load"
    <3> SUFFICES ASSUME Lone(v, 1) PROVE Lone(w, 1)
      OBVIOUS
    <3>1. \A y : Ahead(a, 1, y) => y.what # "seek_load"
      BY <1>1, <2>2
    <3>2. \A n \in 1 .. Len(w.jobs) : w.jobs[n].what # "seek_load"
      BY <1>6, <3>1 DEF Ahead, JobIn
    <3>3. \A n \in 1 .. Len(u.g_tasks) : u.g_tasks[n].what # "seek_load"
      BY <1>7, <3>1 DEF Ahead, TaskIn
    <3>4. \A n \in 1 .. Len(w.g_tasks) : w.g_tasks[n].what = "seek_load" => n = 1
      <4> SUFFICES ASSUME NEW n \in 1 .. Len(w.g_tasks), n # 1
                   PROVE  w.g_tasks[n].what # "seek_load"
        OBVIOUS
      <4>1. n - 1 \in 1 .. Len(u.g_tasks) /\ w.g_tasks[n] = u.g_tasks[n - 1]
        BY <1>3
      <4> QED BY <3>3, <4>1
    <3>5. w.g_seek_savestate_loading
      <4>1. Ahead(v, 1, x)
        BY DEF Ahead, JobIn
      <4> QED BY <1>1, <1>2, <1>5, <2>2, <4>1 DEF Lone
    <3> QED BY <3>2, <3>4, <3>5 DEF Lone
  <2> QED BY <2>1, <2>2
<1>12. w.g_seek_savestate_loading => v.g_seek_savestate_loading
  BY <1>1, <1>2, <1>5
<1>13. Serves(v, w, 1)
  BY <1>9, <1>10, <1>11, <1>12 DEF Serves, Keeps
<1> QED BY <1>13 DEF w

\* core_vcr_stop_all ends a playback that waits for its snapshot.
LEMMA StopsStart ==
    ASSUME NEW v, DOMAIN v = VFields
    PROVE  core_vcr_stop_all(v).g_task # "task_start_playback_from_snapshot"
<1> DEFINE w == vcr_clear_seek_savestates(v)
<1>1. w.g_task = v.g_task /\ DOMAIN w = VFields
  BY DEF vcr_clear_seek_savestates, VFields
<1>2. CASE is_task_playback(v.g_task)
  <2>1. /\ v.g_task \notin {"task_start_recording_from_reset",
                            "task_start_recording_from_snapshot", "task_recording"}
        /\ is_task_playback(w.g_task)
    BY <1>1, <1>2 DEF is_task_playback
  <2>2. core_vcr_stop_all(v) = cht_layer_pop([w EXCEPT !.g_task = "task_idle"])
    BY <1>2, <2>1 DEF core_vcr_stop_all, vcr_stop_playback
  <2> QED BY <1>1, <2>2 DEF cht_layer_pop, VFields
<1>3. CASE ~is_task_playback(v.g_task)
  <2>1. v.g_task # "task_start_playback_from_snapshot"
    BY <1>3 DEF is_task_playback
  <2>2. Eases(v, core_vcr_stop_all(v))
    BY StopEases
  <2> QED BY <2>1, <2>2 DEF Eases, SnapshotStarts
<1> QED BY <1>2, <1>3

LEMMA TouchedAside ==
    ASSUME NEW v, DOMAIN v = VFields, NEW key PROVE Aside(v, touch_seek_savestate(v, key))
  BY DEF touch_seek_savestate, VFields, Aside

\* The core is off: the worker's load is refused.
LEMMA LoadRefused ==
    ASSUME NEW v, NEW u, NEW x, NEW t, Engine(v), Engine(u), NEW i \in 1 .. Len(v.jobs),
           Engine(without_job(v, i)), Aside(without_job(v, i), u), v.jobs[i] = x,
           x.what \in LoadTasks, t.what = x.what, ~v.core_executing
    PROVE  Serves(v, task_failed(u, t), 1)
<1> DEFINE a == without_job(v, i)
           w == task_failed(u, t)
           s == [u EXCEPT !.g_seek_savestate_loading = FALSE]
<1>1. /\ \A y : JobIn(v, y) => y = x \/ JobIn(a, y)
      /\ \A y : JobIn(a, y) => JobIn(v, y)
      /\ \A y : TaskIn(a, 1, y) <=> TaskIn(v, 1, y)
      /\ DOMAIN a = VFields /\ a.g_tasks = v.g_tasks /\ a.snapshots = v.snapshots
      /\ a.g_task = v.g_task /\ a.g_reset_pending = v.g_reset_pending
      /\ a.g_seek_savestate_loading = v.g_seek_savestate_loading
      /\ a.core_executing = v.core_executing
      /\ Lone(v, 1) => Lone(a, 1)
      /\ Lone(v, 1) /\ x.what = "seek_load" => \A y : Ahead(a, 1, y) => y.what # "seek_load"
  BY JobGone
<1> HIDE DEF a
<1>2. /\ u.jobs = a.jobs /\ u.g_tasks = a.g_tasks /\ u.snapshots = a.snapshots
      /\ u.g_task = a.g_task /\ u.g_reset_pending = a.g_reset_pending
      /\ u.g_seek_savestate_loading = a.g_seek_savestate_loading
      /\ u.core_executing = a.core_executing /\ DOMAIN u = VFields
  BY DEF Aside, a
<1>3. DOMAIN s = VFields
  BY <1>2
<1>4. /\ w.jobs = a.jobs /\ w.g_tasks = a.g_tasks
      /\ w.g_reset_pending => a.g_reset_pending
      /\ x.what # "seek_load" => w.g_seek_savestate_loading = a.g_seek_savestate_loading
      /\ x.what = "seek_load" => w.g_seek_savestate_loading = FALSE
      /\ w.g_task \in SnapshotStarts =>
            /\ w.g_task = a.g_task
            /\ \A p \in Movies : a.snapshots[p] # NoState => w.snapshots[p] # NoState
      /\ x.what \in {"record_existing", "playback_snapshot"} =>
            w.g_task # "task_start_playback_from_snapshot"
  <2>1. CASE x.what = "seek_load"
    <3>1. w = core_vcr_stop_seek(s)
      BY <2>1 DEF task_failed
    <3>2. Aside(s, core_vcr_stop_seek(s))
      BY <1>3, PausingAside
    <3>3. /\ s.jobs = u.jobs /\ s.g_tasks = u.g_tasks /\ s.snapshots = u.snapshots
          /\ s.g_task = u.g_task /\ s.g_reset_pending = u.g_reset_pending
          /\ s.g_seek_savestate_loading = FALSE
      BY <1>2 DEF VFields
    <3> HIDE DEF s, w
    <3> QED BY <1>2, <2>1, <3>1, <3>2, <3>3 DEF Aside
  <2>2. CASE x.what \in {"record_existing", "playback_snapshot"}
    <3>1. w = core_vcr_stop_all(u)
      BY <2>2 DEF task_failed
    <3>2. Eases(u, core_vcr_stop_all(u))
      BY <1>2, StopEases
    <3>3. core_vcr_stop_all(u).g_task # "task_start_playback_from_snapshot"
      BY <1>2, StopsStart
    <3> HIDE DEF w
    <3> QED BY <1>2, <2>2, <3>1, <3>2, <3>3 DEF Eases
  <2>3. CASE x.what = "slot_load"
    <3>1. w = u
      BY <2>3 DEF task_failed
    <3> QED BY <1>2, <2>3, <3>1
  <2> QED BY <2>1, <2>2, <2>3 DEF LoadTasks
<1> HIDE DEF w
<1>5. \A y : (JobIn(w, y) <=> JobIn(a, y)) /\ (TaskIn(w, 1, y) <=> TaskIn(a, 1, y))
  BY <1>4 DEF JobIn, TaskIn
<1>6. \A r \in BOOLEAN : ResetAwaited(v, r) => ResetAwaited(w, r)
  BY <1>1, <1>4, <1>5 DEF ResetAwaited, LoadTasks, EngineResets
<1>7. Awaited(v, 1) => Awaited(w, 1)
  <2> SUFFICES ASSUME Awaited(v, 1) PROVE Awaited(w, 1)
    OBVIOUS
  <2>1. w.g_task # "task_start_recording_from_existing_snapshot"
    BY <1>1, <1>4 DEF Awaited, SnapshotStarts
  <2>2. \A y : Ahead(v, 1, y) => y = x \/ Ahead(w, 1, y)
    BY <1>1, <1>5 DEF Ahead
  <2>3. w.g_seek_savestate_loading => \E y : Ahead(w, 1, y) /\ y.what = "seek_load"
    BY <1>1, <1>4, <2>2 DEF Awaited
  <2>4. w.g_task = "task_start_recording_from_snapshot" =>
           \E y : TaskIn(w, 1, y) /\ y.what = "record_snapshot"
    BY <1>1, <1>4, <1>5 DEF Awaited, SnapshotStarts
  <2>5. w.g_task = "task_start_playback_from_snapshot" => SnapshotAhead(w, 1, "playback_snapshot")
    <3> SUFFICES ASSUME w.g_task = "task_start_playback_from_snapshot"
                 PROVE  SnapshotAhead(w, 1, "playback_snapshot")
      OBVIOUS
    <3>1. PICK y : Ahead(v, 1, y) /\ y.what = "playback_snapshot" /\ v.snapshots[y.path] # NoState
      BY <1>1, <1>4 DEF Awaited, SnapshotAhead, SnapshotStarts
    <3>2. y.path \in Movies
      <4>1. \A k \in Nat \ {0} : Ahead(v, k, y) => y.path \in Movies
        BY <3>1, RequestNames
      <4>2. 1 \in Nat \ {0}
        OBVIOUS
      <4> QED BY <3>1, <4>1, <4>2
    <3>3. x.what # "playback_snapshot"
      BY <1>4
    <3>4. Ahead(w, 1, y)
      BY <2>2, <3>1, <3>3
    <3>5. w.snapshots[y.path] # NoState
      BY <1>1, <1>4, <3>1, <3>2 DEF SnapshotStarts
    <3> QED BY <3>1, <3>4, <3>5 DEF SnapshotAhead
  <2> QED BY <2>1, <2>3, <2>4, <2>5 DEF Awaited
<1>8. Lone(v, 1) => Lone(w, 1)
  <2> SUFFICES ASSUME Lone(v, 1) PROVE Lone(w, 1)
    OBVIOUS
  <2>1. \A y : Ahead(w, 1, y) <=> Ahead(a, 1, y)
    BY <1>5 DEF Ahead
  <2>2. CASE x.what = "seek_load"
    BY <1>1, <2>1, <2>2, NoneLone
  <2>3. CASE x.what # "seek_load"
    BY <1>1, <1>4, <2>1, <2>3 DEF Lone
  <2> QED BY <2>2, <2>3
<1>9. w.g_seek_savestate_loading => v.g_seek_savestate_loading
  BY <1>1, <1>4
<1>10. Serves(v, w, 1)
  BY <1>6, <1>7, <1>8, <1>9 DEF Serves, Keeps
<1> QED BY <1>10 DEF w

LEMMA JobLoadSteady ==
    ASSUME Inv, NEW i \in 1 .. Len(vcr.jobs), job_load(i) PROVE Steady
<1> DEFINE j == vcr.jobs[i]
           a == without_job(vcr, i)
           u == IF j.what = "seek_load" THEN touch_seek_savestate(a, j.frame) ELSE a
           t == job_task(vcr, j)
<1>1. /\ j.what \in LoadTasks /\ First = 1 /\ First' = First /\ UNCHANGED reset
      /\ vcr' = IF vcr.core_executing THEN st_push(u, t) ELSE task_failed(u, t)
  BY DEF job_load, First, working
<1>2. Engine(vcr) /\ Engine(a) /\ DOMAIN a = VFields
  BY JobAtHand DEF Inv, Calm, Engine
<1>3. Aside(a, u) /\ Engine(u)
  <2>1. Calm(a, touch_seek_savestate(a, j.frame)) /\ Aside(a, touch_seek_savestate(a, j.frame))
    BY <1>2, Touched, TouchedAside
  <2> QED BY <1>2, <2>1, AsideItself DEF Calm
<1>4. t.what = j.what /\ t.path = j.path
  BY RequestFields DEF job_task
<1>5. j.what \notin EngineResets
  BY <1>1 DEF LoadTasks, EngineResets
<1> HIDE DEF u, t
<1>6. CASE vcr.core_executing
  <2>1. Serves(vcr, st_push(u, t), 1)
    BY <1>2, <1>3, <1>4, <1>5, LoadQueued
  <2> QED BY <1>1, <1>6, <2>1, ServesBegins, BeginsStep
<1>7. CASE ~vcr.core_executing
  <2>1. Serves(vcr, task_failed(u, t), 1)
    BY <1>1, <1>2, <1>3, <1>4, <1>7, LoadRefused
  <2> QED BY <1>1, <1>7, <2>1, ServesBegins, BeginsStep
<1> QED BY <1>6, <1>7

LEMMA StartRomSteady == ASSUME Inv, vr_start_rom_impl PROVE Steady
<1> DEFINE e == [vcr EXCEPT !.core_executing = TRUE, !.emu_paused = FALSE]
<1>1. /\ vcr' \in {vcr, e} /\ First = 1 /\ First' = 1
      /\ \E stage, result : reset' = Reset(reset.what, stage, result)
  BY DEF vr_start_rom_impl, First, working
<1>2. Resetting' = Resetting
  BY <1>1, ResetNames DEF Resetting
<1>3. /\ vcr'.jobs = vcr.jobs /\ vcr'.g_tasks = vcr.g_tasks /\ vcr'.snapshots = vcr.snapshots
      /\ vcr'.g_task = vcr.g_task /\ vcr'.g_reset_pending = vcr.g_reset_pending
      /\ vcr'.g_seek_savestate_loading = vcr.g_seek_savestate_loading
      /\ vcr.core_executing => vcr'.core_executing
  BY <1>1 DEF Inv, Engine, VFields
<1>4. \A x : /\ JobIn(vcr', x) <=> JobIn(vcr, x)
             /\ TaskIn(vcr', 1, x) <=> TaskIn(vcr, 1, x)
  BY <1>3 DEF JobIn, TaskIn
<1>5. ResetAwaited(vcr, Resetting) => ResetAwaited(vcr', Resetting')
  BY <1>2, <1>3, <1>4 DEF ResetAwaited
<1>6. Awaited(vcr, 1) => Awaited(vcr', 1)
  BY <1>3, <1>4 DEF Awaited, SnapshotAhead, Ahead
<1>7. Lone(vcr, 1) => Lone(vcr', 1)
  BY <1>3, <1>4 DEF Lone, Ahead
<1> QED BY <1>1, <1>3, <1>5, <1>6, <1>7 DEF Steady

LEMMA RomClosedSteady == ASSUME Inv, rom_closed PROVE Steady
<1>1. First' = First /\ vcr' = vcr /\ reset.what = "ui_close" /\ reset' = NoReset
  BY DEF rom_closed, First, working
<1>2. ~Resetting /\ ~Resetting'
  BY <1>1, ResetNames DEF Resetting, EngineResets
<1> QED BY <1>1, <1>2 DEF Steady, ResetAwaited

LEMMA ResetCallbackSteady == ASSUME Inv, reset_callback PROVE Steady
<1> DEFINE n == no_reset_pending(vcr)
<1>1. /\ vcr' \in {reset_done(reset.what), reset_failed(reset.what)} /\ First' = First
      /\ reset' = NoReset
  BY DEF reset_callback, First, working
<1>2. DOMAIN vcr = VFields /\ Engine(vcr) /\ First \in Nat \ {0}
  BY DEF Inv, Engine, First
<1>3. DOMAIN n = VFields /\ Eases(vcr, n) /\ ~n.g_reset_pending
  BY <1>2 DEF no_reset_pending, VFields, Eases
<1>4. ~Resetting'
  BY <1>1, ResetNames DEF Resetting
<1>5. CASE reset.what \in EngineResets
  <2>1. vcr' \in {n, started(n, "task_recording"), started(n, "task_playback"),
                  core_vcr_stop_all(n)}
    BY <1>1, <1>5 DEF reset_done, reset_failed, EngineResets
  <2> HIDE DEF n
  <2>2. /\ Eases(n, started(n, "task_recording")) /\ Eases(n, started(n, "task_playback"))
        /\ Eases(n, core_vcr_stop_all(n)) /\ Eases(n, n)
    BY <1>3, StartedEases, StopEases, AsideItself, AsideEases DEF SnapshotStarts
  <2>3. Eases(n, vcr')
    BY <2>1, <2>2
  <2>4. ~vcr'.g_reset_pending
    BY <1>3, <2>3 DEF Eases
  <2>5. Eases(vcr, vcr')
    BY <1>3, <2>3, EasesTransitive
  <2>6. Serves(vcr, vcr', First)
    BY <1>2, <2>5, EasesServes
  <2> QED BY <1>1, <2>4, <2>6 DEF Steady, ResetAwaited, Serves, Keeps
<1>6. CASE reset.what \notin EngineResets
  <2>1. vcr' = vcr
    BY <1>1, <1>6 DEF reset_done, reset_failed, EngineResets
  <2>2. ~Resetting
    BY <1>6 DEF Resetting
  <2> QED BY <1>1, <1>4, <2>1, <2>2 DEF Steady, ResetAwaited
<1> QED BY <1>5, <1>6

LEMMA WorkersSteady == ASSUME Inv, Workers PROVE Steady
  BY JobLoadSteady, ResetBeginsSteady, StartRomSteady, RomClosedSteady, ResetCallbackSteady
     DEF Workers

\* A command of the user.
LEMMA CommandSteady ==
    ASSUME Inv, NEW op, NEW v, user(op, v), Begins(vcr, v, First) PROVE Steady
<1>1. vcr' = v /\ UNCHANGED reset /\ First' = First
  BY DEF user, First, working
<1> QED BY <1>1, BeginsStep

LEMMA UserSteady == ASSUME Inv, User PROVE Steady
<1>e. Engine(vcr) /\ DOMAIN vcr = VFields /\ recordings \in Nat /\ First \in Nat \ {0}
  BY DEF Inv, Engine, First
<1>a. \A v : Aside(vcr, v) => Begins(vcr, v, First)
  BY <1>e, AsideEases, EasesServes, ServesBegins
<1>1. ASSUME NEW path \in Movies, NEW flags \in StartFlags, user_start_record(path, flags)
      PROVE  Steady
  <2>1. /\ user(flags, core_vcr_start_record(vcr, path, flags, recordings + 2))
        /\ vcr.core_executing
        /\ flags = "MOVIE_START_FROM_SNAPSHOT" => First = 1
    BY <1>1 DEF user_start_record, First
  <2>2. recordings + 2 \in Nat
    BY <1>e
  <2>3. Serves(vcr, core_vcr_start_record(vcr, path, flags, recordings + 2), First)
    BY <1>e, <2>1, <2>2, RecordServes
  <2> QED BY <2>1, <2>3, ServesBegins, CommandSteady
<1>d. ASSUME NEW path \in Movies, user_declines_record(path) PROVE Steady
  <2> DEFINE x == core_vcr_stop_all(vcr)
             w == [x EXCEPT !.g_movie_path = path]
  <2>1. Eases(vcr, x) /\ DOMAIN x = VFields
    BY <1>e, StopEases, StopsAll DEF Stopped, Engine
  <2> HIDE DEF x
  <2>2. Eases(x, w)
    BY <2>1 DEF Eases, VFields
  <2>3. user("decline", w)
    BY <1>d DEF user_declines_record, core_vcr_start_record_declined, x
  <2> HIDE DEF w
  <2> QED BY <1>e, <2>1, <2>2, <2>3, EasesTransitive, EasesServes, ServesBegins, CommandSteady
<1>2. ASSUME NEW path \in Movies, user_start_playback(path) PROVE Steady
  BY <1>e, <1>2, PlaybackServes, ServesBegins, CommandSteady DEF user_start_playback
<1>3. CASE user_stop_all
  <2>1. Begins(vcr, core_vcr_stop_all(vcr), First)
    BY <1>e, StopEases, EasesServes, ServesBegins
  <2> QED BY <1>3, <2>1, CommandSteady DEF user_stop_all
<1>4. ASSUME NEW frame \in 0 .. scene.max_length, NEW pause \in BOOLEAN,
             user_begin_seek(frame, pause)
      PROVE  Steady
  <2>1. frame \in Nat
    OBVIOUS
  <2>2. Begins(vcr, vcr_begin_seek_impl(vcr, frame, pause, TRUE, FALSE), First)
    <3>1. \A resume \in BOOLEAN : \A warp :
             Begins(vcr, vcr_begin_seek_impl(vcr, frame, pause, resume, warp), First)
      BY <1>e, <2>1, SeekBegins
    <3> QED BY <3>1
  <2> QED BY <1>4, <2>2, CommandSteady DEF user_begin_seek, core_vcr_begin_seek
<1>5. CASE user_stop_seek
  <2>1. Begins(vcr, core_vcr_stop_seek(vcr), First)
    BY <1>e, <1>a, PausingAside
  <2> QED BY <1>5, <2>1, CommandSteady DEF user_stop_seek
<1>6. ASSUME NEW inputs \in edits(vcr.g_movie_inputs), user_begin_warp_modify(inputs) PROVE Steady
  <2>1. inputs \in Seq(Input)
    BY <1>e, EditedInputs DEF Engine, MovieOK
  <2>2. Begins(vcr, core_vcr_begin_warp_modify(vcr, inputs), First)
    BY <1>e, <2>1, WarpBegins
  <2> QED BY <1>6, <2>2, CommandSteady DEF user_begin_warp_modify
<1>7. ASSUME NEW what \in {"slot_save", "slot_load"}, user_savestate(what) PROVE Steady
  <2> DEFINE t == StTask(what, 0, NoMovie, NoState)
  <2>1. t.what # "seek_load"
    BY RequestFields
  <2>2. user(what, st_push(vcr, t)) /\ First = 1
    BY <1>7 DEF user_savestate, First
  <2> HIDE DEF t
  <2>3. Serves(vcr, st_push(vcr, t), First)
    BY <1>e, <2>1, <2>2, TaskServes
  <2> QED BY <2>2, <2>3, ServesBegins, CommandSteady
<1>8. CASE user_pause
  <2>1. /\ Begins(vcr, core_vr_pause_emu(vcr), First)
        /\ Begins(vcr, core_vr_resume_emu(vcr), First)
        /\ Begins(vcr, core_vr_frame_advance(vcr, 1), First)
    BY <1>e, <1>a, PausingAside
  <2> QED BY <1>8, <2>1, CommandSteady DEF user_pause
<1>9. CASE user_toggle_readonly
  <2> DEFINE w == [vcr EXCEPT !.vcr_readonly = ~@]
  <2>1. user("readonly", w)
    BY <1>9 DEF user_toggle_readonly
  <2>2. Aside(vcr, w)
    BY <1>e DEF VFields, Aside
  <2> HIDE DEF w
  <2> QED BY <1>a, <2>1, <2>2, CommandSteady
<1>10. CASE user_reset_rom
  <2>1. ASSUME NEW what \in {"ui_reset", "ui_close"}
        PROVE  Begins(vcr, submit_task(vcr, Job(what, 0, NoMovie)), First)
    <3>1. Job(what, 0, NoMovie).what # "seek_load"
      BY RequestFields
    <3> QED BY <1>e, <3>1, JobServes, ServesBegins
  <2> QED BY <1>10, <2>1, CommandSteady DEF user_reset_rom
<1> QED BY <1>1, <1>2, <1>d, <1>3, <1>4, <1>5, <1>6, <1>7, <1>8, <1>9, <1>10 DEF User

LEMMA NextSteady == ASSUME Inv, Next PROVE Steady /\ Inv' /\ scene' = scene
<1>1. Inv'
  BY StepGood DEF Good
<1>2. Steady
  BY <1>1, EmuThreadSteady, WorkersSteady, UserSteady DEF Next
<1>3. scene' = scene
  BY DEF Next, EmuThread, Workers, User, update_pif_read, pif_resumed, st_do_work_begin,
     pif_no_work, st_do_work_task, st_do_work_end, internal_ReadController, emu_thread_ends,
     job_load, vr_reset_rom_impl, vr_close_rom_impl, vr_start_rom_impl, rom_closed,
     reset_callback, user, user_start_record, user_declines_record, user_start_playback,
     user_stop_all,
     user_begin_seek, user_stop_seek, user_begin_warp_modify, user_savestate, user_pause,
     user_toggle_readonly, user_reset_rom
<1> QED BY <1>1, <1>2, <1>3

\* What no step disturbs: a pending reset and a load of a seek savestate are on their way.
Watched == Inv /\ ResetAwaited(vcr, Resetting) /\ Lone(vcr, First)

LEMMA InitWatched ==
    Init => /\ Watched /\ Awaited(vcr, First) /\ ~vcr.g_seek_savestate_loading
<1> SUFFICES ASSUME Init
             PROVE  Watched /\ Awaited(vcr, First) /\ ~vcr.g_seek_savestate_loading
  OBVIOUS
<1>1. /\ vcr.jobs = << >> /\ vcr.g_tasks = << >> /\ vcr.g_task = "task_idle"
      /\ vcr.g_reset_pending = FALSE /\ vcr.g_seek_savestate_loading = FALSE
  BY DEF Init, InitialVcr
<1>2. First = 1
  BY DEF Init, First, working
<1>3. \A x : ~Ahead(vcr, First, x)
  <2>1. Len(vcr.jobs) = 0 /\ Len(vcr.g_tasks) = 0
    BY <1>1
  <2> QED BY <1>2, <2>1 DEF Ahead, JobIn, TaskIn
<1>4. Lone(vcr, First)
  BY <1>3, NoneLone
<1>5. Awaited(vcr, First)
  BY <1>1 DEF Awaited
<1>6. ResetAwaited(vcr, Resetting)
  BY <1>1 DEF ResetAwaited
<1> QED BY <1>1, <1>4, <1>5, <1>6, InitInv DEF Watched

LEMMA WatchedStep == ASSUME Watched, [Next]_vars PROVE Watched'
<1>1. CASE Next
  BY <1>1, NextSteady DEF Watched, Steady
<1>2. CASE UNCHANGED vars
  BY <1>2, StutterInv DEF Watched, vars, First, working, Resetting
<1> QED BY <1>1, <1>2

\* In every scenario a pending reset is a worker's, and at most one load of a seek
\* savestate is on its way, only while the engine waits for it.
THEOREM RequestsAreWatched == Spec => []Watched
<1>1. Init => Watched
  BY InitWatched
<1>2. Watched /\ [Next]_vars => Watched'
  BY WatchedStep
<1> QED BY <1>1, <1>2, PTL DEF Spec

LEMMA AwaitedStep ==
    ASSUME Watched, Undisturbed => Awaited(vcr, First), [Next /\ ~StopDropsRequest]_vars
    PROVE  (Undisturbed => Awaited(vcr, First))'
<1>1. CASE Next /\ ~StopDropsRequest
  BY <1>1, NextSteady DEF Watched, Steady, Undisturbed
<1>2. CASE UNCHANGED vars
  BY <1>2 DEF vars, First, working, Undisturbed
<1> QED BY <1>1, <1>2

LEMMA NothingInVain ==
    ASSUME Watched, Undisturbed => Awaited(vcr, First) PROVE NothingWaitsInVain
<1> SUFFICES ASSUME Undisturbed
             PROVE  /\ vcr.g_reset_pending => reset # NoReset \/ HasJob(ResetJobs)
                    /\ vcr.g_seek_savestate_loading =>
                          HasJob({"seek_load"}) \/ HasStTask({"seek_load"})
                    /\ vcr.g_task = "task_start_recording_from_snapshot" =>
                          HasStTask({"record_snapshot"})
                    /\ vcr.g_task = "task_start_recording_from_existing_snapshot" =>
                          HasJob({"record_existing"}) \/ HasStTask({"record_existing"})
                    /\ vcr.g_task = "task_start_playback_from_snapshot" =>
                          HasJob({"playback_snapshot"}) \/ HasStTask({"playback_snapshot"})
  BY DEF NothingWaitsInVain
<1>1. First \in Nat \ {0}
  BY DEF Watched, Inv, First
<1>2. \A x : TaskIn(vcr, First, x) => HasStTask({x.what})
  <2> SUFFICES ASSUME NEW x, NEW i \in First .. Len(vcr.g_tasks), vcr.g_tasks[i] = x
               PROVE  HasStTask({x.what})
    BY DEF TaskIn
  <2>1. i \in 1 .. Len(vcr.g_tasks)
    BY <1>1
  <2> QED BY <2>1 DEF HasStTask
<1>3. \A x : JobIn(vcr, x) => HasJob({x.what})
  BY DEF JobIn, HasJob
<1>4. vcr.g_reset_pending => reset # NoReset \/ HasJob(ResetJobs)
  BY ResetNames DEF Watched, ResetAwaited, Resetting, JobIn, HasJob, ResetJobs, EngineResets
<1> QED BY <1>2, <1>3, <1>4 DEF Awaited, SnapshotAhead, Ahead

\* What vcr_on_controller_poll waits for is on its way in every scenario in which nothing
\* goes wrong outside the engine, unless the core stops with the engine's savestate
\* request still queued.
THEOREM RequestsAreOnTheirWay == Spec => ([][~StopDropsRequest]_vars => []NothingWaitsInVain)
<1> DEFINE Waits == Undisturbed => Awaited(vcr, First)
<1>1. Init => Waits
  BY InitWatched
<1>2. Watched /\ Waits /\ [Next]_vars /\ [~StopDropsRequest]_vars => Waits'
  BY AwaitedStep
<1>3. Watched /\ Waits => NothingWaitsInVain
  BY NothingInVain
<1> HIDE DEF Waits
<1> QED BY <1>1, <1>2, <1>3, RequestsAreWatched, PTL DEF Spec

\* While a seek savestate is being loaded the movie or the seek is stopped, another one is
\* started, or the movie changes between read-only and read-write.
SeekAbandoned ==
    /\ vcr.g_seek_savestate_loading /\ vcr'.g_seek_savestate_loading
    /\ ~SameSeek(vcr, vcr')

HeldInv == vcr.g_seek_savestate_loading => Held(vcr)

LEMMA HeldStep ==
    ASSUME Watched, HeldInv, [Next]_vars, [~SeekAbandoned]_vars PROVE HeldInv'
<1>1. CASE Next /\ ~SeekAbandoned
  BY <1>1, NextSteady
     DEF Watched, Steady, HeldInv, Held, SeekAbandoned, SameSeek, core_vcr_is_seeking
<1>2. CASE UNCHANGED vars
  BY <1>2 DEF vars, HeldInv, Held, core_vcr_is_seeking
<1> QED BY <1>1, <1>2

\* Unfreezing under a seek leaves the inputs alone.
LEMMA HeldUnfreezes ==
    ASSUME NEW v, Engine(v), Held(v), NEW freeze
    PROVE  core_vcr_unfreeze(v, freeze).g_movie_inputs = v.g_movie_inputs
<1>0. DOMAIN v = VFields
  BY DEF Engine
<1>1. CASE unfreeze_result(v, freeze) # "Res_Ok"
  BY <1>1 DEF core_vcr_unfreeze
<1>2. CASE /\ unfreeze_result(v, freeze) = "Res_Ok"
           /\ v.g_task = "task_recording" /\ core_vcr_is_seeking(v)
  <2>1. core_vcr_unfreeze(v, freeze) = [v EXCEPT !.m_current_sample = freeze.current_sample]
    BY <1>2 DEF core_vcr_unfreeze
  <2> QED BY <1>0, <2>1 DEF VFields
<1>3. CASE /\ unfreeze_result(v, freeze) = "Res_Ok"
           /\ v.g_task = "task_playback" /\ v.vcr_readonly
  <2>1. core_vcr_unfreeze(v, freeze) = unfreeze_readonly(v, freeze)
    BY <1>3 DEF core_vcr_unfreeze
  <2>2. write_movie(v) = v
    BY <1>3 DEF write_movie, vcr_is_task_recording
  <2> QED BY <1>0, <2>1, <2>2 DEF unfreeze_readonly, VFields
<1> QED BY <1>1, <1>2, <1>3 DEF Held

LEMMA SeekLoadKeeps ==
    ASSUME Watched, HeldInv, Next, working, next' = next + 1,
           vcr.g_tasks[next].what = "seek_load"
    PROVE  vcr'.g_movie_inputs = vcr.g_movie_inputs
<1> DEFINE t == vcr.g_tasks[next]
           st == task_buffer(t)
           u == unfrozen(st)
<1>0. Engine(vcr) /\ DOMAIN vcr = VFields /\ next \in Nat \ {0}
  BY DEF Watched, Inv, Engine
<1>1. st_do_work_task
  <2>1. next' # next /\ pif \notin {"wait", "ready"}
    BY <1>0 DEF working
  <2> QED BY <2>1 DEF Next, EmuThread, Workers, User, update_pif_read, pif_resumed,
     st_do_work_begin, pif_no_work, st_do_work_end, internal_ReadController, emu_thread_ends,
     job_load, vr_reset_rom_impl, vr_close_rom_impl, vr_start_rom_impl, rom_closed,
     reset_callback, user, user_start_record, user_declines_record, user_start_playback,
     user_stop_all,
     user_begin_seek, user_stop_seek, user_begin_warp_modify, user_savestate, user_pause,
     user_toggle_readonly, user_reset_rom
<1>2. savestates_load_immediate_impl(t) /\ next \in First .. Len(vcr.g_tasks)
  <2>1. Len(vcr.g_tasks) \in Nat
    BY <1>0, PushFront DEF Engine, TasksOK
  <2> QED BY <1>0, <1>1, <2>1
          DEF st_do_work_task, First, savestates_save_immediate_impl, SaveTasks
<1>3. Held(vcr)
  <2>1. Ahead(vcr, First, t)
    BY <1>2 DEF Ahead, TaskIn
  <2>2. \A x : Ahead(vcr, First, x) /\ x.what = "seek_load" => vcr.g_seek_savestate_loading
    BY DEF Watched, Lone
  <2> QED BY <2>1, <2>2 DEF HeldInv
<1>4. vcr' \in {task_failed(vcr, t), task_failed(u, t), task_done(u, t, st)}
  BY <1>2 DEF savestates_load_immediate_impl
<1>5. u.g_movie_inputs = vcr.g_movie_inputs /\ DOMAIN u = VFields
  <2>1. \A freeze : DOMAIN core_vcr_unfreeze(vcr, freeze) = VFields
    BY <1>0 DEF core_vcr_unfreeze, unfreeze_readwrite, unfreeze_readonly, overwrite_inputs,
                write_movie, write_movie_impl
  <2>2. core_vcr_unfreeze(vcr, st.freeze).g_movie_inputs = vcr.g_movie_inputs
    BY <1>0, <1>3, HeldUnfreezes
  <2> QED BY <1>0, <2>1, <2>2 DEF unfrozen
<1> HIDE DEF t, u, st
<1>6. ASSUME NEW v, v \in {vcr, u}
      PROVE  /\ task_failed(v, t).g_movie_inputs = vcr.g_movie_inputs
             /\ task_done(v, t, st).g_movie_inputs = vcr.g_movie_inputs
  <2> DEFINE s == [v EXCEPT !.g_seek_savestate_loading = FALSE]
  <2>1. DOMAIN s = VFields /\ s.g_movie_inputs = vcr.g_movie_inputs
    BY <1>0, <1>5, <1>6 DEF VFields
  <2>2. core_vcr_stop_seek(s).g_movie_inputs = s.g_movie_inputs
    BY <2>1, PausingQuiet DEF Quiet, SameMovie
  <2>3. task_failed(v, t) = core_vcr_stop_seek(s) /\ task_done(v, t, st) = s
    BY DEF task_failed, task_done, t
  <2> QED BY <2>1, <2>2, <2>3
<1> QED BY <1>4, <1>6

\* Going back with a seek savestate loses no input, in every scenario, unless the seek or
\* its movie is replaced or stopped, or read-only toggled, before the savestate is loaded.
THEOREM SeekLoadsKeepInputs == Spec => ([][~SeekAbandoned]_vars => SeekLoadKeepsInputs)
<1>1. Init => HeldInv
  BY InitWatched DEF HeldInv
<1>2. Watched /\ HeldInv /\ [Next]_vars /\ [~SeekAbandoned]_vars => HeldInv'
  BY HeldStep
<1>3. Watched /\ HeldInv /\ [Next]_vars
        => [(/\ working /\ next' = next + 1 /\ vcr.g_tasks[next].what = "seek_load"
             /\ ~Abandoned)
               => vcr'.g_movie_inputs = vcr.g_movie_inputs]_vars
  BY SeekLoadKeeps
<1> QED BY <1>1, <1>2, <1>3, RequestsAreWatched, PTL DEF Spec, SeekLoadKeepsInputs

-----------------------------------------------------------------------------
(* The cheat layer of a playback                                           *)

Layered(v) == v.cheat_layers = IF is_task_playback(v.g_task) THEN 1 ELSE 0

\* Calls that neither start nor stop a movie.
Still(v, w) ==
    /\ DOMAIN w = VFields
    /\ w.g_task = v.g_task /\ w.cheat_layers = v.cheat_layers
    /\ w.snapshots = v.snapshots /\ w.g_movie_path = v.g_movie_path
    /\ w.unreadable_cht = v.unreadable_cht

\* A movie's .cht cannot be read, or a movie that starts from a snapshot lacks it, or loses
\* it once the recording that waits for its reset in the same place is stopped.
Lacking(v) ==
    \E p \in Movies :
        /\ v.movies[p] # NoMovie
        /\ \/ p \in v.unreadable_cht
           \/ /\ v.movies[p].startFlags = "MOVIE_START_FROM_SNAPSHOT"
              /\ \/ v.snapshots[p] = NoState
                 \/ v.g_task = "task_start_recording_from_reset" /\ v.g_movie_path = p

LEMMA StillTransitive ==
    ASSUME NEW u, NEW v, NEW w, Still(u, v), Still(v, w) PROVE Still(u, w)
  BY DEF Still

LEMMA StillItself == ASSUME NEW v, DOMAIN v = VFields PROVE Still(v, v)
  BY DEF Still

LEMMA StillLayered == ASSUME NEW v, NEW w, Still(v, w), Layered(v) PROVE Layered(w)
  BY DEF Still, Layered

LEMMA PausingStill ==
    ASSUME NEW v, DOMAIN v = VFields
    PROVE  /\ Still(v, core_vr_pause_emu(v))
           /\ \A force \in BOOLEAN : Still(v, core_vr_resume_emu_impl(v, force))
           /\ Still(v, core_vr_resume_emu(v))
           /\ \A n : Still(v, core_vr_frame_advance(v, n))
           /\ Still(v, core_vcr_stop_seek(v))
           /\ Still(v, stop_frame_advance(v))
           /\ Still(v, no_reset_pending(v))
<1>1. Still(v, core_vr_pause_emu(v))
  BY DEF core_vr_pause_emu, VFields, Still
<1>2. ASSUME NEW x, DOMAIN x = VFields, NEW force PROVE Still(x, core_vr_resume_emu_impl(x, force))
  BY <1>2 DEF core_vr_resume_emu_impl, VFields, Still
<1>3. ASSUME NEW x, DOMAIN x = VFields PROVE Still(x, core_vr_resume_emu(x))
  BY <1>2, <1>3 DEF core_vr_resume_emu
<1>4. \A n : Still(v, core_vr_frame_advance(v, n))
  <2> SUFFICES ASSUME NEW n PROVE Still(v, core_vr_frame_advance(v, n))
    OBVIOUS
  <2> DEFINE x == [v EXCEPT !.frame_advance_outstanding = n]
  <2>1. Still(v, x)
    BY DEF VFields, Still
  <2>2. Still(x, core_vr_resume_emu(x))
    BY <1>3, <2>1 DEF Still
  <2>3. core_vr_frame_advance(v, n) \in {v, core_vr_resume_emu(x)}
    BY DEF core_vr_frame_advance
  <2> QED BY <2>1, <2>2, <2>3, StillTransitive, StillItself
<1>5. Still(v, core_vcr_stop_seek(v))
  BY DEF core_vcr_stop_seek, VFields, Still
<1>6. Still(v, stop_frame_advance(v)) /\ Still(v, no_reset_pending(v))
  BY DEF stop_frame_advance, no_reset_pending, VFields, Still
<1> QED BY <1>1, <1>2, <1>3, <1>4, <1>5, <1>6

LEMMA RequestsStill ==
    ASSUME NEW v, DOMAIN v = VFields
    PROVE  /\ \A t : Still(v, st_push(v, t))
           /\ \A j : Still(v, submit_task(v, j))
           /\ \A F : Still(v, [v EXCEPT !.g_seek_savestates = F])
           /\ \A i : Still(v, without_job(v, i))
           /\ Still(v, write_movie(v))
           /\ Still(v, next_sample(v))
           /\ \A input : Still(v, append_input(v, input))
           /\ \A inputs : Still(v, with_inputs(v, inputs))
<1>1. \A t : Still(v, st_push(v, t))
  BY DEF st_push, VFields, Still
<1>2. \A j : Still(v, submit_task(v, j))
  BY DEF submit_task, VFields, Still
<1>3. \A F : Still(v, [v EXCEPT !.g_seek_savestates = F])
  BY DEF VFields, Still
<1>4. \A i : Still(v, without_job(v, i))
  BY DEF without_job, VFields, Still
<1>5. Still(v, write_movie(v))
  BY DEF write_movie, write_movie_impl, VFields, Still
<1>6. Still(v, next_sample(v))
  BY DEF next_sample, VFields, Still
<1>7. \A input : Still(v, append_input(v, input))
  BY DEF append_input, VFields, Still
<1>8. \A inputs : Still(v, with_inputs(v, inputs))
  BY DEF with_inputs, VFields, Still
<1> QED BY <1>1, <1>2, <1>3, <1>4, <1>5, <1>6, <1>7, <1>8

\* Once everything is stopped no layer of a playback is left.
LEMMA StopPops ==
    ASSUME NEW v, DOMAIN v = VFields, NEW n \in Int,
           v.cheat_layers = IF is_task_playback(v.g_task) THEN n + 1 ELSE n
    PROVE  LET w == core_vcr_stop_all(v)
           IN  /\ DOMAIN w = VFields
               /\ ~is_task_playback(w.g_task) /\ w.cheat_layers = n
               /\ v.g_task # "task_start_recording_from_reset" => w.snapshots = v.snapshots
               /\ \A p : p # v.g_movie_path => w.snapshots[p] = v.snapshots[p]
<1> DEFINE c == vcr_clear_seek_savestates(v)
           w == core_vcr_stop_all(v)
<1>1. /\ DOMAIN c = VFields /\ c.g_task = v.g_task /\ c.cheat_layers = v.cheat_layers
      /\ c.snapshots = v.snapshots /\ c.g_movie_path = v.g_movie_path
  BY DEF vcr_clear_seek_savestates, VFields
<1> HIDE DEF c
<1>2. CASE is_task_playback(v.g_task)
  <2>1. /\ v.g_task \notin {"task_start_recording_from_reset",
                            "task_start_recording_from_snapshot", "task_recording"}
        /\ is_task_playback(c.g_task)
    BY <1>1, <1>2 DEF is_task_playback
  <2>2. w = cht_layer_pop([c EXCEPT !.g_task = "task_idle"])
    BY <1>2, <2>1 DEF core_vcr_stop_all, vcr_stop_playback, c
  <2>3. /\ DOMAIN w = VFields /\ w.g_task = "task_idle" /\ w.cheat_layers = v.cheat_layers - 1
        /\ w.snapshots = v.snapshots
    BY <1>1, <2>2 DEF cht_layer_pop, VFields
  <2>4. v.cheat_layers = n + 1
    BY <1>2
  <2> QED BY <2>3, <2>4 DEF is_task_playback
<1>3. CASE ~is_task_playback(v.g_task)
  <2>1. v.cheat_layers = n
    BY <1>3
  <2>2. w \in {c, vcr_stop_record(c)}
    BY <1>3 DEF core_vcr_stop_all, c
  <2>3. CASE w = c
    BY <1>1, <1>3, <2>1, <2>3
  <2>4. CASE w = vcr_stop_record(c) /\ c.g_task = "task_start_recording_from_reset"
    <3>1. w = [c EXCEPT !.g_task = "task_idle", !.movies[c.g_movie_path] = NoMovie,
                        !.snapshots[c.g_movie_path] = NoState]
      BY <2>4 DEF vcr_stop_record
    <3>2. /\ DOMAIN w = VFields /\ w.g_task = "task_idle" /\ w.cheat_layers = c.cheat_layers
          /\ \A p : p # c.g_movie_path => w.snapshots[p] = c.snapshots[p]
      BY <1>1, <3>1 DEF VFields
    <3> QED BY <1>1, <2>1, <2>4, <3>2 DEF is_task_playback
  <2>5. CASE w = vcr_stop_record(c) /\ c.g_task = "task_recording"
    <3>1. w = [write_movie(c) EXCEPT !.g_task = "task_idle"]
      BY <2>5 DEF vcr_stop_record
    <3>2. Still(c, write_movie(c))
      BY <1>1, RequestsStill
    <3>3. /\ DOMAIN w = VFields /\ w.g_task = "task_idle" /\ w.cheat_layers = c.cheat_layers
          /\ w.snapshots = c.snapshots
      BY <1>1, <3>1, <3>2 DEF Still, VFields
    <3> QED BY <1>1, <2>1, <2>5, <3>3 DEF is_task_playback
  <2>6. CASE /\ w = vcr_stop_record(c)
             /\ c.g_task \notin {"task_start_recording_from_reset", "task_recording"}
    <3>1. w = c
      BY <2>6 DEF vcr_stop_record
    <3> QED BY <2>3, <3>1
  <2> QED BY <2>2, <2>3, <2>4, <2>5, <2>6
<1> QED BY <1>2, <1>3

LEMMA StopLayered ==
    ASSUME NEW v, DOMAIN v = VFields, Layered(v)
    PROVE  /\ DOMAIN core_vcr_stop_all(v) = VFields /\ Layered(core_vcr_stop_all(v))
           /\ ~is_task_playback(core_vcr_stop_all(v).g_task)
           /\ core_vcr_stop_all(v).cheat_layers = 0
<1>1. \A n \in Int : v.cheat_layers = (IF is_task_playback(v.g_task) THEN n + 1 ELSE n) =>
         /\ DOMAIN core_vcr_stop_all(v) = VFields
         /\ ~is_task_playback(core_vcr_stop_all(v).g_task)
         /\ core_vcr_stop_all(v).cheat_layers = n
  BY StopPops
<1>2. 0 \in Int /\ v.cheat_layers = (IF is_task_playback(v.g_task) THEN 0 + 1 ELSE 0)
  BY DEF Layered
<1>3. /\ DOMAIN core_vcr_stop_all(v) = VFields
      /\ ~is_task_playback(core_vcr_stop_all(v).g_task)
      /\ core_vcr_stop_all(v).cheat_layers = 0
  BY <1>1, <1>2
<1> QED BY <1>3 DEF Layered

LEMMA RecordLayered ==
    ASSUME NEW v, DOMAIN v = VFields, Layered(v), NEW path, NEW flags \in StartFlags, NEW uid
    PROVE  Layered(core_vcr_start_record(v, path, flags, uid))
<1> DEFINE x == core_vcr_stop_all(v)
           y == new_recording(x, path, flags, uid)
           z == [y EXCEPT !.startFlags = "MOVIE_START_FROM_SNAPSHOT"]
           w == core_vcr_start_record(v, path, flags, uid)
<1>1. DOMAIN x = VFields /\ ~is_task_playback(x.g_task) /\ x.cheat_layers = 0
  BY StopLayered
<1> HIDE DEF x
<1>2. DOMAIN y = VFields /\ ~is_task_playback(y.g_task) /\ y.cheat_layers = 0
  BY <1>1 DEF new_recording, VFields
<1>3. \/ w = y
      \/ w = started(y, "task_start_recording_from_reset")
      \/ \E t : w = st_push(started(y, "task_start_recording_from_snapshot"), t)
      \/ \E j : w = submit_task(started(z, "task_start_recording_from_existing_snapshot"), j)
  BY DEF core_vcr_start_record, x
<1> HIDE DEF y
<1>4. DOMAIN z = VFields /\ z.cheat_layers = 0
  BY <1>2 DEF VFields
<1> HIDE DEF z, w
<1>5. ASSUME NEW u \in {y, z},
             NEW task \in {"task_start_recording_from_reset", "task_start_recording_from_snapshot",
                           "task_start_recording_from_existing_snapshot"}
      PROVE  /\ DOMAIN started(u, task) = VFields /\ Layered(started(u, task))
             /\ \A t : Layered(st_push(started(u, task), t))
             /\ \A j : Layered(submit_task(started(u, task), j))
  <2> DEFINE a == started(u, task)
  <2>1. DOMAIN a = VFields /\ a.g_task = task /\ a.cheat_layers = 0
    BY <1>2, <1>4 DEF started, VFields
  <2> HIDE DEF a
  <2>2. Layered(a)
    BY <2>1 DEF Layered, is_task_playback
  <2>3. (\A t : Still(a, st_push(a, t))) /\ (\A j : Still(a, submit_task(a, j)))
    BY <2>1, RequestsStill
  <2>4. (\A t : Layered(st_push(a, t))) /\ (\A j : Layered(submit_task(a, j)))
    BY <2>2, <2>3, StillLayered
  <2> QED BY <2>1, <2>2, <2>4 DEF a
<1>6. Layered(y)
  BY <1>2 DEF Layered
<1>7. Layered(w)
  BY <1>3, <1>5, <1>6
<1> QED BY <1>7 DEF w

LEMMA PlaybackLayered ==
    ASSUME NEW v, Engine(v), Layered(v), ~Lacking(v), NEW path \in Movies
    PROVE  Layered(core_vcr_start_playback(v, path))
<1> DEFINE u == push_cheats(v, path)
           x == core_vcr_stop_all(u)
           file == v.movies[path]
           y == new_playback(x, path, file)
           w == core_vcr_start_playback(v, path)
<1>0. DOMAIN v = VFields
  BY DEF Engine
<1>1. CASE file = NoMovie
  BY <1>1 DEF core_vcr_start_playback, start_playback_result
<1>2. CASE file # NoMovie
  <2>1. /\ DOMAIN u = VFields /\ u.g_task = v.g_task /\ u.cheat_layers = v.cheat_layers + 1
        /\ u.snapshots = v.snapshots /\ u.g_movie_path = v.g_movie_path
    BY <1>0, <1>2 DEF push_cheats, cht_layer_push, Lacking, VFields
  <2>2. 1 \in Int /\ u.cheat_layers = (IF is_task_playback(u.g_task) THEN 1 + 1 ELSE 1)
    BY <2>1 DEF Layered
  <2> HIDE DEF u
  <2>3. \A n \in Int : u.cheat_layers = (IF is_task_playback(u.g_task) THEN n + 1 ELSE n) =>
           /\ DOMAIN x = VFields /\ x.cheat_layers = n
           /\ u.g_task # "task_start_recording_from_reset" => x.snapshots = u.snapshots
           /\ \A p : p # u.g_movie_path => x.snapshots[p] = u.snapshots[p]
    BY <2>1, StopPops
  <2>4. /\ DOMAIN x = VFields /\ x.cheat_layers = 1
        /\ u.g_task # "task_start_recording_from_reset" => x.snapshots = u.snapshots
        /\ \A p : p # u.g_movie_path => x.snapshots[p] = u.snapshots[p]
    BY <2>2, <2>3
  <2> HIDE DEF x
  <2>5. /\ DOMAIN y = VFields /\ y.cheat_layers = 1 /\ y.snapshots = x.snapshots
        /\ y.startFlags = file.startFlags
    BY <2>4 DEF new_playback, VFields
  <2>6. w = start_playback_task(y, path)
    BY <1>2 DEF core_vcr_start_playback, start_playback_result, u, x
  <2> HIDE DEF y
  <2>7. file.startFlags = "MOVIE_START_FROM_SNAPSHOT" => y.snapshots[path] # NoState
    BY <1>2, <2>1, <2>4, <2>5 DEF Lacking
  <2> DEFINE r == [y EXCEPT !.g_task = "task_start_playback_from_reset"]
             s == [y EXCEPT !.g_task = "task_start_playback_from_snapshot"]
  <2>8. /\ DOMAIN r = VFields /\ r.g_task = "task_start_playback_from_reset"
        /\ r.cheat_layers = 1
        /\ DOMAIN s = VFields /\ s.g_task = "task_start_playback_from_snapshot"
        /\ s.cheat_layers = 1
    BY <2>5 DEF VFields
  <2>9. w = r \/ \E j : w = submit_task(s, j)
    BY <2>5, <2>6, <2>7 DEF start_playback_task
  <2> HIDE DEF r, s, w
  <2>10. Layered(r) /\ Layered(s)
    BY <2>8 DEF Layered, is_task_playback
  <2>11. \A j : Layered(submit_task(s, j))
    BY <2>8, <2>10, RequestsStill, StillLayered
  <2>12. Layered(w)
    BY <2>9, <2>10, <2>11
  <2> QED BY <2>12 DEF w
<1> QED BY <1>1, <1>2

LEMMA LackingSame ==
    ASSUME NEW v, NEW w, Still(v, w), w.movies = v.movies, ~Lacking(v) PROVE ~Lacking(w)
  BY DEF Still, Lacking

LEMMA QuietStill ==
    ASSUME NEW v, NEW w, Quiet(v, w), w.cheat_layers = v.cheat_layers
    PROVE  Still(v, w) /\ w.movies = v.movies
  BY DEF Quiet, Still, SamePlace, SameFiles

LEMMA LoadStill == ASSUME NEW v, DOMAIN v = VFields, NEW key PROVE Still(v, load_seek_savestate(v, key))
<1> DEFINE u == [v EXCEPT !.g_seek_savestate_loading = TRUE]
<1>1. Still(v, u) /\ DOMAIN u = VFields
  BY DEF VFields, Still
<1>2. \E j : load_seek_savestate(v, key) = submit_task(u, j)
  BY DEF load_seek_savestate
<1> HIDE DEF u
<1>3. \A j : Still(u, submit_task(u, j))
  BY <1>1, RequestsStill
<1> QED BY <1>1, <1>2, <1>3, StillTransitive

LEMMA RewindRecordingStill ==
    ASSUME NEW v, DOMAIN v = VFields, NEW target PROVE Still(v, rewind_recording(v, target))
<1> DEFINE u == purge_seek_savestates(v, target)
<1>1. Still(v, u)
  <2>1. \A F : Still(v, [v EXCEPT !.g_seek_savestates = F])
    BY RequestsStill
  <2> QED BY <2>1, StillItself DEF purge_seek_savestates
<1>2. \E key : rewind_recording(v, target) = load_seek_savestate(u, key)
  BY DEF rewind_recording
<1> HIDE DEF u
<1>3. \A key : Still(u, load_seek_savestate(u, key))
  BY <1>1, LoadStill DEF Still
<1> QED BY <1>1, <1>2, <1>3, StillTransitive

LEMMA RewindPlaybackLayered ==
    ASSUME NEW v, Engine(v), Layered(v), ~Lacking(v), v.g_task = "task_playback", NEW frame
    PROVE  Layered(rewind_playback(v, frame))
<1>0. DOMAIN v = VFields /\ v.g_movie_path \in Movies
  BY DEF Engine, BegunOK, Begun
<1>1. CASE v.cfg.seek_savestate_interval # 0
  <2> DEFINE u == [v EXCEPT !.vcr_readonly = TRUE]
  <2>1. Still(v, u) /\ DOMAIN u = VFields
    BY <1>0 DEF VFields, Still
  <2>2. \E key : rewind_playback(v, frame) = load_seek_savestate(u, key)
    BY <1>1 DEF rewind_playback
  <2> HIDE DEF u
  <2>3. \A key : Layered(load_seek_savestate(u, key))
    BY <2>1, LoadStill, StillLayered
  <2> QED BY <2>2, <2>3
<1>2. CASE v.cfg.seek_savestate_interval = 0
  <2> DEFINE w == core_vcr_start_playback(v, v.g_movie_path)
             z == [w EXCEPT !.seek_to_frame = NoFrame]
  <2>1. rewind_playback(v, frame) \in {w, z}
    BY <1>2 DEF rewind_playback, restart_playback
  <2>2. Layered(w) /\ DOMAIN w = VFields
    <3>1. Goes(v, w)
      BY <1>0, StartsPlayback
    <3> QED BY <1>0, <3>1, PlaybackLayered DEF Goes, Engine
  <2> HIDE DEF w
  <2>3. Layered(z)
    BY <2>2 DEF Layered, VFields
  <2> QED BY <2>1, <2>2, <2>3
<1> QED BY <1>1, <1>2

LEMMA BacktrackLayered ==
    ASSUME NEW v, Engine(v), Layered(v), ~Lacking(v), NEW frame, NEW warp
    PROVE  Layered(backtrack(v, frame, warp))
<1>0. DOMAIN v = VFields
  BY DEF Engine
<1>1. CASE backtrack(v, frame, warp) = v
  BY <1>1
<1>2. CASE v.g_task = "task_playback" /\ backtrack(v, frame, warp) = rewind_playback(v, frame)
  BY <1>2, RewindPlaybackLayered
<1>3. CASE \E target : backtrack(v, frame, warp) = rewind_recording(v, target)
  BY <1>0, <1>3, RewindRecordingStill, StillLayered
<1> QED BY <1>1, <1>2, <1>3 DEF backtrack

LEMMA SeekLayered ==
    ASSUME NEW v, Engine(v), Layered(v), ~Lacking(v), NEW frame, NEW pause, NEW resume, NEW warp
    PROVE  Layered(vcr_begin_seek_impl(v, frame, pause, resume, warp))
<1> DEFINE end == seek_end(frame, pause)
           w == [v EXCEPT !.seek_to_frame = end, !.g_seek_pause_at_end = pause]
           r == core_vr_resume_emu(w)
           z == vcr_begin_seek_impl(v, frame, pause, resume, warp)
<1>1. z = v \/ z = core_vcr_stop_seek(w) \/ z = backtrack(r, end, warp) \/ z = backtrack(w, end, warp)
  BY DEF vcr_begin_seek_impl
<1>2. Quiet(v, w) /\ Still(v, w)
  BY DEF Engine, VFields, Quiet, SameMovie, SamePlace, SameFiles, SameQueues, Still
<1> HIDE DEF w, z, end
<1>3. Quiet(w, r) /\ Still(w, r) /\ Still(w, core_vcr_stop_seek(w))
  BY <1>2, PausingQuiet, PausingStill DEF Quiet
<1>4. Engine(w) /\ Engine(r)
  BY <1>2, <1>3, QuietKeeps, QuietTransitive
<1>5. w.movies = v.movies /\ r.movies = w.movies
  BY <1>2, <1>3 DEF Quiet, SameFiles
<1>6. Layered(w) /\ Layered(r) /\ Layered(core_vcr_stop_seek(w))
  BY <1>2, <1>3, StillLayered
<1>7. ~Lacking(w) /\ ~Lacking(r)
  BY <1>2, <1>3, <1>5, LackingSame
<1>8. Layered(backtrack(r, end, warp)) /\ Layered(backtrack(w, end, warp))
  BY <1>4, <1>6, <1>7, BacktrackLayered
<1>9. Layered(z)
  BY <1>1, <1>6, <1>8
<1> QED BY <1>9 DEF z

LEMMA WarpLayered ==
    ASSUME NEW v, Engine(v), Layered(v), ~Lacking(v), NEW inputs \in Seq(Input)
    PROVE  Layered(core_vcr_begin_warp_modify(v, inputs))
<1> DEFINE diff == vcr_find_first_input_difference(v.g_movie_inputs, inputs)
           w == [v EXCEPT !.g_warp_modify_first_difference_frame = diff]
           z == core_vcr_begin_warp_modify(v, inputs)
<1>1. z = v \/ z = w \/ z = with_inputs(w, inputs) \/ z = warp_seek(w, inputs)
  BY DEF core_vcr_begin_warp_modify
<1>2. Quiet(v, w) /\ Still(v, w)
  BY DEF Engine, VFields, Quiet, SameMovie, SamePlace, SameFiles, SameQueues, Still
<1> HIDE DEF w, z, diff
<1>3. Engine(w) /\ Layered(w) /\ ~Lacking(w) /\ DOMAIN w = VFields
  <2>1. w.movies = v.movies
    BY <1>2 DEF Quiet, SameFiles
  <2> QED BY <1>2, <2>1, QuietKeeps, StillLayered, LackingSame DEF Still
<1>4. Layered(with_inputs(w, inputs))
  BY <1>3, RequestsStill, StillLayered
<1>5. Layered(warp_seek(w, inputs))
  <2> DEFINE target == SmallerOf(Len(inputs), w.m_current_sample)
             pause == w.emu_paused \/ w.frame_advance_outstanding > 0
             s == vcr_begin_seek_impl(w, target, pause, FALSE, TRUE)
             i == with_inputs(s, inputs)
             a == [i EXCEPT !.g_warp_modify_active = TRUE]
  <2>1. warp_seek(w, inputs) \in {s, core_vr_resume_emu(a)}
    BY DEF warp_seek
  <2>2. Layered(s) /\ DOMAIN s = VFields
    <3>1. Goes(w, s)
      BY <1>3, BeginsSeek
    <3> QED BY <1>3, <3>1, SeekLayered DEF Goes, Engine
  <2> HIDE DEF s
  <2>3. Still(s, i)
    BY <2>2, RequestsStill
  <2>4. Still(i, a)
    BY <2>3 DEF Still, VFields
  <2> HIDE DEF a, i
  <2>5. Still(a, core_vr_resume_emu(a))
    BY <2>4, PausingStill DEF Still
  <2>6. Layered(core_vr_resume_emu(a))
    BY <2>2, <2>3, <2>4, <2>5, StillLayered
  <2> QED BY <2>1, <2>2, <2>6
<1>6. Layered(z)
  BY <1>1, <1>3, <1>4, <1>5
<1> QED BY <1>6 DEF z

LEMMA BeforeInputStill == ASSUME NEW v, DOMAIN v = VFields PROVE Still(v, before_input(v))
<1> DEFINE x == vcr_stop_seek_if_needed(v)
           y == vcr_handle_starting_tasks(x)
           s == core_vcr_stop_seek(v)
<1>1. Still(v, x)
  <2>1. Still(v, s)
    BY PausingStill
  <2>2. Still(s, core_vr_pause_emu(s))
    BY <2>1, PausingStill DEF Still
  <2>3. x \in {v, s, core_vr_pause_emu(s)}
    BY DEF vcr_stop_seek_if_needed
  <2> QED BY <2>1, <2>2, <2>3, StillItself, StillTransitive
<1> HIDE DEF x
<1>2. Still(x, y)
  <2> DEFINE u == [x EXCEPT !.g_reset_pending = TRUE]
  <2>1. DOMAIN x = VFields
    BY <1>1 DEF Still
  <2>2. Still(x, u)
    BY <2>1 DEF VFields, Still
  <2>3. y = x \/ \E j : y = submit_task(u, j)
    BY DEF vcr_handle_starting_tasks
  <2> HIDE DEF u
  <2>4. \A j : Still(u, submit_task(u, j))
    BY <2>2, RequestsStill DEF Still
  <2> QED BY <2>1, <2>2, <2>3, <2>4, StillItself, StillTransitive
<1> HIDE DEF y
<1>3. Still(y, vcr_create_seek_savestates(y))
  <2>1. DOMAIN y = VFields
    BY <1>2 DEF Still
  <2>2. Still(y, purge_oldest(y))
    <3>1. \A F : Still(y, [y EXCEPT !.g_seek_savestates = F])
      BY <2>1, RequestsStill
    <3> QED BY <2>1, <3>1, StillItself DEF purge_oldest
  <2>3. \A t : Still(purge_oldest(y), st_push(purge_oldest(y), t))
    BY <2>2, RequestsStill DEF Still
  <2>4. \/ vcr_create_seek_savestates(y) = y
        \/ \E t : vcr_create_seek_savestates(y) = st_push(purge_oldest(y), t)
    BY DEF vcr_create_seek_savestates, vcr_create_n_frame_savestate
  <2> QED BY <2>1, <2>2, <2>3, <2>4, StillItself, StillTransitive
<1>4. before_input(v) = vcr_create_seek_savestates(y)
  BY DEF before_input, x, y
<1> QED BY <1>1, <1>2, <1>3, <1>4, StillTransitive

LEMMA RecordingStill ==
    ASSUME NEW v, DOMAIN v = VFields, NEW index, NEW keys
    PROVE  Still(v, vcr_handle_recording(v, index, keys))
<1> DEFINE x == IF use_inputs_from_buffer(v, index) THEN v
                ELSE append_input(v, recording_input(v, index, keys))
           y == next_sample(x)
           u == [y EXCEPT !.vcr_reset_requested = FALSE, !.g_reset_pending = TRUE]
           z == vcr_handle_recording(v, index, keys)
<1>1. Still(v, x)
  BY RequestsStill, StillItself
<1>2. z = y \/ \E j : z = submit_task(u, j)
  BY DEF vcr_handle_recording, user_reset
<1> HIDE DEF x, z
<1>3. Still(x, y)
  BY <1>1, RequestsStill DEF Still
<1> HIDE DEF y
<1>4. Still(y, u)
  BY <1>3 DEF Still, VFields
<1> HIDE DEF u
<1>5. \A j : Still(u, submit_task(u, j))
  BY <1>4, RequestsStill DEF Still
<1>6. Still(v, z)
  BY <1>1, <1>2, <1>3, <1>4, <1>5, StillTransitive
<1> QED BY <1>6 DEF z

LEMMA PlayingLayered ==
    ASSUME NEW v, Engine(v), Layered(v), ~Lacking(v), v.g_task = "task_playback", NEW index
    PROVE  Layered(vcr_handle_playback(v, index))
<1> DEFINE w == pause_at_movie_end(v)
           u == [w EXCEPT !.g_reset_pending = TRUE]
           z == vcr_handle_playback(v, index)
           x == core_vcr_stop_all(w)
<1>0. DOMAIN v = VFields
  BY DEF Engine
<1>1. Still(v, w) /\ Quiet(v, w)
  BY <1>0, PausingStill, PausingQuiet, StillItself, QuietSelf DEF pause_at_movie_end
<1>2. \/ z = x
      \/ z = core_vcr_start_playback(x, w.g_movie_path)
      \/ z = next_sample(w)
      \/ \E j : z = next_sample(submit_task(u, j))
  BY DEF vcr_handle_playback, movie_ended, movie_reset
<1> HIDE DEF w, z
<1>3. /\ Engine(w) /\ Layered(w) /\ ~Lacking(w) /\ DOMAIN w = VFields
      /\ w.g_task = "task_playback" /\ w.g_movie_path \in Movies
  <2>1. w.movies = v.movies
    BY <1>1 DEF Quiet, SameFiles
  <2>2. Engine(w) /\ Layered(w) /\ ~Lacking(w) /\ DOMAIN w = VFields /\ w.g_task = "task_playback"
    BY <1>1, <2>1, QuietKeeps, StillLayered, LackingSame DEF Still
  <2> QED BY <2>2 DEF Engine, BegunOK, Begun
<1>4. Layered(x) /\ DOMAIN x = VFields /\ ~is_task_playback(x.g_task) /\ Engine(x)
  BY <1>3, StopLayered, StopsAll DEF Stopped
<1>5. ~Lacking(x)
  <2>1. x.movies = w.movies
    BY <1>3, StopsAll DEF Stopped
  <2>2. /\ x.snapshots = w.snapshots /\ x.g_task = "task_idle"
        /\ x.unreadable_cht = w.unreadable_cht
    <3> DEFINE c == vcr_clear_seek_savestates(w)
    <3>1. /\ c.g_task = w.g_task /\ DOMAIN c = VFields /\ c.snapshots = w.snapshots
          /\ c.unreadable_cht = w.unreadable_cht
      BY <1>3 DEF vcr_clear_seek_savestates, VFields
    <3>2. x = cht_layer_pop([c EXCEPT !.g_task = "task_idle"])
      BY <1>3, <3>1 DEF core_vcr_stop_all, vcr_stop_playback, is_task_playback
    <3> QED BY <3>1, <3>2 DEF cht_layer_pop, VFields
  <2> QED BY <1>3, <2>1, <2>2 DEF Lacking
<1> HIDE DEF x
<1>6. Layered(core_vcr_start_playback(x, w.g_movie_path))
  BY <1>3, <1>4, <1>5, PlaybackLayered
<1>7. Layered(next_sample(w))
  BY <1>3, RequestsStill, StillLayered
<1>8. \A j : Layered(next_sample(submit_task(u, j)))
  <2> TAKE j
  <2>1. Still(w, u) /\ DOMAIN u = VFields
    BY <1>3 DEF Still, VFields
  <2> HIDE DEF u
  <2>2. Still(u, submit_task(u, j))
    BY <2>1, RequestsStill
  <2>3. Still(submit_task(u, j), next_sample(submit_task(u, j)))
    BY <2>2, RequestsStill DEF Still
  <2> QED BY <1>3, <2>1, <2>2, <2>3, StillLayered
<1>9. Layered(z)
  BY <1>2, <1>4, <1>6, <1>7, <1>8
<1> QED BY <1>9 DEF z

LEMMA PollLayered ==
    ASSUME NEW v, Engine(v), Layered(v), ~Lacking(v), NEW index, NEW keys
    PROVE  Layered(vcr_on_controller_poll(v, index, keys))
<1> DEFINE w == before_input(v)
           z == vcr_on_controller_poll(v, index, keys)
<1>1. Still(v, w) /\ Engine(w) /\ w.movies = v.movies
  BY BeforeInput, BeforeInputStill DEF Calm, Engine
<1>2. \/ z = v
      \/ z = vcr_handle_recording(w, index, keys)
      \/ w.g_task = "task_playback" /\ z = vcr_handle_playback(w, index)
      \/ z = w
  BY DEF vcr_on_controller_poll
<1> HIDE DEF w, z
<1>3. Layered(w) /\ ~Lacking(w) /\ DOMAIN w = VFields
  BY <1>1, StillLayered, LackingSame DEF Still
<1>4. Layered(vcr_handle_recording(w, index, keys))
  BY <1>3, RecordingStill, StillLayered
<1>5. w.g_task = "task_playback" => Layered(vcr_handle_playback(w, index))
  BY <1>1, <1>3, PlayingLayered
<1>6. Layered(z)
  BY <1>2, <1>3, <1>4, <1>5
<1> QED BY <1>6 DEF z

\* A savestate load or the callback of a request turns a playback into a recording or a
\* recording into a playback, without stopping the one that runs.
TaskReplaced ==
    /\ st_do_work_task \/ reset_callback
    /\ vcr'.g_task \in {"task_recording", "task_playback"}
    /\ is_task_playback(vcr.g_task) # is_task_playback(vcr'.g_task)

\* Calls that may set the task but leave the layers alone.
Turns(v, w) ==
    /\ DOMAIN w = VFields /\ w.cheat_layers = v.cheat_layers
    /\ w.g_task \in {v.g_task, "task_recording", "task_playback"}

LEMMA TurnsTransitive ==
    ASSUME NEW u, NEW v, NEW w, Turns(u, v), Turns(v, w) PROVE Turns(u, w)
  BY DEF Turns

LEMMA StillTurns == ASSUME NEW v, NEW w, Still(v, w) PROVE Turns(v, w)
  BY DEF Still, Turns

LEMMA TurnedStep ==
    ASSUME Layered(vcr), Turns(vcr, vcr'), st_do_work_task \/ reset_callback, ~TaskReplaced
    PROVE  Layered(vcr')
<1>1. CASE vcr'.g_task = vcr.g_task
  BY <1>1 DEF Turns, Layered
<1>2. CASE vcr'.g_task \in {"task_recording", "task_playback"}
  <2>1. is_task_playback(vcr.g_task) = is_task_playback(vcr'.g_task)
    BY <1>2 DEF TaskReplaced
  <2> QED BY <2>1 DEF Turns, Layered
<1> QED BY <1>1, <1>2 DEF Turns

LEMMA UnfreezeTurns ==
    ASSUME NEW v, DOMAIN v = VFields, NEW freeze PROVE Turns(v, core_vcr_unfreeze(v, freeze))
<1> DEFINE n == freeze.current_sample
           x == [v EXCEPT !.g_task = "task_recording", !.m_current_sample = n]
           y == [x EXCEPT !.length_samples = n, !.g_movie_inputs = resize(freeze.input_buffer, n)]
           z == write_movie(v)
           s == [v EXCEPT !.m_current_sample = n]
           p == [z EXCEPT !.g_task = "task_playback", !.m_current_sample = n]
<1>1. core_vcr_unfreeze(v, freeze) \in {v, s, x, write_movie(y), p}
  BY DEF core_vcr_unfreeze, unfreeze_readwrite, overwrite_inputs, unfreeze_readonly
<1>2. Turns(v, v) /\ Turns(v, s) /\ Turns(v, x) /\ Turns(v, y)
  BY DEF Turns, VFields
<1>3. Turns(v, z)
  BY RequestsStill, StillTurns
<1> HIDE DEF y, z
<1>4. Turns(z, p)
  BY <1>3 DEF Turns, VFields
<1>5. Turns(y, write_movie(y))
  BY <1>2, RequestsStill, StillTurns DEF Turns
<1> QED BY <1>1, <1>2, <1>3, <1>4, <1>5, TurnsTransitive

LEMMA DoneTurns ==
    ASSUME NEW v, DOMAIN v = VFields, NEW t, NEW st PROVE Turns(v, task_done(v, t, st))
<1> DEFINE F == [f \in DOMAIN v.g_seek_savestates \cup {t.frame} |->
                   IF f = t.frame THEN st ELSE v.g_seek_savestates[f]]
<1>1. task_done(v, t, st) \in {v, [v EXCEPT !.g_seek_savestate_loading = FALSE],
         [v EXCEPT !.g_seek_savestates = F], set_task(v, "task_recording"),
         set_task(v, "task_playback")}
  BY DEF task_done
<1> HIDE DEF F
<1> QED BY <1>1 DEF Turns, VFields, set_task

LEMMA FailureLayered ==
    ASSUME NEW v, DOMAIN v = VFields, NEW t
    PROVE  \/ Turns(v, task_failed(v, t))
           \/ /\ t.what \notin {"seek_load", "slot_load"}
              /\ task_failed(v, t) = core_vcr_stop_all(v)
<1> DEFINE s == [v EXCEPT !.g_seek_savestate_loading = FALSE]
<1>1. CASE t.what = "seek_load"
  <2>1. task_failed(v, t) = core_vcr_stop_seek(s)
    BY <1>1 DEF task_failed
  <2>2. Still(v, s) /\ DOMAIN s = VFields
    BY DEF Still, VFields
  <2> HIDE DEF s
  <2>3. Still(s, core_vcr_stop_seek(s))
    BY <2>2, PausingStill
  <2> QED BY <2>1, <2>2, <2>3, StillTransitive, StillTurns
<1>2. CASE t.what \in {"record_snapshot", "record_existing", "playback_snapshot"}
  BY <1>2 DEF task_failed
<1>3. CASE t.what \notin {"seek_load", "record_snapshot", "record_existing", "playback_snapshot"}
  <2>1. task_failed(v, t) = v
    BY <1>3 DEF task_failed
  <2> QED BY <2>1, StillItself, StillTurns
<1> QED BY <1>1, <1>2, <1>3

LEMMA TaskLayered ==
    ASSUME Inv, Layered(vcr), st_do_work_task, ~TaskReplaced PROVE Layered(vcr')
<1> DEFINE t == vcr.g_tasks[next]
<1>0. DOMAIN vcr = VFields
  BY DEF Inv, Engine
<1>1. CASE savestates_save_immediate_impl(t)
  <2> DEFINE v == write_movie(vcr)
             st == savestate(vcr)
             y == [v EXCEPT !.snapshots[t.path] = st]
  <2>1. vcr' \in {task_done(v, t, st), task_done(y, t, st), task_failed(v, t)}
    BY <1>1 DEF savestates_save_immediate_impl
  <2>2. Turns(vcr, v) /\ Layered(v) /\ DOMAIN v = VFields
    BY <1>0, RequestsStill, StillTurns, StillLayered DEF Still
  <2> HIDE DEF v, st
  <2>3. Turns(v, y) /\ DOMAIN y = VFields
    BY <2>2 DEF Turns, VFields
  <2> HIDE DEF y, t
  <2>4. Turns(vcr, task_done(v, t, st)) /\ Turns(vcr, task_done(y, t, st))
    BY <2>2, <2>3, DoneTurns, TurnsTransitive
  <2>5. Turns(vcr, task_failed(v, t)) \/ task_failed(v, t) = core_vcr_stop_all(v)
    BY <2>2, FailureLayered, TurnsTransitive
  <2>6. Layered(core_vcr_stop_all(v))
    BY <2>2, StopLayered
  <2>7. Turns(vcr, vcr') \/ Layered(vcr')
    BY <2>1, <2>4, <2>5, <2>6
  <2> QED BY <2>7, TurnedStep
<1>2. CASE savestates_load_immediate_impl(t)
  <2> DEFINE st == task_buffer(t)
             u == unfrozen(st)
  <2>1. \/ vcr' = task_failed(vcr, t)
        \/ t.what \in {"seek_load", "slot_load"} /\ vcr' = task_failed(u, t)
        \/ vcr' = task_done(u, t, st)
    BY <1>2 DEF savestates_load_immediate_impl, load_warns
  <2>2. Turns(vcr, u) /\ DOMAIN u = VFields
    <3>1. Turns(vcr, u)
      BY <1>0, UnfreezeTurns, StillItself, StillTurns DEF unfrozen
    <3> QED BY <3>1 DEF Turns
  <2> HIDE DEF u, st, t
  <2>3. Turns(vcr, task_done(u, t, st))
    BY <2>2, DoneTurns, TurnsTransitive
  <2>4. t.what \in {"seek_load", "slot_load"} => Turns(vcr, task_failed(u, t))
    BY <2>2, FailureLayered, TurnsTransitive
  <2>5. Turns(vcr, task_failed(vcr, t)) \/ Layered(task_failed(vcr, t))
    BY <1>0, FailureLayered, StopLayered
  <2>6. Turns(vcr, vcr') \/ Layered(vcr')
    BY <2>1, <2>3, <2>4, <2>5
  <2> QED BY <2>6, TurnedStep
<1> QED BY <1>1, <1>2 DEF st_do_work_task

LEMMA CallbackLayered ==
    ASSUME Inv, Layered(vcr), reset_callback, ~TaskReplaced PROVE Layered(vcr')
<1> DEFINE n == no_reset_pending(vcr)
<1>1. vcr' \in {vcr, n, started(n, "task_recording"), started(n, "task_playback"),
                core_vcr_stop_all(n)}
  BY DEF reset_callback, reset_done, reset_failed
<1>2. Still(vcr, n)
  BY PausingStill DEF Inv, Engine
<1>3. Turns(vcr, vcr) /\ Turns(vcr, n)
  BY <1>2, StillItself, StillTurns DEF Inv, Engine
<1> HIDE DEF n
<1>4. Turns(n, started(n, "task_recording")) /\ Turns(n, started(n, "task_playback"))
  BY <1>2 DEF Still, Turns, VFields, started
<1>5. Layered(core_vcr_stop_all(n))
  BY <1>2, StillLayered, StopLayered DEF Still
<1>6. Turns(vcr, started(n, "task_recording")) /\ Turns(vcr, started(n, "task_playback"))
  BY <1>3, <1>4, TurnsTransitive
<1>7. Turns(vcr, vcr') \/ Layered(vcr')
  BY <1>1, <1>3, <1>5, <1>6
<1> QED BY <1>7, TurnedStep

LEMMA EmuThreadLayered ==
    ASSUME Inv, Layered(vcr), ~Lacking(vcr), EmuThread, ~TaskReplaced PROVE Layered(vcr')
<1>0. DOMAIN vcr = VFields /\ Engine(vcr)
  BY DEF Inv, Engine
<1>1. CASE update_pif_read
  <2> DEFINE x == [vcr EXCEPT !.frame_advance_outstanding = 0]
             y == [vcr EXCEPT !.frame_advance_outstanding = @ - 1]
  <2>1. vcr' \in {vcr, y, core_vr_pause_emu(x)}
    BY <1>1 DEF update_pif_read, advance_frame
  <2>2. Still(vcr, x) /\ Still(vcr, y)
    BY <1>0 DEF Still, VFields
  <2> HIDE DEF x, y
  <2>3. Still(x, core_vr_pause_emu(x))
    BY <2>2, PausingStill DEF Still
  <2>4. Layered(y) /\ Layered(core_vr_pause_emu(x))
    BY <2>2, <2>3, StillLayered
  <2> QED BY <2>1, <2>4
<1>2. CASE pif_resumed \/ pif_no_work
  BY <1>2 DEF pif_resumed, pif_no_work
<1>3. CASE st_do_work_begin
  <2>1. vcr' \in {vcr, write_movie(vcr)}
    BY <1>3 DEF st_do_work_begin
  <2> QED BY <1>0, <2>1, RequestsStill, StillLayered
<1>4. CASE st_do_work_task
  BY <1>4, TaskLayered
<1>5. CASE st_do_work_end \/ emu_thread_ends
  <2>1. \/ vcr' = [vcr EXCEPT !.g_tasks = << >>]
        \/ vcr' = [vcr EXCEPT !.core_executing = FALSE, !.emu_paused = TRUE, !.g_tasks = << >>]
    BY <1>5 DEF st_do_work_end, emu_thread_ends
  <2>2. vcr'.g_task = vcr.g_task /\ vcr'.cheat_layers = vcr.cheat_layers
    BY <1>0, <2>1 DEF VFields
  <2> QED BY <2>2 DEF Layered
<1>6. CASE internal_ReadController
  <2>1. PICK keys \in Buttons : vcr' = vcr_on_controller_poll(vcr, channel, keys)
    BY <1>6 DEF internal_ReadController
  <2> QED BY <1>0, <2>1, PollLayered
<1> QED BY <1>1, <1>2, <1>3, <1>4, <1>5, <1>6 DEF EmuThread

LEMMA WorkersLayered ==
    ASSUME Inv, Layered(vcr), Workers, ~TaskReplaced PROVE Layered(vcr')
<1>0. DOMAIN vcr = VFields /\ Engine(vcr)
  BY DEF Inv, Engine
<1>1. ASSUME NEW i \in 1 .. Len(vcr.jobs), job_load(i) PROVE Layered(vcr')
  <2> DEFINE j == vcr.jobs[i]
             a == without_job(vcr, i)
             b == touch_seek_savestate(a, j.frame)
             u == IF j.what = "seek_load" THEN b ELSE a
             t == job_task(vcr, j)
  <2>1. vcr' \in {st_push(u, t), task_failed(u, t)}
    BY <1>1 DEF job_load
  <2>2. Still(vcr, a)
    BY <1>0, RequestsStill
  <2> HIDE DEF a, t
  <2>3. Still(a, b)
    BY <2>2 DEF touch_seek_savestate, Still, VFields
  <2>4. Layered(u) /\ DOMAIN u = VFields
    BY <2>2, <2>3, StillLayered DEF Still
  <2> HIDE DEF u
  <2>5. Layered(st_push(u, t))
    BY <2>4, RequestsStill, StillLayered
  <2>6. Layered(core_vcr_stop_all(u))
    BY <2>4, StopLayered
  <2>7. Layered(task_failed(u, t))
    <3> DEFINE s == [u EXCEPT !.g_seek_savestate_loading = FALSE]
    <3>1. task_failed(u, t) \in {u, core_vcr_stop_all(u), core_vcr_stop_seek(s)}
      BY DEF task_failed
    <3>2. Still(u, s)
      BY <2>4 DEF Still, VFields
    <3> HIDE DEF s
    <3>3. Layered(core_vcr_stop_seek(s))
      BY <2>4, <3>2, PausingStill, StillLayered DEF Still
    <3> QED BY <2>4, <2>6, <3>1, <3>3
  <2> QED BY <2>1, <2>5, <2>7
<1>2. ASSUME NEW i \in 1 .. Len(vcr.jobs), vr_reset_rom_impl(i) \/ vr_close_rom_impl(i)
      PROVE  Layered(vcr')
  <2> DEFINE u == without_job(vcr, i)
             a == [u EXCEPT !.vcr_reset_requested = TRUE]
             b == stop_frame_advance(u)
  <2>1. \/ vcr' \in {u, a}
        \/ \E x \in {u, b} : \E what : vcr' = close_rom(x, what)
    BY <1>2 DEF vr_reset_rom_impl, vr_close_rom_impl
  <2>2. Still(vcr, u)
    BY <1>0, RequestsStill
  <2> HIDE DEF u
  <2>3. Still(u, a) /\ Still(u, b)
    BY <2>2, PausingStill DEF Still, VFields
  <2>4. Layered(u) /\ Layered(a) /\ Layered(b) /\ DOMAIN u = VFields /\ DOMAIN b = VFields
    BY <2>2, <2>3, StillLayered DEF Still
  <2>5. ASSUME NEW x, Layered(x), DOMAIN x = VFields, NEW what PROVE Layered(close_rom(x, what))
    <3> DEFINE r == core_vr_resume_emu_impl(x, TRUE)
    <3>1. Still(x, r)
      BY <2>5, PausingStill
    <3>2. close_rom(x, what) \in {r, core_vcr_stop_all(r)}
      BY DEF close_rom
    <3> HIDE DEF r
    <3>3. Layered(r) /\ Layered(core_vcr_stop_all(r))
      BY <2>5, <3>1, StillLayered, StopLayered DEF Still
    <3> QED BY <3>2, <3>3
  <2> HIDE DEF a, b
  <2> QED BY <2>1, <2>4, <2>5
<1>3. CASE vr_start_rom_impl
  <2>1. vcr' \in {vcr, [vcr EXCEPT !.core_executing = TRUE, !.emu_paused = FALSE]}
    BY <1>3 DEF vr_start_rom_impl
  <2>2. vcr'.g_task = vcr.g_task /\ vcr'.cheat_layers = vcr.cheat_layers
    BY <1>0, <2>1 DEF VFields
  <2> QED BY <2>2 DEF Layered
<1>4. CASE rom_closed
  BY <1>4 DEF rom_closed
<1>5. CASE reset_callback
  BY <1>5, CallbackLayered
<1> QED BY <1>1, <1>2, <1>3, <1>4, <1>5 DEF Workers

LEMMA UserLayered ==
    ASSUME Inv, Layered(vcr), ~Lacking(vcr), User PROVE Layered(vcr')
<1>e. Engine(vcr) /\ DOMAIN vcr = VFields
  BY DEF Inv, Engine
<1>u. \A op, v : user(op, v) => vcr' = v
  BY DEF user
<1>1. ASSUME NEW path \in Movies, NEW flags \in StartFlags, user_start_record(path, flags)
      PROVE  Layered(vcr')
  <2>1. vcr' = core_vcr_start_record(vcr, path, flags, recordings + 2)
    BY <1>1, <1>u DEF user_start_record
  <2> QED BY <1>e, <2>1, RecordLayered
<1>d. ASSUME NEW path \in Movies, user_declines_record(path) PROVE Layered(vcr')
  <2> DEFINE x == core_vcr_stop_all(vcr)
  <2>1. DOMAIN x = VFields /\ Layered(x)
    BY <1>e, StopLayered
  <2>2. vcr' = [x EXCEPT !.g_movie_path = path]
    BY <1>u, <1>d DEF user_declines_record, core_vcr_start_record_declined
  <2> HIDE DEF x
  <2> QED BY <2>1, <2>2 DEF Layered, VFields
<1>2. ASSUME NEW path \in Movies, user_start_playback(path) PROVE Layered(vcr')
  BY <1>e, <1>u, <1>2, PlaybackLayered DEF user_start_playback
<1>3. CASE user_stop_all
  BY <1>e, <1>u, <1>3, StopLayered DEF user_stop_all
<1>4. ASSUME NEW frame, NEW pause, user_begin_seek(frame, pause) PROVE Layered(vcr')
  BY <1>e, <1>u, <1>4, SeekLayered DEF user_begin_seek, core_vcr_begin_seek
<1>5. CASE user_stop_seek
  BY <1>e, <1>u, <1>5, PausingStill, StillLayered DEF user_stop_seek
<1>6. ASSUME NEW inputs \in edits(vcr.g_movie_inputs), user_begin_warp_modify(inputs)
      PROVE  Layered(vcr')
  <2>1. inputs \in Seq(Input)
    BY <1>e, EditedInputs DEF Engine, MovieOK
  <2>2. Layered(core_vcr_begin_warp_modify(vcr, inputs))
    BY <1>e, <2>1, WarpLayered
  <2> QED BY <1>u, <1>6, <2>2 DEF user_begin_warp_modify
<1>7. ASSUME NEW what, user_savestate(what) PROVE Layered(vcr')
  <2>1. \E t : vcr' = st_push(vcr, t)
    BY <1>u, <1>7 DEF user_savestate
  <2> QED BY <1>e, <2>1, RequestsStill, StillLayered
<1>8. CASE user_pause
  <2>1. /\ Layered(core_vr_pause_emu(vcr)) /\ Layered(core_vr_resume_emu(vcr))
        /\ Layered(core_vr_frame_advance(vcr, 1))
    BY <1>e, PausingStill, StillLayered
  <2> QED BY <1>u, <1>8, <2>1 DEF user_pause
<1>9. CASE user_toggle_readonly
  <2> DEFINE w == [vcr EXCEPT !.vcr_readonly = ~@]
  <2>1. vcr' = w
    BY <1>u, <1>9 DEF user_toggle_readonly
  <2>2. w.g_task = vcr.g_task /\ w.cheat_layers = vcr.cheat_layers
    BY <1>e DEF VFields
  <2> HIDE DEF w
  <2> QED BY <2>1, <2>2 DEF Layered
<1>10. CASE user_reset_rom
  <2>1. \E j : vcr' = submit_task(vcr, j)
    BY <1>u, <1>10 DEF user_reset_rom
  <2> QED BY <1>e, <2>1, RequestsStill, StillLayered
<1> QED BY <1>1, <1>2, <1>d, <1>3, <1>4, <1>5, <1>6, <1>7, <1>8, <1>9, <1>10 DEF User

LEMMA LayeredStep ==
    ASSUME Inv, Layered(vcr), ~Lacking(vcr), [Next]_vars, [~TaskReplaced]_vars
    PROVE  Layered(vcr')
<1>1. CASE UNCHANGED vars
  BY <1>1 DEF vars
<1>2. CASE Next /\ ~TaskReplaced
  BY <1>2, EmuThreadLayered, WorkersLayered, UserLayered DEF Next
<1> QED BY <1>1, <1>2

\* The host's cheats are overridden exactly while a movie is played back, in every
\* scenario, as long as no movie lacks its snapshot or has a .cht that cannot be read, and
\* no savestate or late callback turns a playback into a recording or back without
\* stopping it.
THEOREM CheatLayersMatchPlayback ==
    Spec => ([][~TaskReplaced]_vars /\ []~Lacking(vcr) => []CheatLayersBalanced)
<1>1. Init => Layered(vcr)
  BY DEF Init, InitialVcr, Layered, is_task_playback
<1>2. Inv /\ Layered(vcr) /\ ~Lacking(vcr) /\ [Next]_vars /\ [~TaskReplaced]_vars
        => Layered(vcr)'
  BY LayeredStep
<1>3. Layered(vcr) => CheatLayersBalanced
  BY DEF Layered, CheatLayersBalanced
<1> QED BY <1>1, <1>2, <1>3, EngineConsistent, PTL DEF Spec

-----------------------------------------------------------------------------
(* Inputs from beyond the end of the movie                                 *)

\* What a controller or a movie file can give.
Given == Input \ {OutOfRange}
Machines == [from : {"boot", "unknown", "snapshot"}, inputs : Seq(Given)]

\* A savestate whose movie reaches up to its sample.
Sound(st) ==
    st # NoState =>
        /\ st.machine \in Machines
        /\ st.freeze.input_buffer \in Seq(Given)
        /\ st.freeze.is_movie => st.freeze.current_sample <= Len(st.freeze.input_buffer)

\* Everything from which the movie can get inputs holds inputs that were given.
Stocked(v) ==
    /\ v.g_movie_inputs \in Seq(Given)
    /\ v.length_samples = Len(v.g_movie_inputs)
    /\ DOMAIN v.movies = Movies /\ DOMAIN v.snapshots = Movies
    /\ \A p \in Movies : v.movies[p] # NoMovie => v.movies[p].inputs \in Seq(Given)
    /\ \A p \in Movies : Sound(v.snapshots[p])
    /\ \A f \in DOMAIN v.g_seek_savestates : Sound(v.g_seek_savestates[f])
    /\ IsSeq(v.g_tasks)
    /\ \A i \in 1 .. Len(v.g_tasks) : Sound(v.g_tasks[i].st)

\* A warp modify seeks to a frame of its movie: until then no input is missing.
Warping(v) ==
    v.g_warp_modify_active =>
        v.seek_to_frame \in Nat /\ v.seek_to_frame <= Len(v.g_movie_inputs)

\* A call that leaves a warp modify with its target, or ends it.
Veers(v, w) ==
    w.g_warp_modify_active => v.g_warp_modify_active /\ w.seek_to_frame = v.seek_to_frame

Supplied(v, w) == DOMAIN w = VFields /\ (Stocked(v) => Stocked(w)) /\ Veers(v, w)

\* The fields that Stocked is about.
Stores(v, w) ==
    /\ w.g_movie_inputs = v.g_movie_inputs /\ w.length_samples = v.length_samples
    /\ w.movies = v.movies /\ w.snapshots = v.snapshots
    /\ w.g_seek_savestates = v.g_seek_savestates /\ w.g_tasks = v.g_tasks

LEMMA SuppliedTransitive ==
    ASSUME NEW u, NEW v, NEW w, Supplied(u, v), Supplied(v, w) PROVE Supplied(u, w)
  BY DEF Supplied, Veers

LEMMA SuppliedItself == ASSUME NEW v, DOMAIN v = VFields PROVE Supplied(v, v)
  BY DEF Supplied, Veers

LEMMA StoresSupplied ==
    ASSUME NEW v, NEW w, DOMAIN w = VFields, Stores(v, w), Veers(v, w) PROVE Supplied(v, w)
  BY DEF Supplied, Stores, Stocked

LEMMA NothingSound == Sound(NoState)
  BY DEF Sound

LEMMA PausingSupplied ==
    ASSUME NEW v, DOMAIN v = VFields
    PROVE  /\ Supplied(v, core_vr_pause_emu(v))
           /\ \A force \in BOOLEAN : Supplied(v, core_vr_resume_emu_impl(v, force))
           /\ Supplied(v, core_vr_resume_emu(v))
           /\ \A n : Supplied(v, core_vr_frame_advance(v, n))
           /\ Supplied(v, core_vcr_stop_seek(v))
           /\ Supplied(v, stop_frame_advance(v))
           /\ Supplied(v, no_reset_pending(v))
<1>1. \A w : Quiet(v, w) /\ Veers(v, w) => Supplied(v, w)
  BY StoresSupplied DEF Quiet, Stores, SameMovie, SameFiles, SameQueues
<1>2. Veers(v, core_vr_pause_emu(v))
  BY DEF core_vr_pause_emu, VFields, Veers
<1>3. \A force : Veers(v, core_vr_resume_emu_impl(v, force))
  BY DEF core_vr_resume_emu_impl, VFields, Veers
<1>4. Veers(v, core_vr_resume_emu(v))
  BY <1>3 DEF core_vr_resume_emu
<1>5. \A n : Veers(v, core_vr_frame_advance(v, n))
  BY DEF core_vr_frame_advance, core_vr_resume_emu, core_vr_resume_emu_impl, VFields, Veers
<1>6. Veers(v, core_vcr_stop_seek(v))
  BY DEF core_vcr_stop_seek, VFields, Veers
<1>7. Veers(v, stop_frame_advance(v)) /\ Veers(v, no_reset_pending(v))
  BY DEF stop_frame_advance, no_reset_pending, VFields, Veers
<1> QED BY <1>1, <1>2, <1>3, <1>4, <1>5, <1>6, <1>7, PausingQuiet

\* Calls that touch none of the stores.
LEMMA PlainSupplied ==
    ASSUME NEW v, DOMAIN v = VFields
    PROVE  /\ \A j : Supplied(v, submit_task(v, j))
           /\ \A i : Supplied(v, without_job(v, i))
           /\ \A task : Supplied(v, started(v, task)) /\ Supplied(v, set_task(v, task))
           /\ Supplied(v, next_sample(v))
           /\ Supplied(v, cht_layer_push(v)) /\ Supplied(v, cht_layer_pop(v))
           /\ \A b : Supplied(v, [v EXCEPT !.g_seek_savestate_loading = b])
           /\ \A b : Supplied(v, [v EXCEPT !.g_reset_pending = b])
           /\ \A b : Supplied(v, [v EXCEPT !.vcr_readonly = b])
           /\ \A b : Supplied(v, [v EXCEPT !.vcr_reset_requested = b])
           /\ \A n : Supplied(v, [v EXCEPT !.m_current_sample = n])
           /\ \A n : Supplied(v, [v EXCEPT !.frame_advance_outstanding = n])
           /\ \A s : Supplied(v, [v EXCEPT !.startFlags = s])
<1> DEFINE Same(w) == DOMAIN w = VFields /\ Stores(v, w) /\ Veers(v, w)
<1> SUFFICES
           /\ \A j : Same(submit_task(v, j))
           /\ \A i : Same(without_job(v, i))
           /\ \A task : Same(started(v, task)) /\ Same(set_task(v, task))
           /\ Same(next_sample(v))
           /\ Same(cht_layer_push(v)) /\ Same(cht_layer_pop(v))
           /\ \A b : Same([v EXCEPT !.g_seek_savestate_loading = b])
           /\ \A b : Same([v EXCEPT !.g_reset_pending = b])
           /\ \A b : Same([v EXCEPT !.vcr_readonly = b])
           /\ \A b : Same([v EXCEPT !.vcr_reset_requested = b])
           /\ \A n : Same([v EXCEPT !.m_current_sample = n])
           /\ \A n : Same([v EXCEPT !.frame_advance_outstanding = n])
           /\ \A s : Same([v EXCEPT !.startFlags = s])
  BY StoresSupplied
<1> USE DEF VFields, Stores, Veers
<1>1. \A j : Same(submit_task(v, j))
  BY DEF submit_task
<1>2. \A i : Same(without_job(v, i))
  BY DEF without_job
<1>3. \A task : Same(started(v, task)) /\ Same(set_task(v, task))
  BY DEF started, set_task
<1>4. Same(next_sample(v))
  BY DEF next_sample
<1>5. Same(cht_layer_push(v)) /\ Same(cht_layer_pop(v))
  BY DEF cht_layer_push, cht_layer_pop
<1>6. \A b : Same([v EXCEPT !.g_seek_savestate_loading = b]) /\ Same([v EXCEPT !.g_reset_pending = b])
  OBVIOUS
<1>7. \A b : Same([v EXCEPT !.vcr_readonly = b]) /\ Same([v EXCEPT !.vcr_reset_requested = b])
  OBVIOUS
<1>8. \A n : /\ Same([v EXCEPT !.m_current_sample = n])
             /\ Same([v EXCEPT !.frame_advance_outstanding = n])
             /\ Same([v EXCEPT !.startFlags = n])
  OBVIOUS
<1> HIDE DEF Same
<1> QED BY <1>1, <1>2, <1>3, <1>4, <1>5, <1>6, <1>7, <1>8

\* A savestate request.
LEMMA PushSupplied ==
    ASSUME NEW v, DOMAIN v = VFields, NEW t, Stocked(v) => Sound(t.st)
    PROVE  Supplied(v, st_push(v, t))
<1> DEFINE w == st_push(v, t)
           q == v.g_tasks
           r == <<t>> \o q
<1>1. /\ DOMAIN w = VFields /\ Veers(v, w) /\ w.g_tasks = r
      /\ w.g_movie_inputs = v.g_movie_inputs /\ w.length_samples = v.length_samples
      /\ w.movies = v.movies /\ w.snapshots = v.snapshots
      /\ w.g_seek_savestates = v.g_seek_savestates
  BY DEF st_push, VFields, Veers
<1>2. ASSUME Stocked(v) PROVE IsSeq(r) /\ \A i \in 1 .. Len(r) : Sound(r[i].st)
  <2>0. IsSeq(q)
    BY <1>2 DEF Stocked
  <2> HIDE DEF q
  <2>1. /\ IsSeq(r) /\ Len(q) \in Nat /\ Len(r) = Len(q) + 1
        /\ \A i \in 1 .. Len(r) : r[i] = IF i = 1 THEN t ELSE q[i - 1]
    BY <2>0, PushFront
  <2> HIDE DEF r
  <2>2. \A i \in 1 .. Len(r) : i # 1 => i - 1 \in 1 .. Len(q)
    BY <2>1
  <2>3. \A i \in 1 .. Len(q) : Sound(q[i].st)
    BY <1>2 DEF Stocked, q
  <2>4. Sound(t.st)
    BY <1>2
  <2>5. \A i \in 1 .. Len(r) : Sound(r[i].st)
    BY <2>1, <2>2, <2>3, <2>4
  <2> QED BY <2>1, <2>5
<1> HIDE DEF w, r
<1>3. Supplied(v, w)
  BY <1>1, <1>2 DEF Supplied, Stocked
<1> QED BY <1>3 DEF w

\* Seek savestates that are made, touched or purged.
LEMMA SavestatesSupplied ==
    ASSUME NEW v, DOMAIN v = VFields, NEW F,
           Stocked(v) => \A f \in DOMAIN F : Sound(F[f])
    PROVE  Supplied(v, [v EXCEPT !.g_seek_savestates = F])
<1> DEFINE w == [v EXCEPT !.g_seek_savestates = F]
<1>1. /\ DOMAIN w = VFields /\ Veers(v, w) /\ w.g_tasks = v.g_tasks
      /\ w.g_movie_inputs = v.g_movie_inputs /\ w.length_samples = v.length_samples
      /\ w.movies = v.movies /\ w.snapshots = v.snapshots
      /\ w.g_seek_savestates = F
  BY DEF VFields, Veers
<1> HIDE DEF w
<1>2. Supplied(v, w)
  BY <1>1 DEF Supplied, Stocked
<1> QED BY <1>2 DEF w

LEMMA PurgeSupplied ==
    ASSUME NEW v, DOMAIN v = VFields
    PROVE  /\ Supplied(v, vcr_clear_seek_savestates(v))
           /\ Supplied(v, purge_oldest(v))
           /\ \A target : Supplied(v, purge_seek_savestates(v, target))
<1>1. Supplied(v, vcr_clear_seek_savestates(v))
  <2>1. DOMAIN << >> = {}
    OBVIOUS
  <2> QED BY <2>1, SavestatesSupplied DEF vcr_clear_seek_savestates
<1>2. ASSUME NEW S
      PROVE  Supplied(v, [v EXCEPT !.g_seek_savestates = WithoutFrames(v.g_seek_savestates, S)])
  <2> DEFINE F == WithoutFrames(v.g_seek_savestates, S)
  <2>1. Stocked(v) => \A f \in DOMAIN F : Sound(F[f])
    BY DEF WithoutFrames, Stocked
  <2> HIDE DEF F
  <2>2. Supplied(v, [v EXCEPT !.g_seek_savestates = F])
    BY <2>1, SavestatesSupplied
  <2> QED BY <2>2 DEF F
<1>3. \A S : [v EXCEPT !.g_seek_savestates = WithoutFrames(@, S)]
             = [v EXCEPT !.g_seek_savestates = WithoutFrames(v.g_seek_savestates, S)]
  BY DEF VFields
<1>4. Supplied(v, purge_oldest(v))
  BY <1>2, <1>3, SuppliedItself DEF purge_oldest
<1>5. \A target : Supplied(v, purge_seek_savestates(v, target))
  BY <1>2, <1>3, SuppliedItself DEF purge_seek_savestates
<1> QED BY <1>1, <1>4, <1>5

\* write_movie writes the inputs the movie has.
LEMMA WriteSupplied == ASSUME NEW v, DOMAIN v = VFields PROVE Supplied(v, write_movie(v))
<1> DEFINE file == MovieFile(v)
           w == [v EXCEPT !.movies[v.g_movie_path] = file]
<1>1. write_movie(v) \in {v, w}
  BY DEF write_movie, write_movie_impl
<1>2. /\ DOMAIN w = VFields /\ Veers(v, w) /\ w.g_tasks = v.g_tasks
      /\ w.g_movie_inputs = v.g_movie_inputs /\ w.length_samples = v.length_samples
      /\ w.movies = [v.movies EXCEPT ![v.g_movie_path] = file] /\ w.snapshots = v.snapshots
      /\ w.g_seek_savestates = v.g_seek_savestates
  BY DEF VFields, Veers
<1>3. ASSUME Stocked(v) PROVE file.inputs \in Seq(Given)
  <2>1. v.g_movie_inputs \in Seq(Input)
    BY <1>3 DEF Stocked, Given
  <2>2. resize(v.g_movie_inputs, v.length_samples) = v.g_movie_inputs
    BY <1>3, <2>1, ResizedToLength DEF Stocked
  <2> QED BY <1>3, <2>2 DEF MovieFile, Stocked
<1> HIDE DEF w, file
<1>4. Supplied(v, w)
  BY <1>2, <1>3 DEF Supplied, Stocked
<1> QED BY <1>1, <1>4, SuppliedItself

LEMMA StopSupplied == ASSUME NEW v, DOMAIN v = VFields PROVE Supplied(v, core_vcr_stop_all(v))
<1> DEFINE c == vcr_clear_seek_savestates(v)
           i == [c EXCEPT !.g_task = "task_idle"]
           s == [write_movie(c) EXCEPT !.g_task = "task_idle"]
           d == [c EXCEPT !.g_task = "task_idle", !.movies[c.g_movie_path] = NoMovie,
                          !.snapshots[c.g_movie_path] = NoState]
<1>1. core_vcr_stop_all(v) \in {c, cht_layer_pop(i), s, d}
  BY DEF core_vcr_stop_all, vcr_stop_playback, vcr_stop_record
<1>2. Supplied(v, c) /\ DOMAIN c = VFields
  <2>1. Supplied(v, c)
    BY PurgeSupplied
  <2> QED BY <2>1 DEF Supplied
<1> HIDE DEF c
<1>3. Supplied(c, i) /\ DOMAIN i = VFields
  <2>1. i = set_task(c, "task_idle")
    BY DEF set_task
  <2>2. Supplied(c, i)
    BY <1>2, <2>1, PlainSupplied
  <2> QED BY <2>2 DEF Supplied
<1>4. Supplied(i, cht_layer_pop(i))
  BY <1>3, PlainSupplied
<1>5. Supplied(c, s)
  <2> DEFINE w == write_movie(c)
  <2>1. Supplied(c, w) /\ DOMAIN w = VFields
    BY <1>2, WriteSupplied DEF Supplied
  <2>2. s = set_task(w, "task_idle")
    BY DEF set_task
  <2> HIDE DEF w
  <2>3. Supplied(w, set_task(w, "task_idle"))
    BY <2>1, PlainSupplied
  <2> QED BY <2>1, <2>2, <2>3, SuppliedTransitive
<1>6. Supplied(c, d)
  <2>1. /\ DOMAIN d = VFields /\ Veers(c, d) /\ d.g_tasks = c.g_tasks
        /\ d.g_movie_inputs = c.g_movie_inputs /\ d.length_samples = c.length_samples
        /\ d.movies = [c.movies EXCEPT ![c.g_movie_path] = NoMovie]
        /\ d.snapshots = [c.snapshots EXCEPT ![c.g_movie_path] = NoState]
        /\ d.g_seek_savestates = c.g_seek_savestates
    BY <1>2 DEF VFields, Veers
  <2> HIDE DEF d
  <2> QED BY <2>1, NothingSound DEF Supplied, Stocked
<1> HIDE DEF i, s, d
<1> QED BY <1>1, <1>2, <1>3, <1>4, <1>5, <1>6, SuppliedTransitive

LEMMA RecordSupplied ==
    ASSUME NEW v, DOMAIN v = VFields, NEW path, NEW flags \in StartFlags, NEW uid
    PROVE  Supplied(v, core_vcr_start_record(v, path, flags, uid))
<1> DEFINE x == core_vcr_stop_all(v)
           y == new_recording(x, path, flags, uid)
           z == [y EXCEPT !.startFlags = "MOVIE_START_FROM_SNAPSHOT"]
           w == core_vcr_start_record(v, path, flags, uid)
<1>1. Supplied(v, x) /\ DOMAIN x = VFields
  BY StopSupplied DEF Supplied
<1>2. \/ w = y
      \/ w = started(y, "task_start_recording_from_reset")
      \/ w = st_push(started(y, "task_start_recording_from_snapshot"),
                     StTask("record_snapshot", 0, path, NoState))
      \/ \E j : w = submit_task(started(z, "task_start_recording_from_existing_snapshot"), j)
  BY DEF core_vcr_start_record, x
<1> HIDE DEF x
<1>3. Supplied(x, y) /\ DOMAIN y = VFields
  <2>1. /\ DOMAIN y = VFields /\ Veers(x, y) /\ y.g_tasks = x.g_tasks
        /\ y.g_movie_inputs = << >> /\ y.length_samples = 0
        /\ y.movies = x.movies /\ y.snapshots = x.snapshots
        /\ y.g_seek_savestates = x.g_seek_savestates
    BY <1>1 DEF new_recording, VFields, Veers
  <2>2. << >> \in Seq(Given) /\ Len(<< >>) = 0
    OBVIOUS
  <2> HIDE DEF y
  <2> QED BY <2>1, <2>2 DEF Supplied, Stocked
<1> HIDE DEF y
<1>4. Supplied(y, z) /\ DOMAIN z = VFields
  BY <1>3, PlainSupplied DEF Supplied
<1> HIDE DEF z, w
<1>5. ASSUME NEW u \in {y, z}, NEW task
      PROVE  Supplied(u, started(u, task)) /\ DOMAIN started(u, task) = VFields
  BY <1>3, <1>4, PlainSupplied DEF Supplied
<1>6. \A task : Supplied(started(y, task), st_push(started(y, task), StTask("record_snapshot", 0, path, NoState)))
  <2> TAKE task
  <2> DEFINE s == started(y, task)
  <2>1. DOMAIN s = VFields
    BY <1>5
  <2>2. Sound(StTask("record_snapshot", 0, path, NoState).st)
    BY NothingSound DEF StTask
  <2> HIDE DEF s
  <2>3. Supplied(s, st_push(s, StTask("record_snapshot", 0, path, NoState)))
    BY <2>1, <2>2, PushSupplied
  <2> QED BY <2>3 DEF s
<1>7. \A task, j : Supplied(started(z, task), submit_task(started(z, task), j))
  BY <1>5, PlainSupplied
<1>8. Supplied(v, y) /\ Supplied(v, z)
  BY <1>1, <1>3, <1>4, SuppliedTransitive
<1>9. \A task : Supplied(v, started(y, task)) /\ Supplied(v, started(z, task))
  BY <1>5, <1>8, SuppliedTransitive
<1>10. Supplied(v, w)
  BY <1>2, <1>6, <1>7, <1>8, <1>9, SuppliedTransitive
<1> QED BY <1>10 DEF w

LEMMA PlaybackSupplied ==
    ASSUME NEW v, DOMAIN v = VFields, NEW path \in Movies
    PROVE  Supplied(v, core_vcr_start_playback(v, path))
<1> DEFINE u == push_cheats(v, path)
           x == core_vcr_stop_all(u)
           file == v.movies[path]
           y == new_playback(x, path, file)
           w == core_vcr_start_playback(v, path)
<1>1. CASE file = NoMovie
  <2>1. w = v
    BY <1>1 DEF core_vcr_start_playback, start_playback_result
  <2> QED BY <2>1, SuppliedItself
<1>2. CASE file # NoMovie
  <2>1. Supplied(v, u) /\ DOMAIN u = VFields
    BY PlainSupplied, SuppliedItself DEF push_cheats, Supplied
  <2>2. w = start_playback_task(y, path)
    BY <1>2 DEF core_vcr_start_playback, start_playback_result
  <2> HIDE DEF u
  <2>3. Supplied(u, x)
    BY <2>1, StopSupplied
  <2>4. Supplied(v, x) /\ DOMAIN x = VFields
    BY <2>1, <2>3, SuppliedTransitive DEF Supplied
  <2> HIDE DEF x
  <2>5. Supplied(v, y) /\ DOMAIN y = VFields
    <3>1. /\ DOMAIN y = VFields /\ Veers(x, y) /\ y.g_tasks = x.g_tasks
          /\ y.g_movie_inputs = file.inputs /\ y.length_samples = Len(file.inputs)
          /\ y.movies = x.movies /\ y.snapshots = x.snapshots
          /\ y.g_seek_savestates = x.g_seek_savestates
      BY <2>4 DEF new_playback, VFields, Veers
    <3>2. Stocked(v) => file.inputs \in Seq(Given)
      BY <1>2 DEF Stocked
    <3> HIDE DEF y, file
    <3>3. Stocked(v) => Stocked(y)
      BY <2>4, <3>1, <3>2 DEF Supplied, Stocked
    <3>4. Veers(v, y)
      BY <2>4, <3>1 DEF Supplied, Veers
    <3> QED BY <3>1, <3>3, <3>4 DEF Supplied
  <2> HIDE DEF y
  <2> DEFINE r == set_task(y, "task_start_playback_from_reset")
             s == set_task(y, "task_start_playback_from_snapshot")
  <2>6. w = y \/ w = r \/ \E j : w = submit_task(s, j)
    BY <2>2 DEF start_playback_task, set_task
  <2>7. Supplied(y, r) /\ Supplied(y, s) /\ DOMAIN s = VFields
    BY <2>5, PlainSupplied DEF Supplied
  <2> HIDE DEF r, s, w
  <2>8. \A j : Supplied(s, submit_task(s, j))
    BY <2>7, PlainSupplied
  <2>9. Supplied(v, w)
    BY <2>5, <2>6, <2>7, <2>8, SuppliedTransitive
  <2> QED BY <2>9 DEF w
<1> QED BY <1>1, <1>2

\* Shortening a sequence keeps its inputs.
LEMMA ResizedDown ==
    ASSUME NEW s \in Seq(Given), NEW n \in Nat, n <= Len(s)
    PROVE  resize(s, n) \in Seq(Given) /\ Len(resize(s, n)) = n
<1>1. \A i \in 1 .. n : i <= Len(s) /\ s[i] \in Given
  OBVIOUS
<1>2. resize(s, n) = [i \in 1 .. n |-> s[i]]
  BY <1>1 DEF resize
<1>3. resize(s, n) \in [1 .. n -> Given]
  BY <1>1, <1>2
<1>4. resize(s, n) \in Seq(Given)
  BY <1>3, SeqDef
<1> QED BY <1>3, <1>4, LenProperties

\* core_vcr_unfreeze takes the inputs of the savestate up to its sample.
LEMMA UnfreezeSupplied ==
    ASSUME NEW v, DOMAIN v = VFields, NEW st, st # NoState, Frozen(st), Stocked(v) => Sound(st),
           st.freeze.is_movie
    PROVE  Supplied(v, core_vcr_unfreeze(v, st.freeze))
<1> DEFINE freeze == st.freeze
           n == freeze.current_sample
           x == [v EXCEPT !.g_task = "task_recording", !.m_current_sample = n]
           y == [x EXCEPT !.length_samples = n, !.g_movie_inputs = resize(freeze.input_buffer, n)]
           z == write_movie(v)
           s == [v EXCEPT !.m_current_sample = n]
           p == [z EXCEPT !.g_task = "task_playback", !.m_current_sample = n]
<1>1. core_vcr_unfreeze(v, freeze) \in {v, s, x, write_movie(y), p}
  BY DEF core_vcr_unfreeze, unfreeze_readwrite, overwrite_inputs, unfreeze_readonly
<1>2. Supplied(v, v) /\ Supplied(v, s) /\ Supplied(v, z) /\ DOMAIN z = VFields
  BY SuppliedItself, PlainSupplied, WriteSupplied DEF Supplied
<1>3. Supplied(v, x)
  <2>1. DOMAIN x = VFields /\ Stores(v, x) /\ Veers(v, x)
    BY DEF VFields, Stores, Veers
  <2> HIDE DEF x
  <2> QED BY <2>1, StoresSupplied
<1>4. Supplied(z, p)
  <2> HIDE DEF z
  <2>1. DOMAIN p = VFields /\ Stores(z, p) /\ Veers(z, p)
    BY <1>2 DEF VFields, Stores, Veers
  <2> HIDE DEF p
  <2> QED BY <2>1, StoresSupplied
<1>5. Supplied(v, y) /\ DOMAIN y = VFields
  <2> DEFINE q == resize(freeze.input_buffer, n)
  <2>1. Stocked(v) => q \in Seq(Given) /\ Len(q) = n
    <3>1. n \in Nat
      BY DEF Frozen
    <3>2. Stocked(v) => freeze.input_buffer \in Seq(Given) /\ n <= Len(freeze.input_buffer)
      BY DEF Sound
    <3> QED BY <3>1, <3>2, ResizedDown
  <2> HIDE DEF q
  <2>2. /\ DOMAIN y = VFields /\ Veers(v, y) /\ y.g_tasks = v.g_tasks
        /\ y.g_movie_inputs = q /\ y.length_samples = n
        /\ y.movies = v.movies /\ y.snapshots = v.snapshots
        /\ y.g_seek_savestates = v.g_seek_savestates
    BY DEF VFields, Veers, q
  <2> HIDE DEF y, n
  <2> QED BY <2>1, <2>2 DEF Supplied, Stocked
<1> HIDE DEF y, z, s, x, p
<1>6. Supplied(y, write_movie(y))
  BY <1>5, WriteSupplied
<1> QED BY <1>1, <1>2, <1>3, <1>4, <1>5, <1>6, SuppliedTransitive

LEMMA LoadSupplied ==
    ASSUME NEW v, DOMAIN v = VFields, NEW key PROVE Supplied(v, load_seek_savestate(v, key))
<1> DEFINE u == [v EXCEPT !.g_seek_savestate_loading = TRUE]
<1>1. Supplied(v, u) /\ DOMAIN u = VFields
  BY PlainSupplied DEF Supplied
<1>2. \E j : load_seek_savestate(v, key) = submit_task(u, j)
  BY DEF load_seek_savestate
<1> HIDE DEF u
<1>3. \A j : Supplied(u, submit_task(u, j))
  BY <1>1, PlainSupplied
<1> QED BY <1>1, <1>2, <1>3, SuppliedTransitive

LEMMA RewindRecordingSupplied ==
    ASSUME NEW v, DOMAIN v = VFields, NEW target
    PROVE  /\ Supplied(v, rewind_recording(v, target))
           /\ rewind_recording(v, target).seek_to_frame = v.seek_to_frame
<1> DEFINE u == purge_seek_savestates(v, target)
<1>1. Supplied(v, u) /\ DOMAIN u = VFields /\ u.seek_to_frame = v.seek_to_frame
  <2>1. Supplied(v, u)
    BY PurgeSupplied
  <2>2. u.seek_to_frame = v.seek_to_frame
    BY DEF purge_seek_savestates, VFields
  <2> QED BY <2>1, <2>2 DEF Supplied
<1>2. \E key : rewind_recording(v, target) = load_seek_savestate(u, key)
  BY DEF rewind_recording
<1> HIDE DEF u
<1>3. \A key : Supplied(u, load_seek_savestate(u, key))
  BY <1>1, LoadSupplied
<1>4. \A key : load_seek_savestate(u, key).seek_to_frame = u.seek_to_frame
  BY <1>1 DEF load_seek_savestate, submit_task, VFields
<1> QED BY <1>1, <1>2, <1>3, <1>4, SuppliedTransitive

LEMMA RewindPlaybackSupplied ==
    ASSUME NEW v, DOMAIN v = VFields, v.g_movie_path \in Movies, ~v.g_warp_modify_active, NEW frame
    PROVE  Supplied(v, rewind_playback(v, frame))
<1>1. CASE v.cfg.seek_savestate_interval # 0
  <2> DEFINE u == [v EXCEPT !.vcr_readonly = TRUE]
  <2>1. Supplied(v, u) /\ DOMAIN u = VFields
    BY PlainSupplied DEF Supplied
  <2>2. \E key : rewind_playback(v, frame) = load_seek_savestate(u, key)
    BY <1>1 DEF rewind_playback
  <2> HIDE DEF u
  <2> QED BY <2>1, <2>2, LoadSupplied, SuppliedTransitive
<1>2. CASE v.cfg.seek_savestate_interval = 0
  <2> DEFINE w == core_vcr_start_playback(v, v.g_movie_path)
             z == [w EXCEPT !.seek_to_frame = NoFrame]
  <2>1. rewind_playback(v, frame) \in {w, z}
    BY <1>2 DEF rewind_playback, restart_playback
  <2>2. Supplied(v, w)
    BY PlaybackSupplied
  <2> HIDE DEF w
  <2>3. DOMAIN w = VFields /\ ~w.g_warp_modify_active
    BY <2>2 DEF Supplied, Veers
  <2>4. Supplied(w, z)
    <3>1. DOMAIN z = VFields /\ Stores(w, z) /\ Veers(w, z)
      BY <2>3 DEF VFields, Stores, Veers
    <3> HIDE DEF z
    <3> QED BY <3>1, StoresSupplied
  <2> QED BY <2>1, <2>2, <2>4, SuppliedTransitive
<1> QED BY <1>1, <1>2

\* A seek begins when no other one runs, hence no warp modify.
LEMMA SeekSupplied ==
    ASSUME NEW v, Engine(v), Warping(v), NEW frame, NEW pause, NEW resume, NEW warp
    PROVE  LET z == vcr_begin_seek_impl(v, frame, pause, resume, warp)
           IN  /\ Supplied(v, z)
               /\ (v.g_task = "task_recording" /\ warp
                     /\ begin_seek_result(v, frame, pause) = "Res_Ok")
                     => z.seek_to_frame = seek_end(frame, pause)
<1> DEFINE end == seek_end(frame, pause)
           w == [v EXCEPT !.seek_to_frame = end, !.g_seek_pause_at_end = pause]
           r == core_vr_resume_emu(w)
           z == vcr_begin_seek_impl(v, frame, pause, resume, warp)
<1>0. DOMAIN v = VFields
  BY DEF Engine
<1>1. CASE begin_seek_result(v, frame, pause) # "Res_Ok"
  <2>1. z = v
    BY <1>1 DEF vcr_begin_seek_impl
  <2> QED BY <1>0, <1>1, <2>1, SuppliedItself
<1>2. CASE begin_seek_result(v, frame, pause) = "Res_Ok"
  <2>1. \/ ~warp /\ z = core_vcr_stop_seek(w)
        \/ z = backtrack(r, end, warp)
        \/ z = backtrack(w, end, warp)
    BY <1>2 DEF vcr_begin_seek_impl
  <2>2. ~v.g_warp_modify_active
    <3>1. ~core_vcr_is_seeking(v)
      BY <1>2 DEF begin_seek_result
    <3>2. v.seek_to_frame = -1
      BY <3>1 DEF core_vcr_is_seeking, NoFrame
    <3> QED BY <3>2 DEF Warping
  <2>3. /\ DOMAIN w = VFields /\ Stores(v, w) /\ Veers(v, w) /\ ~w.g_warp_modify_active
        /\ w.seek_to_frame = end /\ w.g_movie_path = v.g_movie_path /\ w.g_task = v.g_task
    BY <1>0, <2>2 DEF VFields, Stores, Veers
  <2> HIDE DEF w, z, end
  <2>4. Supplied(v, w)
    BY <2>3, StoresSupplied
  <2>5. Supplied(w, r) /\ DOMAIN r = VFields /\ ~r.g_warp_modify_active
    BY <2>3, PausingSupplied DEF Supplied, Veers
  <2>6. r.seek_to_frame = w.seek_to_frame /\ r.g_movie_path = w.g_movie_path /\ r.g_task = w.g_task
    BY <2>3 DEF core_vr_resume_emu, core_vr_resume_emu_impl, VFields
  <2> HIDE DEF r
  <2>7. ASSUME NEW u \in {w, r}
        PROVE  /\ Supplied(u, backtrack(u, end, warp))
               /\ v.g_task = "task_recording" => backtrack(u, end, warp).seek_to_frame = end
    <3>1. /\ DOMAIN u = VFields /\ ~u.g_warp_modify_active /\ u.seek_to_frame = end
          /\ u.g_movie_path = v.g_movie_path /\ u.g_task = v.g_task
      BY <2>3, <2>5, <2>6
    <3>2. CASE backtrack(u, end, warp) = u
      BY <3>1, <3>2, SuppliedItself
    <3>3. CASE u.g_task = "task_playback" /\ backtrack(u, end, warp) = rewind_playback(u, end)
      <4>1. u.g_movie_path \in Movies
        BY <3>1, <3>3 DEF Engine, BegunOK, Begun
      <4> QED BY <3>1, <3>3, <4>1, RewindPlaybackSupplied
    <3>4. CASE \E target : backtrack(u, end, warp) = rewind_recording(u, target)
      BY <3>1, <3>4, RewindRecordingSupplied
    <3> QED BY <3>2, <3>3, <3>4 DEF backtrack
  <2>8. Supplied(w, core_vcr_stop_seek(w))
    BY <2>3, PausingSupplied
  <2>9. Supplied(v, z)
    BY <2>1, <2>4, <2>5, <2>7, <2>8, SuppliedTransitive
  <2>10. v.g_task = "task_recording" /\ warp => z.seek_to_frame = end
    BY <2>1, <2>7
  <2> QED BY <2>9, <2>10 DEF z, end
<1> QED BY <1>1, <1>2

\* The inputs of an edit.
LEMMA WithInputsStocked ==
    ASSUME NEW v, DOMAIN v = VFields, NEW inputs \in Seq(Given)
    PROVE  Supplied(v, with_inputs(v, inputs))
<1> DEFINE w == with_inputs(v, inputs)
<1>1. /\ DOMAIN w = VFields /\ Veers(v, w) /\ w.g_tasks = v.g_tasks
      /\ w.g_movie_inputs = inputs /\ w.length_samples = Len(inputs)
      /\ w.movies = v.movies /\ w.snapshots = v.snapshots
      /\ w.g_seek_savestates = v.g_seek_savestates
  BY DEF with_inputs, VFields, Veers
<1> HIDE DEF w
<1>2. Supplied(v, w)
  BY <1>1 DEF Supplied, Stocked
<1> QED BY <1>2 DEF w

\* A warp modify seeks to a frame of the new inputs.
LEMMA WarpSupplied ==
    ASSUME NEW v, Engine(v), Warping(v), NEW inputs \in Seq(Given)
    PROVE  LET z == core_vcr_begin_warp_modify(v, inputs)
           IN  DOMAIN z = VFields /\ (Stocked(v) => Stocked(z)) /\ (Veers(v, z) \/ Warping(z))
<1> DEFINE diff == vcr_find_first_input_difference(v.g_movie_inputs, inputs)
           w == [v EXCEPT !.g_warp_modify_first_difference_frame = diff]
           z == core_vcr_begin_warp_modify(v, inputs)
<1>0. DOMAIN v = VFields
  BY DEF Engine
<1>1. \/ z = v \/ z = w \/ z = with_inputs(w, inputs)
      \/ v.g_task = "task_recording" /\ z = warp_seek(w, inputs)
  BY DEF core_vcr_begin_warp_modify
<1>2. /\ Quiet(v, w) /\ Stores(v, w) /\ Veers(v, w) /\ w.seek_to_frame = v.seek_to_frame
      /\ w.g_warp_modify_active = v.g_warp_modify_active
  BY <1>0 DEF VFields, Quiet, SameMovie, SamePlace, SameFiles, SameQueues, Stores, Veers
<1> HIDE DEF w, z, diff
<1>3. /\ Engine(w) /\ DOMAIN w = VFields /\ Supplied(v, w) /\ Warping(w) /\ w.g_task = v.g_task
      /\ w.m_current_sample = v.m_current_sample
  <2>1. Engine(w) /\ DOMAIN w = VFields
    BY <1>2, QuietKeeps DEF Quiet
  <2> QED BY <1>2, <2>1, StoresSupplied DEF Quiet, Warping, Stores, SamePlace
<1>4. Supplied(w, with_inputs(w, inputs))
  BY <1>3, WithInputsStocked
<1>5. ASSUME v.g_task = "task_recording"
      PROVE  LET y == warp_seek(w, inputs)
             IN  DOMAIN y = VFields /\ (Stocked(w) => Stocked(y)) /\ (Veers(w, y) \/ Warping(y))
  <2> DEFINE target == SmallerOf(Len(inputs), w.m_current_sample)
             pause == w.emu_paused \/ w.frame_advance_outstanding > 0
             end == seek_end(target, pause)
             s == vcr_begin_seek_impl(w, target, pause, FALSE, TRUE)
             i == with_inputs(s, inputs)
             a == [i EXCEPT !.g_warp_modify_active = TRUE]
             y == core_vr_resume_emu(a)
  <2>1. \/ warp_seek(w, inputs) = s
        \/ begin_seek_result(w, target, pause) = "Res_Ok" /\ warp_seek(w, inputs) = y
    BY DEF warp_seek
  <2>2. /\ Supplied(w, s) /\ DOMAIN s = VFields
        /\ begin_seek_result(w, target, pause) = "Res_Ok" => s.seek_to_frame = end
    <3> HIDE DEF target, pause
    <3>1. w.g_task = "task_recording"
      BY <1>3, <1>5
    <3>2. /\ Supplied(w, s)
          /\ (w.g_task = "task_recording" /\ TRUE
                /\ begin_seek_result(w, target, pause) = "Res_Ok")
                => s.seek_to_frame = seek_end(target, pause)
      BY <1>3, SeekSupplied
    <3> QED BY <3>1, <3>2 DEF Supplied
  <2>3. ASSUME begin_seek_result(w, target, pause) = "Res_Ok"
        PROVE  end \in Nat /\ end <= Len(inputs)
    <3>1. w.m_current_sample \in Nat
      BY <1>3, <1>5 DEF Engine, BegunOK, Begun
    <3>2. Len(inputs) \in Nat
      OBVIOUS
    <3>3. target \in Nat /\ target <= Len(inputs)
      BY <3>1, <3>2 DEF SmallerOf
    <3>4. can_seek_to(w, end)
      BY <2>3 DEF begin_seek_result
    <3>5. end > 0 /\ end \in {target, target - 1}
      BY <3>4 DEF can_seek_to, seek_end
    <3> HIDE DEF target, end
    <3> QED BY <3>2, <3>3, <3>5
  <2> HIDE DEF s, end, target, pause
  <2>4. Supplied(s, i)
    BY <2>2, WithInputsStocked
  <2>5. DOMAIN i = VFields /\ i.g_movie_inputs = inputs /\ i.seek_to_frame = s.seek_to_frame
    BY <2>2 DEF with_inputs, VFields
  <2> HIDE DEF i
  <2>6. /\ DOMAIN a = VFields /\ Stores(i, a) /\ a.seek_to_frame = i.seek_to_frame
    BY <2>5 DEF Stores, VFields
  <2> HIDE DEF a
  <2>7. Quiet(a, y) /\ y.seek_to_frame = a.seek_to_frame
    <3>1. Quiet(a, y)
      BY <2>6, PausingQuiet
    <3>2. y.seek_to_frame = a.seek_to_frame
      BY <2>6 DEF core_vr_resume_emu, core_vr_resume_emu_impl, VFields
    <3> QED BY <3>1, <3>2
  <2> HIDE DEF y
  <2>8. DOMAIN y = VFields /\ Stores(i, y) /\ y.seek_to_frame = s.seek_to_frame
    BY <2>5, <2>6, <2>7 DEF Quiet, Stores, SameMovie, SameFiles, SameQueues
  <2>9. Stocked(w) => Stocked(y)
    <3>1. Stocked(i) => Stocked(y)
      BY <2>8 DEF Stores, Stocked
    <3> QED BY <2>2, <2>4, <3>1 DEF Supplied
  <2>10. begin_seek_result(w, target, pause) = "Res_Ok" => Warping(y)
    BY <2>2, <2>3, <2>5, <2>8 DEF Warping, Stores
  <2> QED BY <2>1, <2>2, <2>8, <2>9, <2>10 DEF Supplied
<1>6. ASSUME v.g_task = "task_recording", z = warp_seek(w, inputs)
      PROVE  DOMAIN z = VFields /\ (Stocked(v) => Stocked(z)) /\ (Veers(v, z) \/ Warping(z))
  BY <1>3, <1>5, <1>6 DEF Supplied, Veers
<1>7. Supplied(v, v) /\ Supplied(v, w) /\ Supplied(v, with_inputs(w, inputs))
  BY <1>0, <1>3, <1>4, SuppliedItself, SuppliedTransitive
<1>8. DOMAIN z = VFields /\ (Stocked(v) => Stocked(z)) /\ (Veers(v, z) \/ Warping(z))
  BY <1>1, <1>6, <1>7 DEF Supplied
<1> QED BY <1>8 DEF z

\* Before the input of a frame a seek that has reached its target is stopped, and a warp
\* modify with it: a warp modify that goes on has an input for the frame.
LEMMA BeforeInputSupplied ==
    ASSUME NEW v, Engine(v), Begun(v), Warping(v)
    PROVE  LET w == before_input(v)
           IN  /\ Supplied(v, w) /\ Engine(w) /\ Begun(w)
               /\ w.g_task = v.g_task /\ w.g_movie_inputs = v.g_movie_inputs
               /\ w.m_current_sample = v.m_current_sample
               /\ w.g_warp_modify_active => w.m_current_sample < Len(w.g_movie_inputs)
<1> DEFINE x == vcr_stop_seek_if_needed(v)
           y == vcr_handle_starting_tasks(x)
           w == vcr_create_seek_savestates(y)
           s == core_vcr_stop_seek(v)
<1>0. DOMAIN v = VFields /\ v.m_current_sample \in Nat /\ Len(v.g_movie_inputs) \in Nat
  BY DEF Engine, Begun, MovieOK
<1>1. /\ Supplied(v, x) /\ DOMAIN x = VFields /\ x.m_current_sample = v.m_current_sample
      /\ x.g_warp_modify_active => v.m_current_sample < Len(v.g_movie_inputs)
  <2>1. Supplied(v, s) /\ Quiet(v, s) /\ DOMAIN s = VFields
    BY <1>0, PausingSupplied, PausingQuiet DEF Supplied
  <2>2. Supplied(s, core_vr_pause_emu(s)) /\ Quiet(s, core_vr_pause_emu(s))
    BY <2>1, PausingSupplied, PausingQuiet
  <2>3. CASE core_vcr_is_seeking(v) /\ v.m_current_sample >= v.seek_to_frame
    <3>1. x \in {s, core_vr_pause_emu(s)}
      BY <2>3 DEF vcr_stop_seek_if_needed
    <3>2. ~s.g_warp_modify_active
      BY <1>0, <2>3 DEF core_vcr_stop_seek, VFields
    <3>3. Supplied(v, x) /\ Quiet(v, x) /\ Supplied(s, x)
      BY <2>1, <2>2, <3>1, SuppliedTransitive, SuppliedItself, QuietTransitive
    <3> QED BY <3>2, <3>3 DEF Supplied, Veers, Quiet, SamePlace
  <2>4. CASE ~(core_vcr_is_seeking(v) /\ v.m_current_sample >= v.seek_to_frame)
    <3>1. x = v
      BY <2>4 DEF vcr_stop_seek_if_needed
    <3>2. ASSUME v.g_warp_modify_active PROVE v.m_current_sample < Len(v.g_movie_inputs)
      <4>1. v.seek_to_frame \in Nat /\ v.seek_to_frame <= Len(v.g_movie_inputs)
        BY <3>2 DEF Warping
      <4>2. core_vcr_is_seeking(v)
        BY <4>1 DEF core_vcr_is_seeking, NoFrame
      <4>3. ~(v.m_current_sample >= v.seek_to_frame)
        BY <2>4, <4>2
      <4> QED BY <1>0, <4>1, <4>3
    <3> QED BY <1>0, <3>1, <3>2, SuppliedItself
  <2> QED BY <2>3, <2>4
<1> HIDE DEF x
<1>2. Supplied(x, y) /\ DOMAIN y = VFields /\ y.m_current_sample = x.m_current_sample
  <2> DEFINE u == [x EXCEPT !.g_reset_pending = TRUE]
  <2>1. Supplied(x, u) /\ DOMAIN u = VFields
    BY <1>1, PlainSupplied DEF Supplied
  <2>2. y = x \/ \E j : y = submit_task(u, j)
    BY DEF vcr_handle_starting_tasks
  <2>3. u.m_current_sample = x.m_current_sample
    BY <1>1 DEF VFields
  <2> HIDE DEF u
  <2>4. \A j : Supplied(u, submit_task(u, j)) /\ submit_task(u, j).m_current_sample = u.m_current_sample
    BY <2>1, PlainSupplied DEF submit_task, VFields
  <2>5. Supplied(x, y)
    BY <1>1, <2>1, <2>2, <2>4, SuppliedItself, SuppliedTransitive
  <2>6. y.m_current_sample = x.m_current_sample
    BY <2>2, <2>3, <2>4
  <2> QED BY <2>5, <2>6 DEF Supplied
<1> HIDE DEF y
<1>3. Supplied(y, w) /\ w.m_current_sample = y.m_current_sample
  <2> DEFINE p == purge_oldest(y)
  <2>1. Supplied(y, p) /\ DOMAIN p = VFields
    BY <1>2, PurgeSupplied DEF Supplied
  <2>2. p.m_current_sample = y.m_current_sample
    BY <1>2 DEF purge_oldest, VFields
  <2>3. w = y \/ w = st_push(p, StTask("seek_save", y.m_current_sample, NoMovie, NoState))
    BY DEF vcr_create_seek_savestates, vcr_create_n_frame_savestate
  <2> HIDE DEF p, w
  <2>4. Sound(StTask("seek_save", y.m_current_sample, NoMovie, NoState).st)
    BY NothingSound DEF StTask
  <2>5. \A t : st_push(p, t).m_current_sample = p.m_current_sample
    BY <2>1 DEF st_push, VFields
  <2>6. w # y => Supplied(p, w) /\ w.m_current_sample = p.m_current_sample
    BY <2>1, <2>3, <2>4, <2>5, PushSupplied
  <2> QED BY <1>2, <2>1, <2>2, <2>6, SuppliedItself, SuppliedTransitive
<1>4. before_input(v) = w
  BY DEF before_input, x, y
<1> HIDE DEF w
<1>5. Calm(v, w)
  BY <1>4, BeforeInput
<1>6. Supplied(v, w)
  BY <1>1, <1>2, <1>3, SuppliedTransitive
<1>7. w.g_warp_modify_active => w.m_current_sample < Len(w.g_movie_inputs)
  <2>1. w.g_warp_modify_active => x.g_warp_modify_active
    BY <1>2, <1>3 DEF Supplied, Veers
  <2> QED BY <1>1, <1>2, <1>3, <1>5, <2>1 DEF Calm
<1>8. w.m_current_sample = v.m_current_sample
  BY <1>1, <1>2, <1>3
<1> QED BY <1>4, <1>5, <1>6, <1>7, <1>8 DEF Calm

\* An input that is read from the movie is one of its inputs.
LEMMA InputAt ==
    ASSUME NEW v, v.g_movie_inputs \in Seq(Given), NEW i \in Nat, i < Len(v.g_movie_inputs)
    PROVE  input_at(v, i) \in Given
<1>1. i + 1 \in 1 .. Len(v.g_movie_inputs)
  OBVIOUS
<1>2. v.g_movie_inputs[i + 1] \in Given
  BY <1>1
<1> QED BY <1>2 DEF input_at

ButtonsGiven == OutOfRange \notin Buttons \cup {ResetInput}

LEMMA RecordedInput ==
    ASSUME NEW w, Begun(w), w.g_movie_inputs \in Seq(Given), ButtonsGiven,
           w.g_warp_modify_active => w.m_current_sample < Len(w.g_movie_inputs),
           NEW keys \in Buttons
    PROVE  recording_input(w, 0, keys) \in Given
<1>1. w.m_current_sample \in Nat /\ Len(w.g_movie_inputs) \in Nat
  BY DEF Begun
<1>2. ResetInput \in Given /\ keys \in Given
  BY DEF ButtonsGiven, Given, Input
<1>3. ASSUME use_inputs_from_buffer(w, 0)
      PROVE  input_at(w, w.m_current_sample + 0) \in Given
  <2>1. w.m_current_sample + 0 = w.m_current_sample
    BY <1>1
  <2>2. Len(w.g_movie_inputs) > w.m_current_sample
    BY <1>1, <1>3, <2>1 DEF use_inputs_from_buffer
  <2>3. w.m_current_sample < Len(w.g_movie_inputs)
    BY <1>1, <2>2
  <2> QED BY <1>1, <2>1, <2>3, InputAt
<1> QED BY <1>2, <1>3 DEF recording_input

LEMMA RecordingSupplied ==
    ASSUME NEW v, DOMAIN v = VFields, NEW keys, Stocked(v) => recording_input(v, 0, keys) \in Given
    PROVE  Supplied(v, vcr_handle_recording(v, 0, keys))
<1> DEFINE input == recording_input(v, 0, keys)
           m == append_input(v, input)
           x == IF use_inputs_from_buffer(v, 0) THEN v ELSE m
           y == next_sample(x)
           p == [y EXCEPT !.vcr_reset_requested = FALSE]
           u == [p EXCEPT !.g_reset_pending = TRUE]
           z == vcr_handle_recording(v, 0, keys)
<1>1. Supplied(v, m)
  <2> HIDE DEF input
  <2>1. /\ DOMAIN m = VFields /\ Veers(v, m) /\ m.g_tasks = v.g_tasks
        /\ m.g_movie_inputs = Append(v.g_movie_inputs, input)
        /\ m.length_samples = v.length_samples + 1
        /\ m.movies = v.movies /\ m.snapshots = v.snapshots
        /\ m.g_seek_savestates = v.g_seek_savestates
    BY DEF append_input, VFields, Veers
  <2> HIDE DEF m
  <2>2. ASSUME Stocked(v) PROVE m.g_movie_inputs \in Seq(Given) /\ m.length_samples = Len(m.g_movie_inputs)
    <3>1. v.g_movie_inputs \in Seq(Given) /\ v.length_samples = Len(v.g_movie_inputs) /\ input \in Given
      BY <2>2 DEF Stocked, input
    <3> QED BY <2>1, <3>1
  <2> QED BY <2>1, <2>2 DEF Supplied, Stocked
<1>2. \/ z = y \/ \E j : z = submit_task(u, j)
  BY DEF vcr_handle_recording, user_reset
<1> HIDE DEF m, input
<1>3. Supplied(v, x) /\ DOMAIN x = VFields
  BY <1>1, SuppliedItself DEF Supplied
<1> HIDE DEF x, z
<1>4. Supplied(x, y) /\ DOMAIN y = VFields
  BY <1>3, PlainSupplied DEF Supplied
<1> HIDE DEF y
<1>5. Supplied(y, p) /\ DOMAIN p = VFields
  BY <1>4, PlainSupplied DEF Supplied
<1> HIDE DEF p
<1>6. Supplied(p, u) /\ DOMAIN u = VFields
  BY <1>5, PlainSupplied DEF Supplied
<1> HIDE DEF u
<1>7. \A j : Supplied(u, submit_task(u, j))
  BY <1>6, PlainSupplied
<1>8. Supplied(v, y) /\ Supplied(v, u)
  BY <1>3, <1>4, <1>5, <1>6, SuppliedTransitive
<1>9. Supplied(v, z)
  BY <1>2, <1>7, <1>8, SuppliedTransitive
<1> QED BY <1>9 DEF z

LEMMA PlayingSupplied ==
    ASSUME NEW v, DOMAIN v = VFields, v.g_movie_path \in Movies, NEW index
    PROVE  Supplied(v, vcr_handle_playback(v, index))
<1> DEFINE w == pause_at_movie_end(v)
           u == [w EXCEPT !.g_reset_pending = TRUE]
           z == vcr_handle_playback(v, index)
           x == core_vcr_stop_all(w)
<1>1. Supplied(v, w) /\ Quiet(v, w)
  BY PausingSupplied, PausingQuiet, SuppliedItself, QuietSelf DEF pause_at_movie_end
<1>2. \/ z = x
      \/ z = core_vcr_start_playback(x, w.g_movie_path)
      \/ z = next_sample(w)
      \/ \E j : z = next_sample(submit_task(u, j))
  BY DEF vcr_handle_playback, movie_ended, movie_reset
<1> HIDE DEF w, z
<1>3. DOMAIN w = VFields /\ w.g_movie_path \in Movies
  BY <1>1 DEF Quiet, SamePlace
<1>4. Supplied(w, x) /\ DOMAIN x = VFields
  BY <1>3, StopSupplied DEF Supplied
<1> HIDE DEF x
<1>5. Supplied(x, core_vcr_start_playback(x, w.g_movie_path))
  BY <1>3, <1>4, PlaybackSupplied
<1>6. Supplied(w, next_sample(w))
  BY <1>3, PlainSupplied
<1>7. \A j : Supplied(w, next_sample(submit_task(u, j)))
  <2> TAKE j
  <2>1. Supplied(w, u) /\ DOMAIN u = VFields
    BY <1>3, PlainSupplied DEF Supplied
  <2> HIDE DEF u
  <2>2. Supplied(u, submit_task(u, j)) /\ DOMAIN submit_task(u, j) = VFields
    BY <2>1, PlainSupplied DEF Supplied
  <2>3. Supplied(submit_task(u, j), next_sample(submit_task(u, j)))
    BY <2>2, PlainSupplied
  <2> QED BY <2>1, <2>2, <2>3, SuppliedTransitive
<1>a. Supplied(v, x) /\ Supplied(v, next_sample(w))
  BY <1>1, <1>4, <1>6, SuppliedTransitive
<1>b. Supplied(v, core_vcr_start_playback(x, w.g_movie_path))
  BY <1>5, <1>a, SuppliedTransitive
<1>c. \A j : Supplied(v, next_sample(submit_task(u, j)))
  BY <1>1, <1>7, SuppliedTransitive
<1>8. Supplied(v, z)
  BY <1>2, <1>a, <1>b, <1>c
<1> QED BY <1>8 DEF z

\* A poll of the first controller: the movie and the game get inputs that were given.
LEMMA PollSupplied ==
    ASSUME NEW v, Engine(v), Stocked(v), Warping(v), ButtonsGiven, NEW keys \in Buttons
    PROVE  /\ Supplied(v, vcr_on_controller_poll(v, 0, keys))
           /\ polled_input(v, 0, keys) \in Given \cup {NoInput}
<1> DEFINE w == before_input(v)
           z == vcr_on_controller_poll(v, 0, keys)
<1>0. DOMAIN v = VFields
  BY DEF Engine
<1>1. CASE v.g_task = "task_idle"
  <2>1. z = v /\ polled_input(v, 0, keys) = NoInput
    BY <1>1 DEF vcr_on_controller_poll, polled_input
  <2> QED BY <1>0, <2>1, SuppliedItself
<1>2. CASE v.g_task # "task_idle"
  <2>1. Begun(v)
    BY <1>2 DEF Engine, BegunOK
  <2>2. /\ Supplied(v, w) /\ Engine(w) /\ Begun(w)
        /\ w.g_task = v.g_task /\ w.g_movie_inputs = v.g_movie_inputs
        /\ w.m_current_sample = v.m_current_sample
        /\ w.g_warp_modify_active => w.m_current_sample < Len(w.g_movie_inputs)
    BY <2>1, BeforeInputSupplied
  <2>3. \/ z = v
        \/ w.g_task = "task_recording" /\ z = vcr_handle_recording(w, 0, keys)
        \/ w.g_task = "task_playback" /\ z = vcr_handle_playback(w, 0)
        \/ z = w
    BY DEF vcr_on_controller_poll
  <2>4. polled_input(v, 0, keys) \in {NoInput, recording_input(w, 0, keys)}
        \/ /\ ~playback_ended(v)
           /\ polled_input(v, 0, keys) = playback_input(v, 0)
    BY DEF polled_input
  <2> HIDE DEF w, z
  <2>5. DOMAIN w = VFields /\ w.g_movie_path \in Movies /\ w.g_movie_inputs \in Seq(Given)
    BY <2>2 DEF Engine, Begun, Stocked
  <2>6. recording_input(w, 0, keys) \in Given
    BY <2>2, <2>5, RecordedInput
  <2>7. Supplied(w, vcr_handle_recording(w, 0, keys)) /\ Supplied(w, vcr_handle_playback(w, 0))
    BY <2>5, <2>6, RecordingSupplied, PlayingSupplied
  <2>8. Supplied(v, z)
    BY <1>0, <2>2, <2>3, <2>7, SuppliedItself, SuppliedTransitive
  <2>9. ~playback_ended(v) => playback_input(v, 0) \in Given
    <3>1. /\ v.m_current_sample \in Nat /\ v.g_movie_inputs \in Seq(Given)
          /\ v.length_samples = Len(v.g_movie_inputs) /\ Len(v.g_movie_inputs) \in Nat
      BY <2>1 DEF Begun, Stocked
    <3>2. v.m_current_sample + 0 = v.m_current_sample
      BY <3>1
    <3>3. ~playback_ended(v) => v.m_current_sample < Len(v.g_movie_inputs)
      BY <3>1 DEF playback_ended
    <3> QED BY <3>1, <3>2, <3>3, InputAt DEF playback_input
  <2> QED BY <2>4, <2>6, <2>8, <2>9 DEF z
<1> QED BY <1>1, <1>2

\* A savestate is made of a movie whose current sample lies beyond its end: the savestate
\* claims more samples than it has inputs.
FrozenBeyond ==
    /\ working /\ next' = next + 1 /\ vcr.g_tasks[next].what \in SaveTasks
    /\ vcr.g_task # "task_idle"
    /\ vcr.m_current_sample > Len(vcr.g_movie_inputs)

\* The inputs are replaced while a warp modify waits for its target: the seek, which no
\* stop of a movie ends, then leads beyond the end of another movie.
InputsReplaced ==
    /\ vcr.g_warp_modify_active /\ vcr'.g_warp_modify_active
    /\ vcr'.g_movie_inputs # vcr.g_movie_inputs

AllGiven ==
    Stocked(vcr) /\ Warping(vcr) /\ machine \in Machines /\ Sound(slot) /\ channel = 0

LEMMA SuppliedStep ==
    ASSUME AllGiven, Supplied(vcr, vcr'), ~InputsReplaced PROVE Stocked(vcr') /\ Warping(vcr')
  BY DEF AllGiven, Supplied, Veers, Warping, InputsReplaced

LEMMA DoneSupplied ==
    ASSUME NEW v, DOMAIN v = VFields, NEW t, NEW st, Stocked(v) => Sound(st)
    PROVE  Supplied(v, task_done(v, t, st))
<1> DEFINE F == [f \in DOMAIN v.g_seek_savestates \cup {t.frame} |->
                   IF f = t.frame THEN st ELSE v.g_seek_savestates[f]]
<1>1. task_done(v, t, st) \in {v, [v EXCEPT !.g_seek_savestate_loading = FALSE],
         [v EXCEPT !.g_seek_savestates = F], set_task(v, "task_recording"),
         set_task(v, "task_playback")}
  BY DEF task_done
<1>2. Stocked(v) => \A f \in DOMAIN F : Sound(F[f])
  BY DEF Stocked
<1> HIDE DEF F
<1>3. Supplied(v, [v EXCEPT !.g_seek_savestates = F])
  BY <1>2, SavestatesSupplied
<1> QED BY <1>1, <1>3, PlainSupplied, SuppliedItself

LEMMA FailureSupplied ==
    ASSUME NEW v, DOMAIN v = VFields, NEW t PROVE Supplied(v, task_failed(v, t))
<1> DEFINE s == [v EXCEPT !.g_seek_savestate_loading = FALSE]
<1>1. task_failed(v, t) \in {v, core_vcr_stop_all(v), core_vcr_stop_seek(s)}
  BY DEF task_failed
<1>2. Supplied(v, s) /\ DOMAIN s = VFields
  BY PlainSupplied DEF Supplied
<1> HIDE DEF s
<1>3. Supplied(v, core_vcr_stop_seek(s))
  BY <1>2, PausingSupplied, SuppliedTransitive
<1> QED BY <1>1, <1>3, StopSupplied, SuppliedItself

\* A savestate of the movie, made within it.
LEMMA SavestateSound ==
    ASSUME Inv, AllGiven,
           vcr.g_task # "task_idle" => vcr.m_current_sample <= Len(vcr.g_movie_inputs)
    PROVE  Sound(savestate(vcr))
<1> DEFINE st == savestate(vcr)
<1>1. /\ st.machine = machine
      /\ st.freeze.input_buffer = resize(vcr.g_movie_inputs, vcr.length_samples)
      /\ st.freeze.is_movie = (vcr.g_task # "task_idle")
      /\ st.freeze.current_sample = vcr.m_current_sample
  BY DEF savestate, core_vcr_freeze
<1>2. resize(vcr.g_movie_inputs, vcr.length_samples) = vcr.g_movie_inputs
  BY ResizedToLength DEF Inv, Engine, MovieOK
<1> HIDE DEF st
<1>3. Sound(st)
  BY <1>1, <1>2 DEF Sound, AllGiven, Stocked
<1> QED BY <1>3 DEF st

LEMMA SaveGiven ==
    ASSUME Inv, AllGiven, NEW t, savestates_save_immediate_impl(t), Sound(savestate(vcr))
    PROVE  Supplied(vcr, vcr') /\ machine' \in Machines /\ Sound(slot')
<1> DEFINE v == write_movie(vcr)
           st == savestate(vcr)
           y == [v EXCEPT !.snapshots[t.path] = st]
<1>0. DOMAIN vcr = VFields
  BY DEF Inv, Engine
<1>1. /\ vcr' \in {task_done(v, t, st), task_done(y, t, st), task_failed(v, t)}
      /\ slot' \in {st, slot} /\ machine' = machine
  BY DEF savestates_save_immediate_impl
<1>2. Supplied(vcr, v) /\ DOMAIN v = VFields
  BY <1>0, WriteSupplied DEF Supplied
<1>3. Sound(st)
  OBVIOUS
<1> HIDE DEF v, st
<1>4. Supplied(v, y) /\ DOMAIN y = VFields
  <2>1. /\ DOMAIN y = VFields /\ Veers(v, y) /\ y.g_tasks = v.g_tasks
        /\ y.g_movie_inputs = v.g_movie_inputs /\ y.length_samples = v.length_samples
        /\ y.movies = v.movies /\ y.snapshots = [v.snapshots EXCEPT ![t.path] = st]
        /\ y.g_seek_savestates = v.g_seek_savestates
    BY <1>2 DEF VFields, Veers
  <2> HIDE DEF y
  <2> QED BY <1>3, <2>1 DEF Supplied, Stocked
<1> HIDE DEF y
<1>5. Supplied(v, task_done(v, t, st)) /\ Supplied(y, task_done(y, t, st))
  BY <1>2, <1>3, <1>4, DoneSupplied
<1>6. Supplied(v, task_failed(v, t))
  BY <1>2, FailureSupplied
<1>7. Supplied(vcr, y)
  BY <1>2, <1>4, SuppliedTransitive
<1>8. Supplied(vcr, vcr')
  BY <1>1, <1>2, <1>5, <1>6, <1>7, SuppliedTransitive
<1> QED BY <1>1, <1>3, <1>8 DEF AllGiven

LEMMA LoadGiven ==
    ASSUME Inv, AllGiven, NEW t, NamesSnapshot(t), Frozen(t.st), Sound(t.st),
           savestates_load_immediate_impl(t)
    PROVE  Supplied(vcr, vcr') /\ machine' \in Machines /\ Sound(slot')
<1> DEFINE st == task_buffer(t)
           u == unfrozen(st)
<1>0. DOMAIN vcr = VFields /\ Engine(vcr) /\ Frozen(slot) /\ slot' = slot
  BY DEF Inv, Engine, savestates_load_immediate_impl
<1>1. \/ vcr' = task_failed(vcr, t) /\ machine' = machine
      \/ st # NoState /\ vcr' = task_failed(u, t) /\ machine' = machine
      \/ st # NoState /\ vcr' = task_done(u, t, st) /\ machine' = st.machine
  BY DEF savestates_load_immediate_impl
<1>2. Frozen(st) /\ Sound(st)
  <2>1. t.what \in LoadTasks
    BY DEF savestates_load_immediate_impl
  <2>2. t.what \in {"record_existing", "playback_snapshot"} =>
           Frozen(vcr.snapshots[t.path]) /\ Sound(vcr.snapshots[t.path])
    BY <1>0 DEF NamesSnapshot, Engine, FilesOK, AllGiven, Stocked
  <2> QED BY <1>0, <2>1, <2>2 DEF task_buffer, LoadTasks, AllGiven
<1>3. st # NoState => Supplied(vcr, u) /\ DOMAIN u = VFields
  <2>1. CASE st # NoState /\ st.freeze.is_movie
    <3>1. u = core_vcr_unfreeze(vcr, st.freeze)
      BY <2>1 DEF unfrozen
    <3> HIDE DEF u, st
    <3>2. Supplied(vcr, core_vcr_unfreeze(vcr, st.freeze))
      BY <1>0, <1>2, <2>1, UnfreezeSupplied
    <3> QED BY <3>1, <3>2 DEF Supplied
  <2>2. CASE st # NoState /\ ~st.freeze.is_movie
    <3>1. u = vcr
      BY <2>2 DEF unfrozen
    <3> QED BY <1>0, <3>1, SuppliedItself
  <2> QED BY <2>1, <2>2
<1> HIDE DEF st, u
<1>4. Supplied(vcr, task_failed(vcr, t))
  BY <1>0, FailureSupplied
<1>5. ASSUME st # NoState
      PROVE  /\ Supplied(vcr, task_failed(u, t)) /\ Supplied(vcr, task_done(u, t, st))
             /\ st.machine \in Machines
  <2>1. Supplied(u, task_failed(u, t)) /\ Supplied(u, task_done(u, t, st))
    BY <1>2, <1>3, <1>5, FailureSupplied, DoneSupplied
  <2> QED BY <1>2, <1>3, <1>5, <2>1, SuppliedTransitive DEF Sound
<1> QED BY <1>0, <1>1, <1>4, <1>5 DEF AllGiven

LEMMA TaskGiven ==
    ASSUME Inv, AllGiven, st_do_work_task, ~FrozenBeyond
    PROVE  Supplied(vcr, vcr') /\ machine' \in Machines /\ Sound(slot')
<1> DEFINE t == vcr.g_tasks[next]
<1>1. /\ working /\ next' = next + 1 /\ next \in 1 .. Len(vcr.g_tasks)
      /\ savestates_save_immediate_impl(t) \/ savestates_load_immediate_impl(t)
  <2>1. next \in Nat \ {0} /\ Len(vcr.g_tasks) \in Nat
    BY DEF Inv, Engine, TasksOK, IsSeq
  <2> QED BY <2>1 DEF st_do_work_task
<1>2. CASE savestates_save_immediate_impl(t)
  <2>1. t.what \in SaveTasks
    BY <1>2 DEF savestates_save_immediate_impl
  <2>2. ASSUME vcr.g_task # "task_idle" PROVE vcr.m_current_sample <= Len(vcr.g_movie_inputs)
    <3>1. ~(vcr.m_current_sample > Len(vcr.g_movie_inputs))
      BY <1>1, <2>1, <2>2 DEF FrozenBeyond
    <3>2. vcr.m_current_sample \in Nat /\ Len(vcr.g_movie_inputs) \in Nat
      BY <2>2 DEF Inv, Engine, BegunOK, Begun, MovieOK
    <3> QED BY <3>1, <3>2
  <2> QED BY <1>2, <2>2, SavestateSound, SaveGiven
<1>3. CASE savestates_load_immediate_impl(t)
  <2>1. NamesSnapshot(t) /\ Frozen(t.st)
    BY <1>1, TaskAtHand
  <2>2. Sound(t.st)
    BY <1>1 DEF AllGiven, Stocked
  <2> QED BY <1>3, <2>1, <2>2, LoadGiven
<1> QED BY <1>1, <1>2, <1>3

\* The machine that has been given an input of the movie, or one that no movie knows of.
LEMMA Consumed ==
    ASSUME NEW m \in Machines, NEW input \in Given \cup {NoInput} PROVE consume(m, input) \in Machines
<1>1. Unknown \in Machines
  <2>1. << >> \in Seq(Given)
    OBVIOUS
  <2> QED BY <2>1 DEF Unknown, Machines
<1>2. ASSUME input \in Given PROVE [m EXCEPT !.inputs = Append(@, input)] \in Machines
  <2>1. m.inputs \in Seq(Given)
    BY DEF Machines
  <2>2. Append(m.inputs, input) \in Seq(Given)
    BY <1>2, <2>1
  <2> QED BY <2>2 DEF Machines
<1> QED BY <1>1, <1>2 DEF consume

LEMMA EmuThreadGiven ==
    ASSUME Inv, AllGiven, EmuThread, ~FrozenBeyond, ButtonsGiven, Controllers = 1
    PROVE  Supplied(vcr, vcr') /\ machine' \in Machines /\ Sound(slot') /\ channel' = 0
<1>0. /\ DOMAIN vcr = VFields /\ Engine(vcr) /\ Supplied(vcr, vcr)
      /\ machine \in Machines /\ Sound(slot) /\ channel = 0
  BY SuppliedItself DEF Inv, Engine, AllGiven
<1>1. CASE update_pif_read
  <2> DEFINE x == [vcr EXCEPT !.frame_advance_outstanding = 0]
             y == [vcr EXCEPT !.frame_advance_outstanding = vcr.frame_advance_outstanding - 1]
  <2>1. vcr' \in {vcr, y, core_vr_pause_emu(x)} /\ UNCHANGED <<machine, slot, channel>>
    BY <1>1 DEF update_pif_read, advance_frame
  <2>2. Supplied(vcr, x) /\ Supplied(vcr, y) /\ DOMAIN x = VFields
    BY <1>0, PlainSupplied DEF Supplied
  <2> HIDE DEF x, y
  <2>3. Supplied(vcr, core_vr_pause_emu(x))
    BY <2>2, PausingSupplied, SuppliedTransitive
  <2> QED BY <1>0, <2>1, <2>2, <2>3
<1>2. CASE pif_resumed \/ pif_no_work
  BY <1>0, <1>2 DEF pif_resumed, pif_no_work
<1>3. CASE st_do_work_begin
  <2>1. vcr' \in {vcr, write_movie(vcr)} /\ UNCHANGED <<machine, slot, channel>>
    BY <1>3 DEF st_do_work_begin
  <2> QED BY <1>0, <2>1, WriteSupplied
<1>4. CASE st_do_work_task
  <2>1. channel' = channel
    BY <1>4 DEF st_do_work_task
  <2> QED BY <1>0, <1>4, <2>1, TaskGiven
<1>5. CASE st_do_work_end \/ emu_thread_ends
  <2>1. /\ \/ vcr' = [vcr EXCEPT !.g_tasks = << >>]
           \/ vcr' = [vcr EXCEPT !.core_executing = FALSE, !.emu_paused = TRUE, !.g_tasks = << >>]
        /\ UNCHANGED <<machine, slot>> /\ channel' \in {0, channel}
    BY <1>5 DEF st_do_work_end, emu_thread_ends
  <2>2. /\ DOMAIN vcr' = VFields /\ Veers(vcr, vcr') /\ vcr'.g_tasks = << >>
        /\ vcr'.g_movie_inputs = vcr.g_movie_inputs /\ vcr'.length_samples = vcr.length_samples
        /\ vcr'.movies = vcr.movies /\ vcr'.snapshots = vcr.snapshots
        /\ vcr'.g_seek_savestates = vcr.g_seek_savestates
    BY <1>0, <2>1 DEF VFields, Veers
  <2>3. IsSeq(<< >>) /\ Len(<< >>) = 0
    BY EmptyQueues DEF TasksOK
  <2>4. Supplied(vcr, vcr')
    BY <2>2, <2>3 DEF Supplied, Stocked
  <2> QED BY <1>0, <2>1, <2>4
<1>6. CASE internal_ReadController
  <2>1. PICK keys \in Buttons : /\ vcr' = vcr_on_controller_poll(vcr, channel, keys)
                                /\ machine' = consume(machine, polled_input(vcr, channel, keys))
    BY <1>6 DEF internal_ReadController
  <2>2. slot' = slot /\ channel' = 0
    BY <1>0, <1>6 DEF internal_ReadController
  <2>3. Supplied(vcr, vcr') /\ polled_input(vcr, 0, keys) \in Given \cup {NoInput}
    BY <1>0, <2>1, PollSupplied DEF AllGiven
  <2> QED BY <1>0, <2>1, <2>2, <2>3, Consumed
<1> QED BY <1>1, <1>2, <1>3, <1>4, <1>5, <1>6 DEF EmuThread

LEMMA WorkersGiven ==
    ASSUME Inv, AllGiven, Workers
    PROVE  Supplied(vcr, vcr') /\ machine' \in Machines /\ Sound(slot') /\ channel' = 0
<1>0. /\ DOMAIN vcr = VFields /\ Engine(vcr) /\ Supplied(vcr, vcr)
      /\ machine \in Machines /\ Sound(slot) /\ channel = 0
  BY SuppliedItself DEF Inv, Engine, AllGiven
<1>1. ASSUME NEW i \in 1 .. Len(vcr.jobs), job_load(i)
      PROVE  Supplied(vcr, vcr') /\ UNCHANGED <<machine, slot, channel>>
  <2> DEFINE j == vcr.jobs[i]
             a == without_job(vcr, i)
             F == [f \in DOMAIN a.g_seek_savestates \cup {j.frame} |->
                     IF f = j.frame THEN seek_savestate_at(a, j.frame) ELSE a.g_seek_savestates[f]]
             b == touch_seek_savestate(a, j.frame)
             u == IF j.what = "seek_load" THEN b ELSE a
             t == job_task(vcr, j)
  <2>1. vcr' \in {st_push(u, t), task_failed(u, t)} /\ UNCHANGED <<machine, slot, channel>>
    BY <1>1 DEF job_load
  <2>2. Supplied(vcr, a) /\ DOMAIN a = VFields
    <3>1. \A k : Supplied(vcr, without_job(vcr, k))
      BY <1>0, PlainSupplied
    <3>2. Supplied(vcr, a)
      BY <3>1
    <3> QED BY <3>2 DEF Supplied
  <2>3. \A v, key : Stocked(v) => Sound(seek_savestate_at(v, key))
    BY NothingSound DEF Stocked, seek_savestate_at
  <2>4. Sound(t.st)
    BY <2>3, RequestFields DEF job_task, AllGiven
  <2> HIDE DEF a, t, j
  <2>5. Supplied(a, b)
    <3>1. Stocked(a) => \A f \in DOMAIN F : Sound(F[f])
      BY <2>3 DEF Stocked
    <3>2. b = [a EXCEPT !.g_seek_savestates = F]
      BY <2>2 DEF touch_seek_savestate, VFields
    <3> HIDE DEF F, b
    <3> QED BY <2>2, <3>1, <3>2, SavestatesSupplied
  <2>6. Supplied(vcr, u) /\ DOMAIN u = VFields
    BY <2>2, <2>5, SuppliedTransitive DEF Supplied
  <2> HIDE DEF u
  <2>7. Supplied(u, st_push(u, t)) /\ Supplied(u, task_failed(u, t))
    BY <2>4, <2>6, PushSupplied, FailureSupplied
  <2> QED BY <2>1, <2>6, <2>7, SuppliedTransitive
<1>2. ASSUME NEW i \in 1 .. Len(vcr.jobs), vr_reset_rom_impl(i) \/ vr_close_rom_impl(i)
      PROVE  Supplied(vcr, vcr') /\ UNCHANGED <<machine, slot, channel>>
  <2> DEFINE u == without_job(vcr, i)
             a == [u EXCEPT !.vcr_reset_requested = TRUE]
             b == stop_frame_advance(u)
  <2>1. /\ \/ vcr' \in {u, a}
           \/ \E x \in {u, b} : \E what : vcr' = close_rom(x, what)
        /\ UNCHANGED <<machine, slot, channel>>
    BY <1>2 DEF vr_reset_rom_impl, vr_close_rom_impl
  <2>2. Supplied(vcr, u) /\ DOMAIN u = VFields
    <3>1. \A k : Supplied(vcr, without_job(vcr, k))
      BY <1>0, PlainSupplied
    <3>2. Supplied(vcr, u)
      BY <3>1
    <3> QED BY <3>2 DEF Supplied
  <2> HIDE DEF u
  <2>3. Supplied(u, a) /\ Supplied(u, b) /\ DOMAIN b = VFields
    BY <2>2, PlainSupplied, PausingSupplied DEF Supplied
  <2> HIDE DEF a, b
  <2>4. ASSUME NEW x, DOMAIN x = VFields, NEW what PROVE Supplied(x, close_rom(x, what))
    <3> DEFINE r == core_vr_resume_emu_impl(x, TRUE)
    <3>1. Supplied(x, r) /\ DOMAIN r = VFields
      BY <2>4, PausingSupplied DEF Supplied
    <3>2. close_rom(x, what) \in {r, core_vcr_stop_all(r)}
      BY DEF close_rom
    <3> HIDE DEF r
    <3> QED BY <3>1, <3>2, StopSupplied, SuppliedTransitive
  <2>5. Supplied(vcr, a) /\ Supplied(vcr, b)
    BY <2>2, <2>3, SuppliedTransitive
  <2>6. \A x \in {u, b} : \A what : Supplied(vcr, close_rom(x, what))
    BY <2>2, <2>3, <2>4, <2>5, SuppliedTransitive
  <2> QED BY <2>1, <2>2, <2>5, <2>6
<1>3. CASE vr_start_rom_impl
  <2>1. /\ vcr' \in {vcr, [vcr EXCEPT !.core_executing = TRUE, !.emu_paused = FALSE]}
        /\ machine' \in {machine, Boot} /\ UNCHANGED <<slot, channel>>
    BY <1>3 DEF vr_start_rom_impl
  <2>2. DOMAIN vcr' = VFields /\ Stores(vcr, vcr') /\ Veers(vcr, vcr')
    BY <1>0, <2>1 DEF VFields, Stores, Veers
  <2>3. Boot \in Machines
    <3>1. << >> \in Seq(Given)
      OBVIOUS
    <3> QED BY <3>1 DEF Boot, Machines
  <2> QED BY <1>0, <2>1, <2>2, <2>3, StoresSupplied
<1>4. CASE rom_closed
  BY <1>0, <1>4 DEF rom_closed
<1>5. CASE reset_callback
  <2> DEFINE n == no_reset_pending(vcr)
  <2>1. /\ vcr' \in {vcr, n, started(n, "task_recording"), started(n, "task_playback"),
                     core_vcr_stop_all(n)}
        /\ UNCHANGED <<machine, slot, channel>>
    BY <1>5 DEF reset_callback, reset_done, reset_failed
  <2>2. Supplied(vcr, n) /\ DOMAIN n = VFields
    BY <1>0, PausingSupplied DEF Supplied
  <2> HIDE DEF n
  <2>3. /\ Supplied(n, started(n, "task_recording")) /\ Supplied(n, started(n, "task_playback"))
        /\ Supplied(n, core_vcr_stop_all(n))
    BY <2>2, PlainSupplied, StopSupplied
  <2> QED BY <1>0, <2>1, <2>2, <2>3, SuppliedTransitive
<1>6. ASSUME NEW i \in 1 .. Len(vcr.jobs), job_load(i) \/ vr_reset_rom_impl(i) \/ vr_close_rom_impl(i)
      PROVE  Supplied(vcr, vcr') /\ machine' \in Machines /\ Sound(slot') /\ channel' = 0
  BY <1>0, <1>1, <1>2, <1>6
<1> QED BY <1>3, <1>4, <1>5, <1>6 DEF Workers

\* An edit of given inputs is a sequence of given inputs.
LEMMA EditGiven ==
    ASSUME ButtonsGiven, NEW s \in Seq(Given), NEW e \in edits(s) PROVE e \in Seq(Given)
<1>0. Buttons \subseteq Given
  BY DEF ButtonsGiven, Given, Input
<1>1. ASSUME NEW i \in scene.first_edit + 1 .. Len(s), NEW b \in Buttons, e = [s EXCEPT ![i] = b]
      PROVE  e \in Seq(Given)
  <2>1. s \in [1 .. Len(s) -> Given] /\ Len(s) \in Nat
    OBVIOUS
  <2>2. e \in [1 .. Len(s) -> Given]
    BY <1>0, <1>1, <2>1
  <2> QED BY <2>1, <2>2, SeqDef
<1>2. ASSUME NEW n \in scene.first_edit + 1 .. Len(s), e = SubSeq(s, 1, n)
      PROVE  e \in Seq(Given)
  <2>1. n \in Int /\ n <= Len(s)
    OBVIOUS
  <2>2. CASE n < 1
    BY <1>2, <2>1, <2>2
  <2>3. CASE n >= 1
    BY <1>2, <2>1, <2>3
  <2> QED BY <2>1, <2>2, <2>3
<1>3. ASSUME NEW b \in Buttons, e = Append(s, b) PROVE e \in Seq(Given)
  BY <1>0, <1>3
<1> QED BY <1>1, <1>2, <1>3 DEF edits

LEMMA UserGiven ==
    ASSUME Inv, AllGiven, User, ButtonsGiven
    PROVE  /\ DOMAIN vcr' = VFields /\ Stocked(vcr') /\ (Veers(vcr, vcr') \/ Warping(vcr'))
           /\ UNCHANGED <<machine, slot, channel>>
<1>e. Engine(vcr) /\ DOMAIN vcr = VFields /\ Stocked(vcr) /\ Warping(vcr)
  BY DEF Inv, Engine, AllGiven
<1>u. \A op, v : user(op, v) => vcr' = v /\ UNCHANGED <<machine, slot, channel>>
  BY DEF user
<1> DEFINE Goal == /\ DOMAIN vcr' = VFields /\ Stocked(vcr') /\ (Veers(vcr, vcr') \/ Warping(vcr'))
                   /\ UNCHANGED <<machine, slot, channel>>
<1>s. \A op, v : Supplied(vcr, v) /\ user(op, v) => Goal
  BY <1>e, <1>u DEF Supplied
<1>1. ASSUME NEW path \in Movies, NEW flags \in StartFlags, user_start_record(path, flags)
      PROVE  Goal
  <2>1. Supplied(vcr, core_vcr_start_record(vcr, path, flags, recordings + 2))
    BY <1>e, RecordSupplied
  <2>2. user(flags, core_vcr_start_record(vcr, path, flags, recordings + 2))
    BY <1>1 DEF user_start_record
  <2> HIDE DEF Goal
  <2> QED BY <1>s, <2>1, <2>2
<1>d. ASSUME NEW path \in Movies, user_declines_record(path) PROVE Goal
  <2> DEFINE x == core_vcr_stop_all(vcr)
             w == [x EXCEPT !.g_movie_path = path]
  <2>1. Supplied(vcr, x) /\ DOMAIN x = VFields
    BY <1>e, StopSupplied DEF Supplied
  <2>2. user("decline", w)
    BY <1>d DEF user_declines_record, core_vcr_start_record_declined
  <2> HIDE DEF x
  <2>3. DOMAIN w = VFields /\ Stores(x, w) /\ Veers(x, w)
    BY <2>1 DEF Stores, Veers, VFields
  <2> HIDE DEF w, Goal
  <2>4. Supplied(x, w)
    BY <2>1, <2>3, StoresSupplied
  <2> QED BY <1>s, <2>1, <2>2, <2>4, SuppliedTransitive
<1>2. ASSUME NEW path \in Movies, user_start_playback(path) PROVE Goal
  <2>1. Supplied(vcr, core_vcr_start_playback(vcr, path))
    BY <1>e, PlaybackSupplied
  <2>2. user("play", core_vcr_start_playback(vcr, path))
    BY <1>2 DEF user_start_playback
  <2> HIDE DEF Goal
  <2> QED BY <1>s, <2>1, <2>2
<1>3. ASSUME user_stop_all PROVE Goal
  <2> HIDE DEF Goal
  <2> QED BY <1>e, <1>s, <1>3, StopSupplied DEF user_stop_all
<1>4. ASSUME NEW frame, NEW pause, user_begin_seek(frame, pause) PROVE Goal
  <2>1. Supplied(vcr, core_vcr_begin_seek(vcr, frame, pause))
    BY <1>e, SeekSupplied DEF core_vcr_begin_seek
  <2>2. user("seek", core_vcr_begin_seek(vcr, frame, pause))
    BY <1>4 DEF user_begin_seek
  <2> HIDE DEF Goal
  <2> QED BY <1>s, <2>1, <2>2
<1>5. ASSUME user_stop_seek PROVE Goal
  <2> HIDE DEF Goal
  <2> QED BY <1>e, <1>s, <1>5, PausingSupplied DEF user_stop_seek
<1>6. ASSUME NEW inputs \in edits(vcr.g_movie_inputs), user_begin_warp_modify(inputs)
      PROVE  Goal
  <2> DEFINE z == core_vcr_begin_warp_modify(vcr, inputs)
  <2>1. inputs \in Seq(Given)
    BY <1>e, EditGiven DEF Stocked
  <2>2. DOMAIN z = VFields /\ (Stocked(vcr) => Stocked(z)) /\ (Veers(vcr, z) \/ Warping(z))
    BY <1>e, <2>1, WarpSupplied
  <2>3. vcr' = z /\ UNCHANGED <<machine, slot, channel>>
    BY <1>u, <1>6 DEF user_begin_warp_modify
  <2> HIDE DEF z
  <2> QED BY <1>e, <2>2, <2>3
<1>7. ASSUME NEW what, user_savestate(what) PROVE Goal
  <2> DEFINE t == StTask(what, 0, NoMovie, NoState)
  <2>1. Sound(t.st)
    BY NothingSound DEF StTask
  <2>2. user(what, st_push(vcr, t))
    BY <1>7 DEF user_savestate
  <2> HIDE DEF t, Goal
  <2>3. Supplied(vcr, st_push(vcr, t))
    BY <1>e, <2>1, PushSupplied
  <2> QED BY <1>s, <2>2, <2>3
<1>8. ASSUME user_pause PROVE Goal
  <2>1. /\ Supplied(vcr, core_vr_pause_emu(vcr)) /\ Supplied(vcr, core_vr_resume_emu(vcr))
        /\ Supplied(vcr, core_vr_frame_advance(vcr, 1))
    BY <1>e, PausingSupplied
  <2> HIDE DEF Goal
  <2> QED BY <1>s, <1>8, <2>1 DEF user_pause
<1>9. ASSUME user_toggle_readonly PROVE Goal
  <2>1. Supplied(vcr, [vcr EXCEPT !.vcr_readonly = ~vcr.vcr_readonly])
    BY <1>e, PlainSupplied
  <2>2. user("readonly", [vcr EXCEPT !.vcr_readonly = ~vcr.vcr_readonly])
    BY <1>9 DEF user_toggle_readonly
  <2> HIDE DEF Goal
  <2> QED BY <1>s, <2>1, <2>2
<1>10. ASSUME user_reset_rom PROVE Goal
  <2>1. \E op, j : user(op, submit_task(vcr, j))
    BY <1>10 DEF user_reset_rom
  <2>2. \A j : Supplied(vcr, submit_task(vcr, j))
    BY <1>e, PlainSupplied
  <2> HIDE DEF Goal
  <2> QED BY <1>s, <2>1, <2>2
<1> QED BY <1>1, <1>2, <1>d, <1>3, <1>4, <1>5, <1>6, <1>7, <1>8, <1>9, <1>10 DEF User

LEMMA GivenStep ==
    ASSUME Inv, AllGiven, [Next]_vars, [~FrozenBeyond /\ ~InputsReplaced]_vars,
           ButtonsGiven, Controllers = 1
    PROVE  AllGiven'
<1>1. CASE UNCHANGED vars
  BY <1>1 DEF vars, AllGiven
<1>2. CASE Next /\ ~FrozenBeyond /\ ~InputsReplaced
  <2>1. CASE EmuThread \/ Workers
    <3>1. Supplied(vcr, vcr') /\ machine' \in Machines /\ Sound(slot') /\ channel' = 0
      BY <1>2, <2>1, EmuThreadGiven, WorkersGiven
    <3>2. Stocked(vcr') /\ Warping(vcr')
      BY <1>2, <3>1, SuppliedStep
    <3> QED BY <3>1, <3>2 DEF AllGiven
  <2>2. CASE User
    <3>1. /\ DOMAIN vcr' = VFields /\ Stocked(vcr') /\ (Veers(vcr, vcr') \/ Warping(vcr'))
          /\ UNCHANGED <<machine, slot, channel>>
      BY <2>2, UserGiven
    <3>2. Veers(vcr, vcr') => Warping(vcr')
      BY <1>2, <3>1, SuppliedStep DEF Supplied
    <3> QED BY <3>1, <3>2 DEF AllGiven
  <2> QED BY <1>2, <2>1, <2>2 DEF Next
<1> QED BY <1>1, <1>2

\* The movie files of the scenarios hold inputs.
FilesGiven ==
    \A s \in Scenarios : \A file \in s.files : file # NoMovie => file.inputs \in Seq(Given)

LEMMA InitGiven == ASSUME Init, FilesGiven PROVE AllGiven
<1>1. PICK files \in [Movies -> scene.files] : \E chts :
         vcr = InitialVcr(scene.cfg, files, [p \in Movies |->
                    IF files[p] = NoMovie THEN NoState
                    ELSE IF files[p].startFlags # "MOVIE_START_FROM_SNAPSHOT" THEN NoState
                    ELSE [machine |-> Snapshot,
                          freeze |-> [is_movie |-> TRUE, uid |-> files[p].uid,
                                      current_sample |-> 0, length_samples |-> 0,
                                      input_buffer |-> << >>]]], chts)
  BY DEF Init
<1> DEFINE snap(p) == [machine |-> Snapshot,
                       freeze |-> [is_movie |-> TRUE, uid |-> files[p].uid,
                                   current_sample |-> 0, length_samples |-> 0,
                                   input_buffer |-> << >>]]
<1>2. /\ vcr.g_movie_inputs = << >> /\ vcr.length_samples = 0 /\ vcr.movies = files
      /\ vcr.g_seek_savestates = << >> /\ vcr.g_tasks = << >>
      /\ vcr.g_warp_modify_active = FALSE
      /\ DOMAIN vcr.snapshots = Movies
      /\ \A p \in Movies : vcr.snapshots[p] \in {NoState, snap(p)}
  BY <1>1 DEF InitialVcr
<1>3. << >> \in Seq(Given) /\ Len(<< >>) = 0 /\ DOMAIN << >> = {} /\ IsSeq(<< >>)
  BY EmptyQueues DEF TasksOK
<1>4. Boot \in Machines /\ Snapshot \in Machines
  BY <1>3 DEF Boot, Snapshot, Machines
<1>5. \A p : Sound(snap(p))
  <2> TAKE p
  <2>1. /\ snap(p).machine = Snapshot /\ snap(p).freeze.input_buffer = << >>
        /\ snap(p).freeze.current_sample = 0
    OBVIOUS
  <2> HIDE DEF snap
  <2> QED BY <1>3, <1>4, <2>1 DEF Sound
<1> HIDE DEF snap
<1>6. \A p \in Movies : files[p] # NoMovie => files[p].inputs \in Seq(Given)
  <2>1. scene \in Scenarios
    BY DEF Init
  <2> QED BY <1>1, <2>1 DEF FilesGiven
<1>7. Stocked(vcr)
  BY <1>2, <1>3, <1>5, <1>6, NothingSound DEF Stocked
<1>8. Warping(vcr)
  BY <1>2 DEF Warping
<1>9. machine = Boot /\ slot = NoState /\ channel = 0
  BY DEF Init
<1> QED BY <1>4, <1>7, <1>8, <1>9, NothingSound DEF AllGiven

\* The game gets no input from beyond the end of g_movie_inputs, with one controller and
\* in every scenario, as long as no savestate is made of a movie that has gone beyond its
\* end and no movie is replaced under a warp modify.
THEOREM InputsComeFromTheMovie ==
    ASSUME Controllers = 1, ButtonsGiven, FilesGiven
    PROVE  Spec => ([][~FrozenBeyond /\ ~InputsReplaced]_vars => []InputsInRange)
<1>1. Init => AllGiven
  BY InitGiven
<1>2. Inv /\ AllGiven /\ [Next]_vars /\ [~FrozenBeyond /\ ~InputsReplaced]_vars => AllGiven'
  BY GivenStep
<1>3. AllGiven => InputsInRange
  <2> SUFFICES ASSUME AllGiven, NEW i \in 1 .. Len(machine.inputs)
               PROVE  machine.inputs[i] # OutOfRange
    BY DEF InputsInRange
  <2>1. machine.inputs \in Seq(Given)
    BY DEF AllGiven, Machines
  <2>2. machine.inputs[i] \in Given
    BY <2>1
  <2> QED BY <2>2 DEF Given
<1> QED BY <1>1, <1>2, <1>3, EngineConsistent, PTL DEF Spec

-----------------------------------------------------------------------------
(* The number of seek savestates                                           *)

\* The frames of the seek savestates that are being made, and those a worker looks up.
Orders(v) ==
    {v.g_tasks[i].frame : i \in {j \in 1 .. Len(v.g_tasks) : v.g_tasks[j].what = "seek_save"}}
Wanted(v) == {v.jobs[i].frame : i \in {j \in 1 .. Len(v.jobs) : v.jobs[j].what = "seek_load"}}

\* The frames that have an entry in g_seek_savestates, or get one without a new order.
Room(v) == {0} \cup DOMAIN v.g_seek_savestates \cup Orders(v) \cup Wanted(v)

Tidy(v) ==
    IsSeq(v.jobs) /\ IsSeq(v.g_tasks) /\ IsFiniteSet(Room(v)) /\ Room(v) \subseteq Nat

\* A call that orders no seek savestate, and looks up none that does not exist.
Fits(v, w) ==
    /\ DOMAIN w = VFields /\ w.cfg = v.cfg
    /\ Tidy(v) => /\ IsSeq(w.jobs) /\ IsSeq(w.g_tasks)
                  /\ Orders(w) \subseteq Orders(v) /\ Room(w) \subseteq Room(v)

SameRoom(v, w) ==
    /\ DOMAIN w = VFields /\ w.cfg = v.cfg
    /\ w.jobs = v.jobs /\ w.g_tasks = v.g_tasks /\ w.g_seek_savestates = v.g_seek_savestates

\* A set of natural numbers that is not empty has a least element,
LEMMA NatMin ==
    ASSUME NEW T \in SUBSET Nat, T # {}
    PROVE  \E x \in T : \A y \in T : x <= y
<1> DEFINE Less == {ss \in Nat \X Nat : ss[1] < ss[2]}
<1>1. IsWellFoundedOn(Less, Nat)
  BY NatLessThanWellFounded DEF OpToRel
<1>2. \A m, n \in Nat : <<m, n>> \in Less <=> m < n
  OBVIOUS
<1> HIDE DEF Less
<1>3. PICK x \in T : \A y \in T : <<y, x>> \notin Less
  BY <1>1, WFMin
<1>4. ASSUME NEW y \in T PROVE x <= y
  <2>1. x \in Nat /\ y \in Nat
    OBVIOUS
  <2>2. ~(y < x)
    BY <1>2, <1>3, <2>1
  <2> QED BY <2>1, <2>2
<1> QED BY <1>4

\* and a greatest one if it is finite.
LEMMA FiniteMax ==
    ASSUME NEW T \in SUBSET Nat, IsFiniteSet(T), T # {}
    PROVE  \E x \in T : \A y \in T : y <= x
<1> DEFINE Top(S) == \E x \in S : \A y \in S : y <= x
           Bad == {n \in Nat : \E S \in SUBSET Nat :
                      IsFiniteSet(S) /\ S # {} /\ Cardinality(S) = n /\ ~Top(S)}
<1> SUFFICES ASSUME ~Top(T) PROVE FALSE
  OBVIOUS
<1>1. Cardinality(T) \in Bad
  BY FS_CardinalityType
<1>2. PICK n \in Bad : \A m \in Bad : n <= m
  <2>1. Bad \in SUBSET Nat /\ Bad # {}
    BY <1>1
  <2> HIDE DEF Bad
  <2> QED BY <2>1, NatMin
<1>3. PICK S \in SUBSET Nat : IsFiniteSet(S) /\ S # {} /\ Cardinality(S) = n /\ ~Top(S)
  BY <1>2
<1>4. PICK x \in S : TRUE
  BY <1>3
<1> DEFINE R == S \ {x}
<1>5. IsFiniteSet(R) /\ Cardinality(R) = n - 1 /\ R \in SUBSET Nat
  BY <1>3, <1>4, FS_RemoveElement
<1>6. n \in Nat /\ Cardinality(R) \in Nat
  BY <1>5, FS_CardinalityType
<1>7. CASE R = {}
  <2>1. \A y \in S : y = x
    BY <1>7
  <2>2. x \in Nat
    BY <1>3
  <2>3. Top(S)
    BY <2>1, <2>2
  <2> QED BY <1>3, <2>3
<1>8. CASE R # {}
  <2>1. Cardinality(R) \notin Bad
    <3> HIDE DEF Bad, R
    <3>1. Cardinality(R) \in Bad => n <= n - 1
      BY <1>2, <1>5
    <3> QED BY <1>6, <3>1
  <2>2. Top(R)
    BY <1>5, <1>6, <1>8, <2>1
  <2>3. PICK m \in R : \A y \in R : y <= m
    BY <2>2
  <2>4. x \in Nat /\ m \in Nat /\ m \in S
    BY <1>3, <2>3
  <2>5. \A y \in S : y \in Nat /\ (y = x \/ y <= m)
    BY <1>3, <2>3
  <2>6. CASE x <= m
    <3>1. \A y \in S : y <= m
      BY <2>4, <2>5, <2>6
    <3> QED BY <1>3, <2>4, <3>1
  <2>7. CASE m <= x
    <3>1. \A y \in S : y <= x
      BY <2>4, <2>5, <2>7
    <3> QED BY <1>3, <1>4, <3>1
  <2> QED BY <2>4, <2>6, <2>7
<1> QED BY <1>7, <1>8

LEMMA FitsTidy == ASSUME NEW v, NEW w, Tidy(v), Fits(v, w) PROVE Tidy(w)
<1>1. Room(w) \in SUBSET Room(v)
  BY DEF Fits
<1>2. IsFiniteSet(Room(w))
  BY <1>1, FS_Subset DEF Tidy
<1> QED BY <1>1, <1>2 DEF Tidy, Fits

LEMMA FitsFields == \A v, w : Fits(v, w) => DOMAIN w = VFields
  BY DEF Fits

LEMMA FitsTransitive ==
    ASSUME NEW u, NEW v, NEW w, Fits(u, v), Fits(v, w) PROVE Fits(u, w)
<1>1. Tidy(u) => Tidy(v)
  BY FitsTidy
<1> QED BY <1>1 DEF Fits

LEMMA SameRoomFits == ASSUME NEW v, NEW w, SameRoom(v, w) PROVE Fits(v, w)
  BY DEF SameRoom, Fits, Tidy, Room, Orders, Wanted

LEMMA FitsItself == ASSUME NEW v, DOMAIN v = VFields PROVE Fits(v, v)
  BY SameRoomFits DEF SameRoom

\* Calls that leave the savestates and the queues alone.
LEMMA PlainFits ==
    ASSUME NEW v, DOMAIN v = VFields
    PROVE  /\ Fits(v, core_vr_pause_emu(v))
           /\ \A force : Fits(v, core_vr_resume_emu_impl(v, force))
           /\ Fits(v, core_vr_resume_emu(v))
           /\ \A n : Fits(v, core_vr_frame_advance(v, n))
           /\ Fits(v, core_vcr_stop_seek(v))
           /\ Fits(v, stop_frame_advance(v)) /\ Fits(v, no_reset_pending(v))
           /\ \A task : Fits(v, started(v, task)) /\ Fits(v, set_task(v, task))
           /\ Fits(v, next_sample(v))
           /\ Fits(v, cht_layer_push(v)) /\ Fits(v, cht_layer_pop(v))
           /\ Fits(v, write_movie(v))
           /\ \A input : Fits(v, append_input(v, input))
           /\ \A inputs : Fits(v, with_inputs(v, inputs))
           /\ \A path, flags, uid : Fits(v, new_recording(v, path, flags, uid))
           /\ \A path, file : Fits(v, new_playback(v, path, file))
<1> SUFFICES
           /\ SameRoom(v, core_vr_pause_emu(v))
           /\ \A force : SameRoom(v, core_vr_resume_emu_impl(v, force))
           /\ SameRoom(v, core_vr_resume_emu(v))
           /\ \A n : SameRoom(v, core_vr_frame_advance(v, n))
           /\ SameRoom(v, core_vcr_stop_seek(v))
           /\ SameRoom(v, stop_frame_advance(v)) /\ SameRoom(v, no_reset_pending(v))
           /\ \A task : SameRoom(v, started(v, task)) /\ SameRoom(v, set_task(v, task))
           /\ SameRoom(v, next_sample(v))
           /\ SameRoom(v, cht_layer_push(v)) /\ SameRoom(v, cht_layer_pop(v))
           /\ SameRoom(v, write_movie(v))
           /\ \A input : SameRoom(v, append_input(v, input))
           /\ \A inputs : SameRoom(v, with_inputs(v, inputs))
           /\ \A path, flags, uid : SameRoom(v, new_recording(v, path, flags, uid))
           /\ \A path, file : SameRoom(v, new_playback(v, path, file))
  BY SameRoomFits
<1> USE DEF VFields, SameRoom
<1>1. SameRoom(v, core_vr_pause_emu(v))
  BY DEF core_vr_pause_emu
<1>2. \A force : SameRoom(v, core_vr_resume_emu_impl(v, force))
  BY DEF core_vr_resume_emu_impl
<1>3. SameRoom(v, core_vr_resume_emu(v))
  BY <1>2 DEF core_vr_resume_emu
<1>4. \A n : SameRoom(v, core_vr_frame_advance(v, n))
  BY DEF core_vr_frame_advance, core_vr_resume_emu, core_vr_resume_emu_impl
<1>5. SameRoom(v, core_vcr_stop_seek(v))
  BY DEF core_vcr_stop_seek
<1>6. SameRoom(v, stop_frame_advance(v)) /\ SameRoom(v, no_reset_pending(v))
  BY DEF stop_frame_advance, no_reset_pending
<1>7. \A task : SameRoom(v, started(v, task)) /\ SameRoom(v, set_task(v, task))
  BY DEF started, set_task
<1>8. SameRoom(v, next_sample(v))
  BY DEF next_sample
<1>9. SameRoom(v, cht_layer_push(v)) /\ SameRoom(v, cht_layer_pop(v))
  BY DEF cht_layer_push, cht_layer_pop
<1>10. SameRoom(v, write_movie(v))
  BY DEF write_movie, write_movie_impl
<1>11. \A input : SameRoom(v, append_input(v, input))
  BY DEF append_input
<1>12. \A inputs : SameRoom(v, with_inputs(v, inputs))
  BY DEF with_inputs
<1>13. \A path, flags, uid : SameRoom(v, new_recording(v, path, flags, uid))
  BY DEF new_recording
<1>14. \A path, file : SameRoom(v, new_playback(v, path, file))
  BY DEF new_playback
<1> HIDE DEF SameRoom
<1> QED BY <1>1, <1>2, <1>3, <1>4, <1>5, <1>6, <1>7, <1>8, <1>9, <1>10, <1>11, <1>12, <1>13, <1>14

LEMMA FieldsFit ==
    ASSUME NEW v, DOMAIN v = VFields
    PROVE  /\ \A b : Fits(v, [v EXCEPT !.g_seek_savestate_loading = b])
           /\ \A b : Fits(v, [v EXCEPT !.g_reset_pending = b])
           /\ \A b : Fits(v, [v EXCEPT !.vcr_readonly = b])
           /\ \A b : Fits(v, [v EXCEPT !.vcr_reset_requested = b])
           /\ \A n : Fits(v, [v EXCEPT !.m_current_sample = n])
           /\ \A n : Fits(v, [v EXCEPT !.frame_advance_outstanding = n])
           /\ \A s : Fits(v, [v EXCEPT !.startFlags = s])
           /\ \A n : Fits(v, [v EXCEPT !.seek_to_frame = n])
           /\ \A n, b : Fits(v, [v EXCEPT !.seek_to_frame = n, !.g_seek_pause_at_end = b])
           /\ \A b : Fits(v, [v EXCEPT !.g_warp_modify_active = b])
           /\ \A n : Fits(v, [v EXCEPT !.g_warp_modify_first_difference_frame = n])
           /\ \A b, c : Fits(v, [v EXCEPT !.core_executing = b, !.emu_paused = c])
           /\ \A p, st : Fits(v, [v EXCEPT !.snapshots[p] = st])
           /\ \A n, inputs : Fits(v, [v EXCEPT !.length_samples = n, !.g_movie_inputs = inputs])
           /\ \A n, task : Fits(v, [v EXCEPT !.g_task = task, !.m_current_sample = n])
           /\ \A p : Fits(v, [v EXCEPT !.g_task = "task_idle", !.movies[p] = NoMovie,
                                       !.snapshots[p] = NoState])
<1> USE DEF SameRoom, VFields
<1>1. \A b : /\ SameRoom(v, [v EXCEPT !.g_seek_savestate_loading = b])
             /\ SameRoom(v, [v EXCEPT !.g_reset_pending = b])
  OBVIOUS
<1>2. \A b : /\ SameRoom(v, [v EXCEPT !.vcr_readonly = b])
             /\ SameRoom(v, [v EXCEPT !.vcr_reset_requested = b])
  OBVIOUS
<1>3. \A n : /\ SameRoom(v, [v EXCEPT !.m_current_sample = n])
             /\ SameRoom(v, [v EXCEPT !.frame_advance_outstanding = n])
             /\ SameRoom(v, [v EXCEPT !.startFlags = n])
  OBVIOUS
<1>4. \A n, b : /\ SameRoom(v, [v EXCEPT !.seek_to_frame = n])
                /\ SameRoom(v, [v EXCEPT !.seek_to_frame = n, !.g_seek_pause_at_end = b])
  OBVIOUS
<1>5. \A n : /\ SameRoom(v, [v EXCEPT !.g_warp_modify_active = n])
             /\ SameRoom(v, [v EXCEPT !.g_warp_modify_first_difference_frame = n])
  OBVIOUS
<1>6. \A b, c : SameRoom(v, [v EXCEPT !.core_executing = b, !.emu_paused = c])
  OBVIOUS
<1>7. \A p, st : SameRoom(v, [v EXCEPT !.snapshots[p] = st])
  OBVIOUS
<1>8. \A n, inputs : SameRoom(v, [v EXCEPT !.length_samples = n, !.g_movie_inputs = inputs])
  OBVIOUS
<1>9. \A n, task : SameRoom(v, [v EXCEPT !.g_task = task, !.m_current_sample = n])
  OBVIOUS
<1>10. \A p : SameRoom(v, [v EXCEPT !.g_task = "task_idle", !.movies[p] = NoMovie,
                                    !.snapshots[p] = NoState])
  OBVIOUS
<1> HIDE DEF SameRoom, VFields
<1> QED BY <1>1, <1>2, <1>3, <1>4, <1>5, <1>6, <1>7, <1>8, <1>9, <1>10, SameRoomFits

\* A job for the workers.
LEMMA JobFits ==
    ASSUME NEW v, DOMAIN v = VFields, NEW j,
           j.what = "seek_load" => (Tidy(v) => j.frame \in Room(v))
    PROVE  Fits(v, submit_task(v, j))
<1> DEFINE w == submit_task(v, j)
<1>1. /\ DOMAIN w = VFields /\ w.cfg = v.cfg /\ w.jobs = Append(v.jobs, j)
      /\ w.g_tasks = v.g_tasks /\ w.g_seek_savestates = v.g_seek_savestates
  BY DEF submit_task, VFields
<1> HIDE DEF w
<1>2. ASSUME Tidy(v)
      PROVE  IsSeq(w.jobs) /\ Wanted(w) \subseteq Wanted(v) \cup Room(v)
  <2>1. /\ IsSeq(w.jobs) /\ Len(v.jobs) \in Nat /\ Len(w.jobs) = Len(v.jobs) + 1
        /\ \A i \in 1 .. Len(w.jobs) : w.jobs[i] = IF i <= Len(v.jobs) THEN v.jobs[i] ELSE j
    BY <1>1, <1>2, PushBack DEF Tidy
  <2>2. ASSUME NEW i \in 1 .. Len(w.jobs), w.jobs[i].what = "seek_load"
        PROVE  w.jobs[i].frame \in Wanted(v) \cup Room(v)
    <3>1. CASE i <= Len(v.jobs)
      <4>1. i \in 1 .. Len(v.jobs) /\ w.jobs[i] = v.jobs[i]
        BY <2>1, <3>1
      <4> QED BY <2>2, <4>1 DEF Wanted
    <3>2. CASE ~(i <= Len(v.jobs))
      <4>1. w.jobs[i] = j
        BY <2>1, <3>2
      <4> QED BY <1>2, <2>2, <4>1
    <3> QED BY <3>1, <3>2
  <2>3. Wanted(w) \subseteq Wanted(v) \cup Room(v)
    BY <2>2 DEF Wanted
  <2> QED BY <2>1, <2>3
<1>3. Orders(w) = Orders(v)
  BY <1>1 DEF Orders
<1>4. Fits(v, w)
  BY <1>1, <1>2, <1>3 DEF Fits, Room, Tidy
<1> QED BY <1>4 DEF w

\* A savestate request that is not for a seek savestate.
LEMMA PushFits ==
    ASSUME NEW v, DOMAIN v = VFields, NEW t, t.what # "seek_save"
    PROVE  Fits(v, st_push(v, t))
<1> DEFINE w == st_push(v, t)
<1>1. /\ DOMAIN w = VFields /\ w.cfg = v.cfg /\ w.jobs = v.jobs
      /\ w.g_tasks = <<t>> \o v.g_tasks /\ w.g_seek_savestates = v.g_seek_savestates
  BY DEF st_push, VFields
<1> HIDE DEF w
<1>2. ASSUME Tidy(v) PROVE IsSeq(w.g_tasks) /\ Orders(w) \subseteq Orders(v)
  <2>1. /\ IsSeq(w.g_tasks) /\ Len(v.g_tasks) \in Nat /\ Len(w.g_tasks) = Len(v.g_tasks) + 1
        /\ \A i \in 1 .. Len(w.g_tasks) : w.g_tasks[i] = IF i = 1 THEN t ELSE v.g_tasks[i - 1]
    <3> DEFINE q == v.g_tasks
               r == <<t>> \o q
    <3>1. IsSeq(q)
      BY <1>2 DEF Tidy
    <3> HIDE DEF q
    <3>2. /\ IsSeq(r) /\ Len(q) \in Nat /\ Len(r) = Len(q) + 1
          /\ \A i \in 1 .. Len(r) : r[i] = IF i = 1 THEN t ELSE q[i - 1]
      BY <3>1, PushFront
    <3> HIDE DEF r
    <3>3. w.g_tasks = r /\ v.g_tasks = q
      BY <1>1 DEF q, r
    <3> QED BY <3>2, <3>3
  <2>2. ASSUME NEW i \in 1 .. Len(w.g_tasks), w.g_tasks[i].what = "seek_save"
        PROVE  w.g_tasks[i].frame \in Orders(v)
    <3>1. i # 1
      BY <2>1, <2>2
    <3>2. i - 1 \in 1 .. Len(v.g_tasks) /\ w.g_tasks[i] = v.g_tasks[i - 1]
      BY <2>1, <3>1
    <3> QED BY <2>2, <3>2 DEF Orders
  <2>3. Orders(w) \subseteq Orders(v)
    BY <2>2 DEF Orders
  <2> QED BY <2>1, <2>3
<1>3. Wanted(w) = Wanted(v)
  BY <1>1 DEF Wanted
<1>4. Fits(v, w)
  BY <1>1, <1>2, <1>3 DEF Fits, Room, Tidy
<1> QED BY <1>4 DEF w

\* Seek savestates that are dropped, or made as ordered.
LEMMA SavestatesFit ==
    ASSUME NEW v, DOMAIN v = VFields, NEW F, DOMAIN F \subseteq Room(v)
    PROVE  Fits(v, [v EXCEPT !.g_seek_savestates = F])
<1> DEFINE w == [v EXCEPT !.g_seek_savestates = F]
<1>1. /\ DOMAIN w = VFields /\ w.cfg = v.cfg /\ w.jobs = v.jobs
      /\ w.g_tasks = v.g_tasks /\ w.g_seek_savestates = F
  BY DEF VFields
<1> HIDE DEF w
<1>2. Orders(w) = Orders(v) /\ Wanted(w) = Wanted(v)
  BY <1>1 DEF Orders, Wanted
<1>3. Fits(v, w)
  BY <1>1, <1>2 DEF Fits, Room, Tidy
<1> QED BY <1>3 DEF w

LEMMA PurgeFits ==
    ASSUME NEW v, DOMAIN v = VFields
    PROVE  /\ Fits(v, vcr_clear_seek_savestates(v))
           /\ Fits(v, purge_oldest(v))
           /\ \A target : Fits(v, purge_seek_savestates(v, target))
<1>1. Fits(v, vcr_clear_seek_savestates(v))
  <2>1. DOMAIN << >> = {}
    OBVIOUS
  <2> QED BY <2>1, SavestatesFit DEF vcr_clear_seek_savestates
<1>2. ASSUME NEW S
      PROVE  Fits(v, [v EXCEPT !.g_seek_savestates = WithoutFrames(v.g_seek_savestates, S)])
  <2> DEFINE F == WithoutFrames(v.g_seek_savestates, S)
  <2>1. DOMAIN F \subseteq Room(v)
    BY DEF WithoutFrames, Room
  <2> HIDE DEF F
  <2>2. Fits(v, [v EXCEPT !.g_seek_savestates = F])
    BY <2>1, SavestatesFit
  <2> QED BY <2>2 DEF F
<1>3. Fits(v, purge_oldest(v))
  BY <1>2, FitsItself DEF purge_oldest
<1>4. \A target : Fits(v, purge_seek_savestates(v, target))
  BY <1>2, FitsItself DEF purge_seek_savestates
<1> QED BY <1>1, <1>3, <1>4

\* A seek starts from a savestate that exists, or from frame 0.
LEMMA ClosestExists ==
    ASSUME NEW v, Tidy(v), NEW frame
    PROVE  vcr_find_closest_savestate_before_frame(v, frame) \in Room(v)
<1> DEFINE before == {f \in DOMAIN v.g_seek_savestates : f < frame}
<1>1. CASE before = {}
  BY <1>1 DEF vcr_find_closest_savestate_before_frame, Room
<1>2. CASE before # {}
  <2>1. before \in SUBSET Room(v)
    BY DEF Room
  <2> HIDE DEF before
  <2>2. before \in SUBSET Nat /\ IsFiniteSet(before)
    BY <2>1, FS_Subset DEF Tidy
  <2>3. \E f \in before : \A g \in before : g <= f
    BY <1>2, <2>2, FiniteMax
  <2>4. (CHOOSE f \in before : \A g \in before : g <= f) \in before
    BY <2>3
  <2>5. vcr_find_closest_savestate_before_frame(v, frame)
           = CHOOSE f \in before : \A g \in before : g <= f
    BY <1>2 DEF vcr_find_closest_savestate_before_frame, before
  <2> QED BY <2>1, <2>4, <2>5
<1> QED BY <1>1, <1>2

LEMMA StopFits == ASSUME NEW v, DOMAIN v = VFields PROVE Fits(v, core_vcr_stop_all(v))
<1> DEFINE c == vcr_clear_seek_savestates(v)
           i == [c EXCEPT !.g_task = "task_idle"]
           s == [write_movie(c) EXCEPT !.g_task = "task_idle"]
           d == [c EXCEPT !.g_task = "task_idle", !.movies[c.g_movie_path] = NoMovie,
                          !.snapshots[c.g_movie_path] = NoState]
<1>1. core_vcr_stop_all(v) \in {c, cht_layer_pop(i), s, d}
  BY DEF core_vcr_stop_all, vcr_stop_playback, vcr_stop_record
<1>2. Fits(v, c) /\ DOMAIN c = VFields
  BY PurgeFits, FitsFields
<1> HIDE DEF c
<1>3. Fits(c, i) /\ DOMAIN i = VFields
  <2>1. i = set_task(c, "task_idle")
    BY DEF set_task
  <2>2. Fits(c, set_task(c, "task_idle"))
    BY <1>2, PlainFits
  <2> QED BY <2>1, <2>2, FitsFields
<1>4. Fits(i, cht_layer_pop(i))
  BY <1>3, PlainFits
<1>5. Fits(c, s)
  <2> DEFINE w == write_movie(c)
  <2>1. Fits(c, w) /\ DOMAIN w = VFields
    BY <1>2, PlainFits, FitsFields
  <2>2. s = set_task(w, "task_idle")
    BY DEF set_task
  <2> HIDE DEF w
  <2>3. Fits(w, set_task(w, "task_idle"))
    BY <2>1, PlainFits
  <2> QED BY <2>1, <2>2, <2>3, FitsTransitive
<1>6. Fits(c, d)
  BY <1>2, FieldsFit
<1> HIDE DEF i, s, d
<1> QED BY <1>1, <1>2, <1>3, <1>4, <1>5, <1>6, FitsTransitive

LEMMA RecordFits ==
    ASSUME NEW v, DOMAIN v = VFields, NEW path, NEW flags \in StartFlags, NEW uid
    PROVE  Fits(v, core_vcr_start_record(v, path, flags, uid))
<1> DEFINE x == core_vcr_stop_all(v)
           y == new_recording(x, path, flags, uid)
           z == [y EXCEPT !.startFlags = "MOVIE_START_FROM_SNAPSHOT"]
           t == StTask("record_snapshot", 0, path, NoState)
           j == Job("record_existing", 0, path)
           w == core_vcr_start_record(v, path, flags, uid)
<1>1. Fits(v, x) /\ DOMAIN x = VFields
  BY StopFits, FitsFields
<1>2. \/ w = y
      \/ w = started(y, "task_start_recording_from_reset")
      \/ w = st_push(started(y, "task_start_recording_from_snapshot"), t)
      \/ w = submit_task(started(z, "task_start_recording_from_existing_snapshot"), j)
  BY DEF core_vcr_start_record, x
<1>3. t.what # "seek_save" /\ j.what # "seek_load"
  BY DEF StTask, Job
<1> HIDE DEF x, t, j
<1>4. Fits(x, y) /\ DOMAIN y = VFields
  BY <1>1, PlainFits, FitsFields
<1> HIDE DEF y
<1>5. Fits(y, z) /\ DOMAIN z = VFields
  BY <1>4, FieldsFit, FitsFields
<1> HIDE DEF z, w
<1>6. ASSUME NEW u \in {y, z}, NEW task
      PROVE  Fits(u, started(u, task)) /\ DOMAIN started(u, task) = VFields
  BY <1>4, <1>5, PlainFits, FitsFields
<1>7. \A task : /\ Fits(started(y, task), st_push(started(y, task), t))
                /\ Fits(started(z, task), submit_task(started(z, task), j))
  BY <1>3, <1>6, PushFits, JobFits
<1>8. Fits(v, y) /\ Fits(v, z)
  BY <1>1, <1>4, <1>5, FitsTransitive
<1>9. \A task : Fits(v, started(y, task)) /\ Fits(v, started(z, task))
  BY <1>6, <1>8, FitsTransitive
<1>10. Fits(v, w)
  BY <1>2, <1>7, <1>8, <1>9, FitsTransitive
<1> QED BY <1>10 DEF w

LEMMA PlaybackFits ==
    ASSUME NEW v, DOMAIN v = VFields, NEW path PROVE Fits(v, core_vcr_start_playback(v, path))
<1> DEFINE u == push_cheats(v, path)
           x == core_vcr_stop_all(u)
           y == new_playback(x, path, v.movies[path])
           r == set_task(y, "task_start_playback_from_reset")
           s == set_task(y, "task_start_playback_from_snapshot")
           j == Job("playback_snapshot", 0, path)
           w == core_vcr_start_playback(v, path)
<1>1. w \in {v, y, r, submit_task(s, j)}
  BY DEF core_vcr_start_playback, start_playback_task, set_task
<1>2. Fits(v, u) /\ DOMAIN u = VFields
  BY PlainFits, FitsItself, FitsFields DEF push_cheats
<1> HIDE DEF u
<1>3. Fits(u, x) /\ DOMAIN x = VFields
  BY <1>2, StopFits, FitsFields
<1> HIDE DEF x
<1>4. Fits(x, y) /\ DOMAIN y = VFields
  BY <1>3, PlainFits, FitsFields
<1> HIDE DEF y
<1>5. Fits(y, r) /\ Fits(y, s) /\ DOMAIN s = VFields
  BY <1>4, PlainFits, FitsFields
<1>6. j.what # "seek_load"
  BY DEF Job
<1> HIDE DEF r, s, j, w
<1>7. Fits(s, submit_task(s, j))
  BY <1>5, <1>6, JobFits
<1>8. Fits(v, y) /\ Fits(v, v)
  BY <1>2, <1>3, <1>4, FitsTransitive, FitsItself
<1>9. Fits(v, w)
  BY <1>1, <1>5, <1>7, <1>8, FitsTransitive
<1> QED BY <1>9 DEF w

LEMMA UnfreezeFits ==
    ASSUME NEW v, DOMAIN v = VFields, NEW freeze PROVE Fits(v, core_vcr_unfreeze(v, freeze))
<1> DEFINE n == freeze.current_sample
           x == [v EXCEPT !.g_task = "task_recording", !.m_current_sample = n]
           y == [x EXCEPT !.length_samples = n, !.g_movie_inputs = resize(freeze.input_buffer, n)]
           z == write_movie(v)
           s == [v EXCEPT !.m_current_sample = n]
           p == [z EXCEPT !.g_task = "task_playback", !.m_current_sample = n]
<1>1. core_vcr_unfreeze(v, freeze) \in {v, s, x, write_movie(y), p}
  BY DEF core_vcr_unfreeze, unfreeze_readwrite, overwrite_inputs, unfreeze_readonly
<1>2. /\ Fits(v, v) /\ Fits(v, s) /\ Fits(v, z) /\ Fits(v, x)
      /\ DOMAIN z = VFields /\ DOMAIN x = VFields
  <2>1. Fits(v, s) /\ Fits(v, x)
    BY FieldsFit
  <2>2. Fits(v, v) /\ Fits(v, z)
    BY FitsItself, PlainFits
  <2> QED BY <2>1, <2>2, FitsFields
<1> HIDE DEF x, z, s
<1>3. Fits(z, p) /\ Fits(x, y) /\ DOMAIN y = VFields
  <2>1. Fits(z, p) /\ Fits(x, y)
    BY <1>2, FieldsFit
  <2> QED BY <2>1, FitsFields
<1> HIDE DEF y, p
<1>4. Fits(y, write_movie(y))
  BY <1>3, PlainFits
<1> QED BY <1>1, <1>2, <1>3, <1>4, FitsTransitive

LEMMA LoadFits ==
    ASSUME NEW v, DOMAIN v = VFields, NEW key, Tidy(v) => key \in Room(v)
    PROVE  Fits(v, load_seek_savestate(v, key))
<1> DEFINE u == [v EXCEPT !.g_seek_savestate_loading = TRUE]
           j == Job("seek_load", key, NoMovie)
<1>1. SameRoom(v, u) /\ DOMAIN u = VFields
  BY DEF VFields, SameRoom
<1>2. load_seek_savestate(v, key) = submit_task(u, j)
  BY DEF load_seek_savestate
<1>3. j.frame = key
  BY DEF Job
<1> HIDE DEF u, j
<1>4. Tidy(u) => j.frame \in Room(u)
  BY <1>1, <1>3 DEF SameRoom, Tidy, Room, Orders, Wanted
<1>5. Fits(u, submit_task(u, j))
  BY <1>1, <1>4, JobFits
<1> QED BY <1>1, <1>2, <1>5, SameRoomFits, FitsTransitive

LEMMA RewindFits ==
    ASSUME NEW v, DOMAIN v = VFields, NEW target
    PROVE  Fits(v, rewind_recording(v, target)) /\ Fits(v, rewind_playback(v, target))
<1>1. Fits(v, rewind_recording(v, target))
  <2> DEFINE u == purge_seek_savestates(v, target)
             key == vcr_find_closest_savestate_before_frame(u, target)
  <2>1. Fits(v, u) /\ DOMAIN u = VFields
    BY PurgeFits, FitsFields
  <2>2. rewind_recording(v, target) = load_seek_savestate(u, key)
    BY DEF rewind_recording
  <2> HIDE DEF u
  <2>3. Tidy(u) => key \in Room(u)
    BY ClosestExists
  <2> HIDE DEF key
  <2> QED BY <2>1, <2>2, <2>3, LoadFits, FitsTransitive
<1>2. CASE v.cfg.seek_savestate_interval # 0
  <2> DEFINE u == [v EXCEPT !.vcr_readonly = TRUE]
             key == vcr_find_closest_savestate_before_frame(v, target)
  <2>1. SameRoom(v, u) /\ DOMAIN u = VFields
    BY DEF VFields, SameRoom
  <2>2. rewind_playback(v, target) = load_seek_savestate(u, key)
    BY <1>2 DEF rewind_playback
  <2> HIDE DEF u
  <2>3. Tidy(v) => key \in Room(v)
    BY ClosestExists
  <2> HIDE DEF key
  <2>4. Tidy(u) => key \in Room(u)
    BY <2>1, <2>3 DEF SameRoom, Tidy, Room, Orders, Wanted
  <2>5. Fits(u, load_seek_savestate(u, key))
    BY <2>1, <2>4, LoadFits
  <2> QED BY <1>1, <2>1, <2>2, <2>5, SameRoomFits, FitsTransitive
<1>3. CASE v.cfg.seek_savestate_interval = 0
  <2> DEFINE w == core_vcr_start_playback(v, v.g_movie_path)
             z == [w EXCEPT !.seek_to_frame = NoFrame]
  <2>1. rewind_playback(v, target) \in {w, z}
    BY <1>3 DEF rewind_playback, restart_playback
  <2>2. Fits(v, w) /\ DOMAIN w = VFields
    BY PlaybackFits, FitsFields
  <2> HIDE DEF w
  <2>3. Fits(w, z)
    BY <2>2, FieldsFit
  <2> QED BY <1>1, <2>1, <2>2, <2>3, FitsTransitive
<1> QED BY <1>1, <1>2, <1>3

LEMMA SeekFits ==
    ASSUME NEW v, DOMAIN v = VFields, NEW frame, NEW pause, NEW resume, NEW warp
    PROVE  Fits(v, vcr_begin_seek_impl(v, frame, pause, resume, warp))
<1> DEFINE end == seek_end(frame, pause)
           w == [v EXCEPT !.seek_to_frame = end, !.g_seek_pause_at_end = pause]
           r == core_vr_resume_emu(w)
           z == vcr_begin_seek_impl(v, frame, pause, resume, warp)
<1>1. z \in {v, core_vcr_stop_seek(w), backtrack(r, end, warp), backtrack(w, end, warp)}
  BY DEF vcr_begin_seek_impl
<1>2. Fits(v, w) /\ DOMAIN w = VFields
  <2>1. Fits(v, w)
    BY FieldsFit
  <2> QED BY <2>1, FitsFields
<1> HIDE DEF w, z, end
<1>3. Fits(w, r) /\ DOMAIN r = VFields /\ Fits(w, core_vcr_stop_seek(w))
  BY <1>2, PlainFits, FitsFields
<1> HIDE DEF r
<1>4. \A u \in {w, r} : Fits(u, backtrack(u, end, warp))
  BY <1>2, <1>3, RewindFits, FitsItself DEF backtrack
<1>5. Fits(v, z)
  BY <1>1, <1>2, <1>3, <1>4, FitsItself, FitsTransitive
<1> QED BY <1>5 DEF z

LEMMA WarpFits ==
    ASSUME NEW v, DOMAIN v = VFields, NEW inputs
    PROVE  Fits(v, core_vcr_begin_warp_modify(v, inputs))
<1> DEFINE diff == vcr_find_first_input_difference(v.g_movie_inputs, inputs)
           w == [v EXCEPT !.g_warp_modify_first_difference_frame = diff]
           target == SmallerOf(Len(inputs), w.m_current_sample)
           pause == w.emu_paused \/ w.frame_advance_outstanding > 0
           s == vcr_begin_seek_impl(w, target, pause, FALSE, TRUE)
           i == with_inputs(s, inputs)
           a == [i EXCEPT !.g_warp_modify_active = TRUE]
           z == core_vcr_begin_warp_modify(v, inputs)
<1>1. z \in {v, w, with_inputs(w, inputs), s, core_vr_resume_emu(a)}
  BY DEF core_vcr_begin_warp_modify, warp_seek
<1>2. Fits(v, w) /\ DOMAIN w = VFields
  BY FieldsFit, FitsFields
<1> HIDE DEF w, diff
<1>3. Fits(w, s) /\ DOMAIN s = VFields /\ Fits(w, with_inputs(w, inputs))
  <2> HIDE DEF target, pause
  <2>1. Fits(w, s)
    BY <1>2, SeekFits
  <2> QED BY <1>2, <2>1, PlainFits, FitsFields
<1> HIDE DEF s
<1>4. Fits(s, i) /\ DOMAIN i = VFields
  BY <1>3, PlainFits, FitsFields
<1> HIDE DEF i
<1>5. Fits(i, a) /\ DOMAIN a = VFields
  BY <1>4, FieldsFit, FitsFields
<1> HIDE DEF a
<1>6. Fits(a, core_vr_resume_emu(a))
  BY <1>5, PlainFits
<1> HIDE DEF z
<1>7. Fits(v, s) /\ Fits(v, a)
  BY <1>2, <1>3, <1>4, <1>5, FitsTransitive
<1>8. Fits(v, z)
  BY <1>1, <1>2, <1>3, <1>6, <1>7, FitsItself, FitsTransitive
<1> QED BY <1>8 DEF z

\* The seek savestates that exist or come are few enough.
Few(v) ==
    /\ Tidy(v)
    /\ v.cfg.seek_savestate_max_count \in Nat \ {0}
    /\ Cardinality(Room(v)) <= v.cfg.seek_savestate_max_count + 2

LEMMA FitsFew == ASSUME NEW v, NEW w, Few(v), Fits(v, w) PROVE Few(w)
<1>1. Tidy(w) /\ w.cfg = v.cfg /\ Room(w) \in SUBSET Room(v) /\ IsFiniteSet(Room(v))
  BY FitsTidy DEF Few, Fits, Tidy
<1>2. Cardinality(Room(w)) <= Cardinality(Room(v)) /\ IsFiniteSet(Room(w))
  BY <1>1, FS_Subset
<1>3. Cardinality(Room(w)) \in Nat /\ Cardinality(Room(v)) \in Nat
  BY <1>1, <1>2, FS_CardinalityType
<1> QED BY <1>1, <1>2, <1>3 DEF Few

\* The earliest seek savestate after frame 0 makes room for another one, if there is one;
\* otherwise there are at most two, at the ends of the movie.
LEMMA PurgeMakesRoom ==
    ASSUME NEW v, DOMAIN v = VFields, Few(v), Orders(v) = {}, Wanted(v) = {},
           v.length_samples \in Nat,
           \A f \in DOMAIN v.g_seek_savestates : f <= v.length_samples
    PROVE  Cardinality(Room(purge_oldest(v))) <= v.cfg.seek_savestate_max_count + 1
<1> DEFINE D == DOMAIN v.g_seek_savestates
           M == v.cfg.seek_savestate_max_count
           old == {f \in D : f >= 1 /\ f < v.length_samples}
           p == purge_oldest(v)
<1>1. /\ Room(v) = {0} \cup D /\ IsFiniteSet(Room(v)) /\ D \in SUBSET Nat /\ M \in Nat \ {0}
      /\ Cardinality(Room(v)) <= M + 2
  BY DEF Few, Tidy, Room
<1>2. IsFiniteSet(D) /\ Cardinality(D) \in Nat /\ Cardinality(Room(v)) \in Nat
  <2>1. D \in SUBSET Room(v)
    BY <1>1
  <2> QED BY <1>1, <2>1, FS_Subset, FS_CardinalityType
<1>3. CASE ~(Cardinality(D) > M)
  <2>1. p = v
    BY <1>3 DEF purge_oldest
  <2>2. Room(v) = D \cup {0}
    BY <1>1
  <2> HIDE DEF D, M
  <2>3. Cardinality(Room(v)) <= Cardinality(D) + 1
    <3>1. Cardinality(D \cup {0}) = IF 0 \in D THEN Cardinality(D) ELSE Cardinality(D) + 1
      BY <1>2, FS_AddElement
    <3> QED BY <1>2, <2>2, <3>1
  <2>4. Cardinality(Room(v)) <= M + 1
    BY <1>1, <1>2, <1>3, <2>3
  <2> QED BY <2>1, <2>4 DEF M
<1>4. CASE Cardinality(D) > M /\ old # {}
  <2> DEFINE m == SetMin(old)
             F == WithoutFrames(v.g_seek_savestates, {m})
  <2>1. m \in old
    <3>1. old \in SUBSET Nat
      BY <1>1
    <3> HIDE DEF old
    <3>2. \E x \in old : \A y \in old : x <= y
      BY <1>4, <3>1, NatMin
    <3> QED BY <3>2 DEF SetMin
  <2>2. p = [v EXCEPT !.g_seek_savestates = F]
    BY <1>4 DEF purge_oldest
  <2>3. DOMAIN F = D \ {m}
    BY DEF WithoutFrames
  <2>4. m \in D /\ m # 0
    BY <1>1, <2>1
  <2> HIDE DEF m, F, old
  <2>5. p.jobs = v.jobs /\ p.g_tasks = v.g_tasks /\ p.g_seek_savestates = F
    BY <2>2 DEF VFields
  <2> HIDE DEF p
  <2>6. Orders(p) = {} /\ Wanted(p) = {}
    BY <2>5 DEF Orders, Wanted
  <2>7. Room(p) = Room(v) \ {m} /\ m \in Room(v)
    BY <1>1, <2>3, <2>4, <2>5, <2>6 DEF Room
  <2>8. Cardinality(Room(p)) = Cardinality(Room(v)) - 1
    <3> DEFINE R == Room(v)
    <3>1. IsFiniteSet(R) /\ m \in R /\ Room(p) = R \ {m}
      BY <1>1, <2>7
    <3> HIDE DEF R
    <3>2. Cardinality(R \ {m}) = Cardinality(R) - 1
      BY <3>1, FS_RemoveElement
    <3> QED BY <3>1, <3>2 DEF R
  <2> HIDE DEF D, M
  <2>9. Cardinality(Room(p)) <= M + 1
    BY <1>1, <1>2, <2>8
  <2> QED BY <2>9 DEF M, p
<1>5. CASE old = {}
  <2>1. p = v
    BY <1>5 DEF purge_oldest
  <2>2. \A f \in D : f = 0 \/ f = v.length_samples
    <3> TAKE f \in D
    <3>1. f \in Nat /\ f <= v.length_samples /\ ~(f >= 1 /\ f < v.length_samples)
      BY <1>1, <1>5
    <3> QED BY <3>1
  <2> DEFINE L == {0} \cup {v.length_samples}
  <2>3. Room(v) \in SUBSET L
    BY <1>1, <2>2
  <2>4. IsFiniteSet(L) /\ Cardinality(L) <= 2
    <3>1. IsFiniteSet({0}) /\ Cardinality({0}) = 1
      BY FS_Singleton
    <3> QED BY <3>1, FS_AddElement
  <2> HIDE DEF L, D, M
  <2>5. Cardinality(Room(v)) <= Cardinality(L) /\ Cardinality(L) \in Nat
    BY <2>3, <2>4, FS_Subset, FS_CardinalityType
  <2>6. Cardinality(Room(v)) <= M + 1
    BY <1>1, <1>2, <2>4, <2>5
  <2> QED BY <2>1, <2>6 DEF M
<1> QED BY <1>3, <1>4, <1>5

\* An order for a seek savestate.
LEMMA OrderTaken ==
    ASSUME NEW v, DOMAIN v = VFields, IsSeq(v.g_tasks), NEW t
    PROVE  LET w == st_push(v, t)
           IN  /\ DOMAIN w = VFields /\ w.cfg = v.cfg /\ IsSeq(w.g_tasks) /\ w.jobs = v.jobs
               /\ Room(w) \subseteq Room(v) \cup {t.frame}
<1> DEFINE w == st_push(v, t)
           q == v.g_tasks
           r == <<t>> \o q
<1>1. /\ DOMAIN w = VFields /\ w.cfg = v.cfg /\ w.jobs = v.jobs
      /\ w.g_tasks = r /\ w.g_seek_savestates = v.g_seek_savestates
  BY DEF st_push, VFields
<1> HIDE DEF w, q
<1>2. /\ IsSeq(r) /\ Len(q) \in Nat /\ Len(r) = Len(q) + 1
      /\ \A i \in 1 .. Len(r) : r[i] = IF i = 1 THEN t ELSE q[i - 1]
  BY PushFront DEF q
<1> HIDE DEF r
<1>3. ASSUME NEW i \in 1 .. Len(r), r[i].what = "seek_save" PROVE r[i].frame \in Orders(v) \cup {t.frame}
  <2>1. CASE i = 1
    BY <1>2, <2>1
  <2>2. CASE i # 1
    <3>1. i - 1 \in 1 .. Len(q) /\ r[i] = q[i - 1]
      BY <1>2, <2>2
    <3> QED BY <1>3, <3>1 DEF Orders, q
  <2> QED BY <2>1, <2>2
<1>4. Orders(w) \subseteq Orders(v) \cup {t.frame}
  BY <1>1, <1>3 DEF Orders
<1>5. Wanted(w) = Wanted(v)
  BY <1>1 DEF Wanted
<1>6. Room(w) \subseteq Room(v) \cup {t.frame}
  BY <1>1, <1>4, <1>5 DEF Room
<1> QED BY <1>1, <1>2, <1>6 DEF w

LEMMA JobNotWanted ==
    ASSUME NEW v, DOMAIN v = VFields, IsSeq(v.jobs), NEW j, j.what # "seek_load", Wanted(v) = {}
    PROVE  Wanted(submit_task(v, j)) = {}
<1> DEFINE w == submit_task(v, j)
<1>1. w.jobs = Append(v.jobs, j)
  BY DEF submit_task, VFields
<1> HIDE DEF w
<1>2. /\ Len(v.jobs) \in Nat /\ Len(w.jobs) = Len(v.jobs) + 1
      /\ \A i \in 1 .. Len(w.jobs) : w.jobs[i] = IF i <= Len(v.jobs) THEN v.jobs[i] ELSE j
  BY <1>1, PushBack
<1>3. ASSUME NEW i \in 1 .. Len(w.jobs), w.jobs[i].what = "seek_load" PROVE FALSE
  <2>1. i <= Len(v.jobs)
    BY <1>2, <1>3
  <2>2. i \in 1 .. Len(v.jobs) /\ w.jobs[i] = v.jobs[i]
    BY <1>2, <2>1
  <2>3. v.jobs[i].frame \in Wanted(v)
    BY <1>3, <2>2 DEF Wanted
  <2> QED BY <2>3
<1>4. Wanted(w) = {}
  BY <1>3 DEF Wanted
<1> QED BY <1>4 DEF w

\* Before the input of a frame a seek savestate is ordered, in the room made for it.
LEMMA BeforeInputFew ==
    ASSUME NEW v, Engine(v), Begun(v), Few(v), Orders(v) = {}, Wanted(v) = {},
           \A f \in DOMAIN v.g_seek_savestates : f <= v.length_samples
    PROVE  Few(before_input(v)) /\ DOMAIN before_input(v) = VFields
<1> DEFINE x == vcr_stop_seek_if_needed(v)
           y == vcr_handle_starting_tasks(x)
           w == vcr_create_seek_savestates(y)
           s == core_vcr_stop_seek(v)
           Same(u) == /\ DOMAIN u = VFields /\ u.m_current_sample = v.m_current_sample
                      /\ u.length_samples = v.length_samples
                      /\ u.g_seek_savestates = v.g_seek_savestates
<1>0. /\ DOMAIN v = VFields /\ v.m_current_sample \in Nat /\ v.length_samples \in Nat
      /\ Same(v)
  BY DEF Engine, Begun, MovieOK
<1>1. Same(x) /\ SameRoom(v, x)
  <2>1. x \in {v, s, core_vr_pause_emu(s)}
    BY DEF vcr_stop_seek_if_needed
  <2>2. Same(s) /\ SameRoom(v, s)
    BY <1>0 DEF core_vcr_stop_seek, VFields, SameRoom
  <2> HIDE DEF s, x
  <2>3. Same(core_vr_pause_emu(s)) /\ SameRoom(v, core_vr_pause_emu(s))
    BY <2>2 DEF core_vr_pause_emu, VFields, SameRoom
  <2>4. SameRoom(v, v)
    BY <1>0 DEF SameRoom
  <2> QED BY <1>0, <2>1, <2>2, <2>3, <2>4
<1> HIDE DEF x
<1>2. Few(x) /\ Orders(x) = {} /\ Wanted(x) = {}
  <2>1. Fits(v, x)
    BY <1>1, SameRoomFits
  <2>2. Orders(x) = {} /\ Wanted(x) = {}
    BY <1>1 DEF SameRoom, Orders, Wanted
  <2> QED BY <2>1, <2>2, FitsFew
<1>3. Same(y) /\ Few(y) /\ Orders(y) = {} /\ Wanted(y) = {}
  <2> DEFINE u == [x EXCEPT !.g_reset_pending = TRUE]
  <2>1. y = x \/ \E j : j.what # "seek_load" /\ y = submit_task(u, j)
    <3>1. Job("record_reset", 0, NoMovie).what # "seek_load" /\ Job("playback_reset", 0, NoMovie).what # "seek_load"
      BY DEF Job
    <3> QED BY <3>1 DEF vcr_handle_starting_tasks
  <2>2. Same(u) /\ SameRoom(x, u)
    BY <1>1 DEF VFields, SameRoom
  <2> HIDE DEF u, y
  <2>3. Few(u) /\ Orders(u) = {} /\ Wanted(u) = {}
    <3>1. Fits(x, u)
      BY <2>2, SameRoomFits
    <3>2. Orders(u) = {} /\ Wanted(u) = {}
      BY <1>2, <2>2 DEF SameRoom, Orders, Wanted
    <3> QED BY <1>2, <3>1, <3>2, FitsFew
  <2>4. ASSUME NEW j, j.what # "seek_load", y = submit_task(u, j)
        PROVE  Same(y) /\ Few(y) /\ Orders(y) = {} /\ Wanted(y) = {}
    <3>1. Same(y)
      BY <2>2, <2>4 DEF submit_task, VFields
    <3>2. Fits(u, y)
      BY <2>2, <2>4, JobFits
    <3>3. Few(y) /\ Orders(y) = {}
      BY <2>3, <3>2, FitsFew DEF Fits, Few
    <3>4. Wanted(y) = {}
      BY <2>2, <2>3, <2>4, JobNotWanted DEF Few, Tidy
    <3> QED BY <3>1, <3>3, <3>4
  <2> QED BY <1>1, <1>2, <2>1, <2>4
<1> HIDE DEF y
<1>4. Few(w) /\ DOMAIN w = VFields
  <2> DEFINE p == purge_oldest(y)
             t == StTask("seek_save", y.m_current_sample, NoMovie, NoState)
             z == st_push(p, t)
  <2>1. w = y \/ w = z
    BY DEF vcr_create_seek_savestates, vcr_create_n_frame_savestate
  <2>2. t.frame = v.m_current_sample
    BY <1>3 DEF StTask
  <2> HIDE DEF t
  <2>3. Fits(y, p) /\ DOMAIN p = VFields
    BY <1>3, PurgeFits, FitsFields
  <2>4. Cardinality(Room(p)) <= y.cfg.seek_savestate_max_count + 1
    BY <1>0, <1>3, PurgeMakesRoom
  <2> HIDE DEF p
  <2>5. Tidy(p) /\ p.cfg = y.cfg
    BY <1>3, <2>3, FitsTidy DEF Few, Fits
  <2>6. /\ DOMAIN z = VFields /\ z.cfg = p.cfg /\ IsSeq(z.g_tasks) /\ z.jobs = p.jobs
        /\ Room(z) \subseteq Room(p) \cup {t.frame}
    BY <2>3, <2>5, OrderTaken DEF Tidy
  <2> HIDE DEF z
  <2>7. IsFiniteSet(Room(z)) /\ Cardinality(Room(z)) <= y.cfg.seek_savestate_max_count + 2
    <3> DEFINE R == Room(p)
               Q == R \cup {t.frame}
               M == y.cfg.seek_savestate_max_count
    <3>1. IsFiniteSet(R) /\ Cardinality(R) <= M + 1 /\ M \in Nat
      BY <1>3, <2>4, <2>5 DEF Tidy, Few
    <3>2. Room(z) \in SUBSET Q
      BY <2>6
    <3> HIDE DEF R, M
    <3>3. IsFiniteSet(Q) /\ Cardinality(Q) = IF t.frame \in R THEN Cardinality(R) ELSE Cardinality(R) + 1
      BY <3>1, FS_AddElement
    <3> HIDE DEF Q
    <3>4. IsFiniteSet(Room(z)) /\ Cardinality(Room(z)) <= Cardinality(Q)
      BY <3>2, <3>3, FS_Subset
    <3>5. Cardinality(R) \in Nat /\ Cardinality(Q) \in Nat /\ Cardinality(Room(z)) \in Nat
      BY <3>1, <3>3, <3>4, FS_CardinalityType
    <3>6. Cardinality(Room(z)) <= M + 2
      BY <3>1, <3>3, <3>4, <3>5
    <3> QED BY <3>4, <3>6 DEF M
  <2>8. Room(z) \subseteq Nat
    BY <1>0, <2>2, <2>5, <2>6 DEF Tidy
  <2>9. Few(z)
    BY <1>3, <2>5, <2>6, <2>7, <2>8 DEF Few, Tidy
  <2> QED BY <1>3, <2>1, <2>6, <2>9
<1> QED BY <1>4 DEF before_input, x, y

LEMMA RecordingFits ==
    ASSUME NEW v, DOMAIN v = VFields, NEW index, NEW keys
    PROVE  Fits(v, vcr_handle_recording(v, index, keys))
<1> DEFINE m == append_input(v, recording_input(v, index, keys))
           x == IF use_inputs_from_buffer(v, index) THEN v ELSE m
           y == next_sample(x)
           p == [y EXCEPT !.vcr_reset_requested = FALSE]
           u == [p EXCEPT !.g_reset_pending = TRUE]
           j == Job("user_reset", 0, NoMovie)
           z == vcr_handle_recording(v, index, keys)
<1>1. z \in {y, submit_task(u, j)}
  BY DEF vcr_handle_recording, user_reset
<1>2. Fits(v, x) /\ DOMAIN x = VFields
  BY PlainFits, FitsItself, FitsFields
<1>3. j.what # "seek_load"
  BY DEF Job
<1> HIDE DEF x, z, j
<1>4. Fits(x, y) /\ DOMAIN y = VFields
  BY <1>2, PlainFits, FitsFields
<1> HIDE DEF y
<1>5. Fits(y, p) /\ DOMAIN p = VFields
  BY <1>4, FieldsFit, FitsFields
<1> HIDE DEF p
<1>6. Fits(p, u) /\ DOMAIN u = VFields
  BY <1>5, FieldsFit, FitsFields
<1> HIDE DEF u
<1>7. Fits(u, submit_task(u, j))
  BY <1>3, <1>6, JobFits
<1>8. Fits(v, y) /\ Fits(v, u)
  BY <1>2, <1>4, <1>5, <1>6, FitsTransitive
<1>9. Fits(v, z)
  BY <1>1, <1>7, <1>8, FitsTransitive
<1> QED BY <1>9 DEF z

LEMMA PlayingFits ==
    ASSUME NEW v, DOMAIN v = VFields, NEW index PROVE Fits(v, vcr_handle_playback(v, index))
<1> DEFINE w == pause_at_movie_end(v)
           u == [w EXCEPT !.g_reset_pending = TRUE]
           j == Job("movie_reset", 0, NoMovie)
           m == submit_task(u, j)
           x == core_vcr_stop_all(w)
           z == vcr_handle_playback(v, index)
<1>1. \E path : z \in {x, core_vcr_start_playback(x, path), next_sample(w), next_sample(m)}
  BY DEF vcr_handle_playback, movie_ended, movie_reset
<1>2. Fits(v, w) /\ DOMAIN w = VFields
  BY PlainFits, FitsItself, FitsFields DEF pause_at_movie_end
<1>3. j.what # "seek_load"
  BY DEF Job
<1> HIDE DEF w, z, j
<1>4. Fits(w, x) /\ DOMAIN x = VFields /\ Fits(w, next_sample(w))
  BY <1>2, StopFits, PlainFits, FitsFields
<1>5. Fits(w, u) /\ DOMAIN u = VFields
  BY <1>2, FieldsFit, FitsFields
<1> HIDE DEF x, u
<1>6. Fits(u, m) /\ DOMAIN m = VFields
  BY <1>3, <1>5, JobFits, FitsFields
<1> HIDE DEF m
<1>7. Fits(m, next_sample(m)) /\ \A path : Fits(x, core_vcr_start_playback(x, path))
  BY <1>4, <1>6, PlainFits, PlaybackFits
<1>8. Fits(v, x) /\ Fits(v, next_sample(w)) /\ Fits(v, m)
  BY <1>2, <1>4, <1>5, <1>6, FitsTransitive
<1>9. Fits(v, z)
  BY <1>1, <1>7, <1>8, FitsTransitive
<1> QED BY <1>9 DEF z

\* A poll, with no seek savestate in the making and none looked up unless one is loaded.
LEMMA PollFew ==
    ASSUME NEW v, Engine(v), Few(v), Orders(v) = {},
           ~v.g_seek_savestate_loading => Wanted(v) = {},
           \A f \in DOMAIN v.g_seek_savestates : f <= v.length_samples,
           NEW index, NEW keys
    PROVE  Few(vcr_on_controller_poll(v, index, keys))
<1> DEFINE w == before_input(v)
           z == vcr_on_controller_poll(v, index, keys)
<1>1. CASE poll_is_skipped(v) \/ v.g_task = "task_idle"
  <2>1. z = v
    BY <1>1 DEF vcr_on_controller_poll
  <2> QED BY <2>1
<1>2. CASE ~poll_is_skipped(v) /\ v.g_task # "task_idle"
  <2>1. Begun(v) /\ Wanted(v) = {}
    BY <1>2 DEF Engine, BegunOK, poll_is_skipped
  <2>2. Few(w) /\ DOMAIN w = VFields
    BY <2>1, BeforeInputFew
  <2>3. z \in {w, vcr_handle_recording(w, index, keys), vcr_handle_playback(w, index)}
    BY <1>2 DEF vcr_on_controller_poll
  <2> HIDE DEF w, z
  <2>4. Fits(w, z)
    BY <2>2, <2>3, FitsItself, RecordingFits, PlayingFits
  <2>5. Few(z)
    BY <2>2, <2>4, FitsFew
  <2> QED BY <2>5 DEF z
<1> QED BY <1>1, <1>2

\* The callback of a task that was performed, which makes no savestate but an ordered one.
LEMMA DoneFits ==
    ASSUME NEW v, DOMAIN v = VFields, NEW t, NEW st, t.what = "seek_save" => t.frame \in Room(v)
    PROVE  Fits(v, task_done(v, t, st))
<1> DEFINE F == [f \in DOMAIN v.g_seek_savestates \cup {t.frame} |->
                   IF f = t.frame THEN st ELSE v.g_seek_savestates[f]]
<1>1. \/ task_done(v, t, st) \in {v, [v EXCEPT !.g_seek_savestate_loading = FALSE],
                                  set_task(v, "task_recording"), set_task(v, "task_playback")}
      \/ t.what = "seek_save" /\ task_done(v, t, st) = [v EXCEPT !.g_seek_savestates = F]
  BY DEF task_done
<1>2. t.what = "seek_save" => DOMAIN F \subseteq Room(v)
  BY DEF Room
<1> HIDE DEF F
<1>3. t.what = "seek_save" => Fits(v, [v EXCEPT !.g_seek_savestates = F])
  BY <1>2, SavestatesFit
<1>4. /\ Fits(v, v) /\ Fits(v, [v EXCEPT !.g_seek_savestate_loading = FALSE])
      /\ Fits(v, set_task(v, "task_recording")) /\ Fits(v, set_task(v, "task_playback"))
  BY PlainFits, FieldsFit, FitsItself
<1> QED BY <1>1, <1>3, <1>4

LEMMA FailureFits == ASSUME NEW v, DOMAIN v = VFields, NEW t PROVE Fits(v, task_failed(v, t))
<1> DEFINE s == [v EXCEPT !.g_seek_savestate_loading = FALSE]
<1>1. task_failed(v, t) \in {v, core_vcr_stop_all(v), core_vcr_stop_seek(s)}
  BY DEF task_failed
<1>2. Fits(v, s) /\ DOMAIN s = VFields
  BY FieldsFit, FitsFields
<1> HIDE DEF s
<1>3. Fits(v, core_vcr_stop_seek(s))
  BY <1>2, PlainFits, FitsTransitive
<1> QED BY <1>1, <1>3, StopFits, FitsItself

LEMMA TaskFits == ASSUME Inv, st_do_work_task PROVE Fits(vcr, vcr')
<1> DEFINE t == vcr.g_tasks[next]
<1>0. DOMAIN vcr = VFields
  BY DEF Inv, Engine
<1>1. /\ next \in 1 .. Len(vcr.g_tasks)
      /\ savestates_save_immediate_impl(t) \/ savestates_load_immediate_impl(t)
  <2>1. next \in Nat \ {0} /\ Len(vcr.g_tasks) \in Nat
    BY DEF Inv, Engine, TasksOK, IsSeq
  <2> QED BY <2>1 DEF st_do_work_task
<1>2. t.what = "seek_save" => t.frame \in Orders(vcr)
  BY <1>1 DEF Orders
<1>3. CASE savestates_save_immediate_impl(t)
  <2> DEFINE v == write_movie(vcr)
             st == savestate(vcr)
             y == [v EXCEPT !.snapshots[t.path] = st]
  <2>1. vcr' \in {task_done(v, t, st), task_done(y, t, st), task_failed(v, t)}
    BY <1>3 DEF savestates_save_immediate_impl
  <2>2. Fits(vcr, v) /\ DOMAIN v = VFields /\ v.g_tasks = vcr.g_tasks
    BY <1>0, PlainFits, FitsFields DEF write_movie, write_movie_impl, VFields
  <2> HIDE DEF v, st, t
  <2>3. Fits(v, y) /\ DOMAIN y = VFields /\ y.g_tasks = vcr.g_tasks
    BY <2>2, FieldsFit, FitsFields DEF VFields
  <2> HIDE DEF y
  <2>4. t.what = "seek_save" => t.frame \in Room(v) /\ t.frame \in Room(y)
    BY <1>2, <2>2, <2>3 DEF Orders, Room
  <2>5. Fits(v, task_done(v, t, st)) /\ Fits(y, task_done(y, t, st)) /\ Fits(v, task_failed(v, t))
    BY <2>2, <2>3, <2>4, DoneFits, FailureFits
  <2>6. Fits(vcr, y)
    BY <2>2, <2>3, FitsTransitive
  <2> QED BY <2>1, <2>2, <2>5, <2>6, FitsTransitive
<1>4. CASE savestates_load_immediate_impl(t)
  <2> DEFINE st == task_buffer(t)
             u == unfrozen(st)
  <2>1. t.what # "seek_save"
    BY <1>4 DEF savestates_load_immediate_impl, LoadTasks
  <2>2. vcr' \in {task_failed(vcr, t), task_failed(u, t), task_done(u, t, st)}
    BY <1>4 DEF savestates_load_immediate_impl
  <2>3. Fits(vcr, u) /\ DOMAIN u = VFields
    BY <1>0, UnfreezeFits, FitsItself, FitsFields DEF unfrozen
  <2> HIDE DEF st, u, t
  <2>4. Fits(u, task_failed(u, t)) /\ Fits(u, task_done(u, t, st)) /\ Fits(vcr, task_failed(vcr, t))
    BY <1>0, <2>1, <2>3, FailureFits, DoneFits
  <2> QED BY <2>2, <2>3, <2>4, FitsTransitive
<1> QED BY <1>1, <1>3, <1>4

\* Of the steps of the emulation thread, only a poll may order a seek savestate.
LEMMA EmuThreadFits ==
    ASSUME Inv, EmuThread, ~internal_ReadController
    PROVE  /\ Fits(vcr, vcr') /\ channel' \in {0, channel}
           /\ pif' = "poll" => vcr'.g_tasks = << >>
<1>0. DOMAIN vcr = VFields /\ Fits(vcr, vcr)
  BY FitsItself DEF Inv, Engine
<1>1. CASE update_pif_read
  <2> DEFINE x == [vcr EXCEPT !.frame_advance_outstanding = 0]
             y == [vcr EXCEPT !.frame_advance_outstanding = vcr.frame_advance_outstanding - 1]
  <2>1. vcr' \in {vcr, y, core_vr_pause_emu(x)} /\ channel' = channel /\ pif' # "poll"
    BY <1>1 DEF update_pif_read, advance_frame
  <2>2. Fits(vcr, x) /\ Fits(vcr, y) /\ DOMAIN x = VFields
    BY <1>0, FieldsFit, FitsFields
  <2> HIDE DEF x, y
  <2>3. Fits(vcr, core_vr_pause_emu(x))
    BY <2>2, PlainFits, FitsTransitive
  <2> QED BY <1>0, <2>1, <2>2, <2>3
<1>2. CASE pif_resumed \/ pif_no_work
  BY <1>0, <1>2 DEF pif_resumed, pif_no_work
<1>3. CASE st_do_work_begin
  <2>1. vcr' \in {vcr, write_movie(vcr)} /\ channel' = channel /\ pif' # "poll"
    BY <1>3 DEF st_do_work_begin
  <2> QED BY <1>0, <2>1, PlainFits
<1>4. CASE st_do_work_task
  <2>1. channel' = channel /\ pif' # "poll"
    BY <1>4 DEF st_do_work_task, working
  <2> QED BY <1>4, <2>1, TaskFits
<1>5. CASE st_do_work_end \/ emu_thread_ends
  <2>1. /\ \/ vcr' = [vcr EXCEPT !.g_tasks = << >>]
           \/ vcr' = [vcr EXCEPT !.core_executing = FALSE, !.emu_paused = TRUE, !.g_tasks = << >>]
        /\ channel' \in {0, channel}
    BY <1>5 DEF st_do_work_end, emu_thread_ends
  <2>2. /\ DOMAIN vcr' = VFields /\ vcr'.cfg = vcr.cfg /\ vcr'.g_tasks = << >>
        /\ vcr'.jobs = vcr.jobs /\ vcr'.g_seek_savestates = vcr.g_seek_savestates
    BY <1>0, <2>1 DEF VFields
  <2>3. IsSeq(<< >>) /\ Len(<< >>) = 0
    BY EmptyQueues DEF TasksOK
  <2>4. Orders(vcr') = {} /\ Wanted(vcr') = Wanted(vcr)
    BY <2>2, <2>3 DEF Orders, Wanted
  <2>5. Fits(vcr, vcr')
    BY <2>2, <2>3, <2>4 DEF Fits, Room, Tidy
  <2> QED BY <2>1, <2>2, <2>5
<1> QED BY <1>1, <1>2, <1>3, <1>4, <1>5 DEF EmuThread

\* A worker that takes a job, and makes the empty entry that it looks up.
LEMMA JobTakenFits ==
    ASSUME NEW v, DOMAIN v = VFields, IsSeq(v.jobs), NEW i \in 1 .. Len(v.jobs)
    PROVE  LET a == without_job(v, i)
               b == touch_seek_savestate(a, v.jobs[i].frame)
           IN  /\ Fits(v, a) /\ DOMAIN b = VFields
               /\ v.jobs[i].what = "seek_load" => Fits(v, b)
<1> DEFINE a == without_job(v, i)
           j == v.jobs[i]
           b == touch_seek_savestate(a, j.frame)
<1>1. /\ DOMAIN a = VFields /\ a.cfg = v.cfg /\ a.jobs = RemoveIndex(v.jobs, i)
      /\ a.g_tasks = v.g_tasks /\ a.g_seek_savestates = v.g_seek_savestates
  BY DEF without_job, VFields
<1> HIDE DEF a
<1>2. /\ DOMAIN b = VFields /\ b.cfg = v.cfg /\ b.jobs = a.jobs /\ b.g_tasks = v.g_tasks
      /\ DOMAIN b.g_seek_savestates = DOMAIN v.g_seek_savestates \cup {j.frame}
  BY <1>1 DEF touch_seek_savestate, VFields
<1> HIDE DEF b
<1>3. /\ IsSeq(a.jobs) /\ Len(v.jobs) \in Nat /\ Len(a.jobs) = Len(v.jobs) - 1
      /\ \A k \in 1 .. Len(v.jobs) - 1 : a.jobs[k] = IF k < i THEN v.jobs[k] ELSE v.jobs[k + 1]
  <2> DEFINE q == v.jobs
             r == RemoveIndex(q, i)
  <2>1. IsSeq(q) /\ i \in 1 .. Len(q)
    OBVIOUS
  <2> HIDE DEF q
  <2>2. /\ IsSeq(r) /\ Len(q) \in Nat /\ Len(r) = Len(q) - 1
        /\ \A k \in 1 .. Len(q) - 1 : r[k] = IF k < i THEN q[k] ELSE q[k + 1]
    BY <2>1, TakenOut
  <2> HIDE DEF r
  <2>3. a.jobs = r /\ v.jobs = q
    BY <1>1 DEF q, r
  <2> QED BY <2>2, <2>3
<1>4. ASSUME NEW k \in 1 .. Len(a.jobs), a.jobs[k].what = "seek_load"
      PROVE  a.jobs[k].frame \in Wanted(v)
  <2>1. \E m \in 1 .. Len(v.jobs) : a.jobs[k] = v.jobs[m]
    <3>1. k \in 1 .. Len(v.jobs) /\ k + 1 \in 1 .. Len(v.jobs)
      BY <1>3
    <3> QED BY <1>3, <3>1
  <2> QED BY <1>4, <2>1 DEF Wanted
<1>5. Wanted(a) \subseteq Wanted(v) /\ Wanted(b) = Wanted(a)
  BY <1>2, <1>4 DEF Wanted
<1>6. Orders(a) = Orders(v) /\ Orders(b) = Orders(v)
  BY <1>1, <1>2 DEF Orders
<1>7. Fits(v, a)
  BY <1>1, <1>3, <1>5, <1>6 DEF Fits, Room, Tidy
<1>8. j.what = "seek_load" => Fits(v, b)
  <2>1. j.what = "seek_load" => j.frame \in Wanted(v)
    BY DEF Wanted
  <2> HIDE DEF j
  <2> QED BY <1>2, <1>3, <1>5, <1>6, <2>1 DEF Fits, Room, Tidy
<1> QED BY <1>2, <1>7, <1>8 DEF a, b

LEMMA WorkersFit ==
    ASSUME Inv, Workers
    PROVE  Fits(vcr, vcr') /\ channel' = channel /\ pif' \in {"frame", pif}
<1>0. DOMAIN vcr = VFields /\ Fits(vcr, vcr) /\ IsSeq(vcr.jobs)
  BY FitsItself DEF Inv, Engine, JobsOK
<1>1. ASSUME NEW i \in 1 .. Len(vcr.jobs), job_load(i)
      PROVE  Fits(vcr, vcr') /\ UNCHANGED <<pif, channel>>
  <2> DEFINE j == vcr.jobs[i]
             a == without_job(vcr, i)
             b == touch_seek_savestate(a, j.frame)
             u == IF j.what = "seek_load" THEN b ELSE a
             t == job_task(vcr, j)
  <2>1. vcr' \in {st_push(u, t), task_failed(u, t)} /\ UNCHANGED <<pif, channel>>
    BY <1>1 DEF job_load
  <2>2. t.what # "seek_save"
    BY <1>1, RequestFields DEF job_load, job_task, LoadTasks
  <2>3. Fits(vcr, a) /\ (j.what = "seek_load" => Fits(vcr, b))
    BY <1>0, JobTakenFits
  <2> HIDE DEF a, b, j, t
  <2>4. Fits(vcr, u) /\ DOMAIN u = VFields
    BY <2>3, FitsFields
  <2> HIDE DEF u
  <2>5. Fits(u, st_push(u, t)) /\ Fits(u, task_failed(u, t))
    BY <2>2, <2>4, PushFits, FailureFits
  <2> QED BY <2>1, <2>4, <2>5, FitsTransitive
<1>2. ASSUME NEW i \in 1 .. Len(vcr.jobs), vr_reset_rom_impl(i) \/ vr_close_rom_impl(i)
      PROVE  Fits(vcr, vcr') /\ UNCHANGED <<pif, channel>>
  <2> DEFINE u == without_job(vcr, i)
             a == [u EXCEPT !.vcr_reset_requested = TRUE]
             b == stop_frame_advance(u)
  <2>1. /\ \/ vcr' \in {u, a}
           \/ \E x \in {u, b} : \E what : vcr' = close_rom(x, what)
        /\ UNCHANGED <<pif, channel>>
    BY <1>2 DEF vr_reset_rom_impl, vr_close_rom_impl
  <2>2. Fits(vcr, u) /\ DOMAIN u = VFields
    BY <1>0, JobTakenFits, FitsFields
  <2> HIDE DEF u
  <2>3. Fits(u, a) /\ Fits(u, b) /\ DOMAIN b = VFields
    BY <2>2, PlainFits, FieldsFit, FitsFields
  <2> HIDE DEF a, b
  <2>4. ASSUME NEW x, DOMAIN x = VFields, NEW what PROVE Fits(x, close_rom(x, what))
    <3> DEFINE r == core_vr_resume_emu_impl(x, TRUE)
    <3>1. Fits(x, r) /\ DOMAIN r = VFields
      BY <2>4, PlainFits, FitsFields
    <3>2. close_rom(x, what) \in {r, core_vcr_stop_all(r)}
      BY DEF close_rom
    <3> HIDE DEF r
    <3> QED BY <3>1, <3>2, StopFits, FitsTransitive
  <2>5. Fits(vcr, a) /\ Fits(vcr, b)
    BY <2>2, <2>3, FitsTransitive
  <2>6. \A x \in {u, b} : \A what : Fits(vcr, close_rom(x, what))
    BY <2>2, <2>3, <2>4, <2>5, FitsTransitive
  <2> QED BY <2>1, <2>2, <2>5, <2>6
<1>3. CASE vr_start_rom_impl
  <2>1. /\ vcr' \in {vcr, [vcr EXCEPT !.core_executing = TRUE, !.emu_paused = FALSE]}
        /\ pif' \in {"frame", pif} /\ channel' = channel
    BY <1>3 DEF vr_start_rom_impl
  <2>2. Fits(vcr, [vcr EXCEPT !.core_executing = TRUE, !.emu_paused = FALSE])
    BY <1>0, FieldsFit
  <2> QED BY <1>0, <2>1, <2>2
<1>4. CASE rom_closed
  BY <1>0, <1>4 DEF rom_closed
<1>5. CASE reset_callback
  <2> DEFINE n == no_reset_pending(vcr)
  <2>1. /\ vcr' \in {vcr, n, started(n, "task_recording"), started(n, "task_playback"),
                     core_vcr_stop_all(n)}
        /\ UNCHANGED <<pif, channel>>
    BY <1>5 DEF reset_callback, reset_done, reset_failed
  <2>2. Fits(vcr, n) /\ DOMAIN n = VFields
    BY <1>0, PlainFits, FitsFields
  <2> HIDE DEF n
  <2>3. /\ Fits(n, started(n, "task_recording")) /\ Fits(n, started(n, "task_playback"))
        /\ Fits(n, core_vcr_stop_all(n))
    BY <2>2, PlainFits, StopFits
  <2> QED BY <1>0, <2>1, <2>2, <2>3, FitsTransitive
<1>6. ASSUME NEW i \in 1 .. Len(vcr.jobs), job_load(i) \/ vr_reset_rom_impl(i) \/ vr_close_rom_impl(i)
      PROVE  Fits(vcr, vcr') /\ UNCHANGED <<pif, channel>>
  BY <1>1, <1>2, <1>6
<1> QED BY <1>3, <1>4, <1>5, <1>6 DEF Workers

LEMMA UserFits == ASSUME Inv, User PROVE Fits(vcr, vcr') /\ UNCHANGED <<pif, channel>>
<1>0. DOMAIN vcr = VFields
  BY DEF Inv, Engine
<1> DEFINE Goal == Fits(vcr, vcr') /\ UNCHANGED <<pif, channel>>
<1>s. \A op, v : Fits(vcr, v) /\ user(op, v) => Goal
  BY DEF user
<1> HIDE DEF Goal
<1>1. ASSUME NEW path \in Movies, NEW flags \in StartFlags, user_start_record(path, flags)
      PROVE  Goal
  <2>1. Fits(vcr, core_vcr_start_record(vcr, path, flags, recordings + 2))
    BY <1>0, RecordFits
  <2> QED BY <1>s, <1>1, <2>1 DEF user_start_record
<1>d. ASSUME NEW path \in Movies, user_declines_record(path) PROVE Goal
  <2> DEFINE x == core_vcr_stop_all(vcr)
             w == [x EXCEPT !.g_movie_path = path]
  <2>1. Fits(vcr, x) /\ DOMAIN x = VFields
    BY <1>0, StopFits, FitsFields
  <2>2. user("decline", w)
    BY <1>d DEF user_declines_record, core_vcr_start_record_declined
  <2> HIDE DEF x
  <2>3. SameRoom(x, w)
    BY <2>1 DEF SameRoom, VFields
  <2> HIDE DEF w
  <2> QED BY <1>s, <2>1, <2>2, <2>3, SameRoomFits, FitsTransitive
<1>2. ASSUME NEW path \in Movies, user_start_playback(path) PROVE Goal
  <2>1. Fits(vcr, core_vcr_start_playback(vcr, path))
    BY <1>0, PlaybackFits
  <2> QED BY <1>s, <1>2, <2>1 DEF user_start_playback
<1>3. ASSUME user_stop_all PROVE Goal
  BY <1>0, <1>s, <1>3, StopFits DEF user_stop_all
<1>4. ASSUME NEW frame, NEW pause, user_begin_seek(frame, pause) PROVE Goal
  <2>1. Fits(vcr, core_vcr_begin_seek(vcr, frame, pause))
    BY <1>0, SeekFits DEF core_vcr_begin_seek
  <2> QED BY <1>s, <1>4, <2>1 DEF user_begin_seek
<1>5. ASSUME user_stop_seek PROVE Goal
  BY <1>0, <1>s, <1>5, PlainFits DEF user_stop_seek
<1>6. ASSUME NEW inputs, user_begin_warp_modify(inputs) PROVE Goal
  <2>1. Fits(vcr, core_vcr_begin_warp_modify(vcr, inputs))
    BY <1>0, WarpFits
  <2> QED BY <1>s, <1>6, <2>1 DEF user_begin_warp_modify
<1>7. ASSUME NEW what \in {"slot_save", "slot_load"}, user_savestate(what) PROVE Goal
  <2> DEFINE t == StTask(what, 0, NoMovie, NoState)
  <2>1. t.what # "seek_save"
    BY RequestFields
  <2>2. user(what, st_push(vcr, t))
    BY <1>7 DEF user_savestate
  <2> HIDE DEF t
  <2> QED BY <1>0, <1>s, <2>1, <2>2, PushFits
<1>8. ASSUME user_pause PROVE Goal
  <2>1. /\ Fits(vcr, core_vr_pause_emu(vcr)) /\ Fits(vcr, core_vr_resume_emu(vcr))
        /\ Fits(vcr, core_vr_frame_advance(vcr, 1))
    BY <1>0, PlainFits
  <2> QED BY <1>s, <1>8, <2>1 DEF user_pause
<1>9. ASSUME user_toggle_readonly PROVE Goal
  <2>1. Fits(vcr, [vcr EXCEPT !.vcr_readonly = ~vcr.vcr_readonly])
    BY <1>0, FieldsFit
  <2>2. user("readonly", [vcr EXCEPT !.vcr_readonly = ~vcr.vcr_readonly])
    BY <1>9 DEF user_toggle_readonly
  <2> QED BY <1>s, <2>1, <2>2
<1>10. ASSUME user_reset_rom PROVE Goal
  <2> DEFINE r == Job("ui_reset", 0, NoMovie)
             c == Job("ui_close", 0, NoMovie)
  <2>1. \E op : user(op, submit_task(vcr, r)) \/ user(op, submit_task(vcr, c))
    BY <1>10 DEF user_reset_rom
  <2>2. r.what # "seek_load" /\ c.what # "seek_load"
    BY RequestFields
  <2> HIDE DEF r, c
  <2>3. Fits(vcr, submit_task(vcr, r)) /\ Fits(vcr, submit_task(vcr, c))
    BY <1>0, <2>2, JobFits
  <2> QED BY <1>s, <2>1, <2>3
<1>11. Goal
  BY <1>1, <1>2, <1>d, <1>3, <1>4, <1>5, <1>6, <1>7, <1>8, <1>9, <1>10 DEF User
<1> QED BY <1>11 DEF Goal

\* No seek savestate lies beyond the end of the movie.
NoneBeyond == \A f \in DOMAIN vcr.g_seek_savestates : f <= vcr.length_samples

\* The seek savestates are few, and none is in the making when the controller is read.
FewInv == Few(vcr) /\ channel = 0 /\ (pif = "poll" => Orders(vcr) = {})

LEMMA FewStep ==
    ASSUME Watched, FewInv, NoneBeyond, [Next]_vars, Controllers = 1 PROVE FewInv'
<1>0. Inv /\ Few(vcr) /\ channel = 0 /\ Engine(vcr)
  BY DEF Watched, FewInv, Inv
<1>1. CASE UNCHANGED vars
  BY <1>1 DEF vars, FewInv
<1>2. ASSUME Fits(vcr, vcr'), channel' \in {0, channel},
             (pif' = "poll" => vcr'.g_tasks = << >>) \/ pif' \in {"frame", pif}
      PROVE  FewInv'
  <2>1. Few(vcr')
    BY <1>0, <1>2, FitsFew
  <2>2. Orders(vcr') \subseteq Orders(vcr)
    BY <1>0, <1>2 DEF Few, Fits
  <2>3. vcr'.g_tasks = << >> => Orders(vcr') = {}
    <3>1. Len(<< >>) = 0
      OBVIOUS
    <3> QED BY <3>1 DEF Orders
  <2>4. pif' = "poll" => Orders(vcr') = {}
    BY <1>2, <2>2, <2>3 DEF FewInv
  <2> QED BY <1>0, <1>2, <2>1, <2>4 DEF FewInv
<1>3. CASE internal_ReadController
  <2>1. PICK keys \in Buttons : vcr' = vcr_on_controller_poll(vcr, channel, keys)
    BY <1>3 DEF internal_ReadController
  <2>2. channel' = 0 /\ pif' = "frame" /\ Orders(vcr) = {}
    BY <1>0, <1>3 DEF internal_ReadController, FewInv
  <2>3. ~vcr.g_seek_savestate_loading => Wanted(vcr) = {}
    BY DEF Watched, Lone, Ahead, JobIn, Wanted
  <2>4. Few(vcr')
    BY <1>0, <2>1, <2>2, <2>3, PollFew DEF NoneBeyond
  <2> QED BY <2>2, <2>4 DEF FewInv
<1>4. CASE EmuThread /\ ~internal_ReadController
  BY <1>0, <1>2, <1>4, EmuThreadFits
<1>5. CASE Workers
  BY <1>0, <1>2, <1>5, WorkersFit
<1>6. CASE User
  BY <1>0, <1>2, <1>6, UserFits
<1> QED BY <1>1, <1>3, <1>4, <1>5, <1>6 DEF Next

\* The settings of the scenarios leave room for a seek savestate.
RoomGiven == \A s \in Scenarios : s.cfg.seek_savestate_max_count >= 1

LEMMA InitFew == ASSUME Init, RoomGiven PROVE FewInv
<1>1. /\ vcr.jobs = << >> /\ vcr.g_tasks = << >> /\ vcr.g_seek_savestates = << >>
      /\ vcr.cfg = scene.cfg
  BY DEF Init, InitialVcr
<1>2. scene.cfg.seek_savestate_max_count \in Nat \ {0}
  <2>1. scene \in Scenarios
    BY DEF Init
  <2>2. scene.cfg.seek_savestate_max_count \in Nat
    BY <2>1, ScenariosAssumption DEF Cfg
  <2> QED BY <2>1, <2>2 DEF RoomGiven
<1>3. IsSeq(<< >>) /\ Len(<< >>) = 0 /\ DOMAIN << >> = {}
  BY EmptyQueues DEF TasksOK
<1>4. Room(vcr) = {0} /\ Orders(vcr) = {}
  BY <1>1, <1>3 DEF Room, Orders, Wanted
<1>5. IsFiniteSet({0}) /\ Cardinality({0}) = 1
  BY FS_Singleton
<1>6. Few(vcr)
  BY <1>1, <1>2, <1>3, <1>4, <1>5 DEF Few, Tidy
<1>7. channel = 0
  BY DEF Init
<1> QED BY <1>4, <1>6, <1>7 DEF FewInv

\* The map of seek savestates exceeds its configured size by at most two, with one
\* controller, a size of at least one and in every scenario, as long as no seek savestate
\* lies beyond the end of the movie, where vcr_create_n_frame_savestate does not look for
\* one to purge.
THEOREM SeekSavestatesAreFew ==
    ASSUME Controllers = 1, RoomGiven
    PROVE  Spec => ([]NoneBeyond => []SeekSavestatesBounded)
<1>1. Init => FewInv /\ Watched
  BY InitFew, InitWatched
<1>2. Watched /\ FewInv /\ NoneBeyond /\ [Next]_vars => FewInv'
  BY FewStep
<1>3. FewInv => SeekSavestatesBounded
  <2> SUFFICES ASSUME FewInv PROVE SeekSavestatesBounded
    OBVIOUS
  <2> DEFINE D == DOMAIN vcr.g_seek_savestates
             R == Room(vcr)
             M == vcr.cfg.seek_savestate_max_count
  <2>1. IsFiniteSet(R) /\ Cardinality(R) <= M + 2 /\ M \in Nat
    BY DEF FewInv, Few, Tidy
  <2>2. D \in SUBSET R
    BY DEF Room
  <2> HIDE DEF D, R, M
  <2>3. Cardinality(D) <= Cardinality(R) /\ Cardinality(D) \in Nat /\ Cardinality(R) \in Nat
    BY <2>1, <2>2, FS_Subset, FS_CardinalityType
  <2>4. Cardinality(D) <= M + 2
    BY <2>1, <2>3
  <2> QED BY <2>4 DEF D, M, SeekSavestatesBounded
<1> QED BY <1>1, <1>2, <1>3, RequestsAreWatched, PTL DEF Spec

=============================================================================
