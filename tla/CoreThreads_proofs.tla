------------------------- MODULE CoreThreads_proofs -------------------------
(***************************************************************************)
(* Proofs about CoreThreads: what is done under a mutex is done by the     *)
(* thread that holds it, in every scenario and with any number of workers. *)
(*                                                                         *)
(* A thread holds the rest of its program as a sequence of steps, which    *)
(* steps themselves may extend (Expansion).  The invariant is therefore    *)
(* about programs: a program RUNS from depth a to depth b of a mutex when  *)
(* a depth can be given to every point of it so that locks and unlocks     *)
(* count up and down, nothing is unlocked at depth 0, and what the mutex   *)
(* protects is reached at a positive depth only.  Programs that run can be *)
(* put one after the other, so that the functions of the source are        *)
(* treated one by one.                                                     *)
(***************************************************************************)
EXTENDS CoreThreads, SequenceTheorems, TLAPS

-----------------------------------------------------------------------------
(* Programs                                                                *)

PlainOps == Expandable \cup Assignments
                \cup {"task_done", "clear_tasks", "launch", "await_executing"}

JobNames == {"slot_save", "slot_load", "seek_load", "movie_load", "stop_movie",
             "start_playback", "start_record", "seek", "seek_slow", "close", "reset",
             "start", "movie_reset"}

TaskNames == {"slot_save", "slot_load", "seek_save", "seek_load", "movie_load",
              "record_start"}

Steps ==
    (PlainOps \X {""}) \cup ({"lock", "unlock"} \X Mutexes) \cup ({"submit"} \X JobNames)
        \cup ({"push"} \X TaskNames) \cup ({"send"} \X Windows)
        \cup ({"join"} \X {"emu", "audio"})

Programs == Seq(Steps)

\* The mutex that protects what a step does: vcr_mutex the map of seek savestates,
\* the lookup in the job of a seek excepted, the tests of a seek, and the engine that
\* ensure_core leaves for a while, g_task_mutex the queue of
\* savestate tasks, g_emu_cs the start and the end of the core.
Under(m) ==
    CASE m = "vcr_mutex" -> {"read", "write", "begin_seek", "ensure_core"}
      [] m = "g_task_mutex" -> {"push", "task_done", "clear_tasks", "run_tasks"}
      [] OTHER -> {"launch", "join", "close_if_launched", "reset_if_launched", "stop_audio",
                   "audio_stopped", "terminate_emu"}

\* The depth of m after a step, and whether the step may be taken at depth d.
After(m, step, d) ==
    IF step[2] # m THEN d
    ELSE IF step[1] = "lock" THEN d + 1 ELSE IF step[1] = "unlock" THEN d - 1 ELSE d

May(m, step, d) ==
    step[1] \in Under(m) \/ (step[1] = "unlock" /\ step[2] = m) => d > 0

\* lev gives a depth of m to every point of s.
Depths(m, s, lev) ==
    /\ lev \in [0 .. Len(s) -> Nat]
    /\ \A i \in 1 .. Len(s) :
          May(m, s[i], lev[i - 1]) /\ lev[i] = After(m, s[i], lev[i - 1])

Runs(m, s, a, b) ==
    \E lev \in [0 .. Len(s) -> Nat] : Depths(m, s, lev) /\ lev[0] = a /\ lev[Len(s)] = b

\* A program that leaves m as it is: from any depth, or from any positive one.
Neutral(m, s) == s \in Programs /\ \A d \in Nat : Runs(m, s, d, d)
Inside(m, s) == s \in Programs /\ \A d \in Nat \ {0} : Runs(m, s, d, d)

LEMMA RunsConcat ==
    ASSUME NEW m \in Mutexes, NEW s \in Programs, NEW r \in Programs,
           NEW a \in Nat, NEW b \in Nat, NEW c \in Nat,
           Runs(m, s, a, b), Runs(m, r, b, c)
    PROVE  Runs(m, s \o r, a, c)
<1>1. PICK l \in [0 .. Len(s) -> Nat] : Depths(m, s, l) /\ l[0] = a /\ l[Len(s)] = b
  BY DEF Runs
<1>2. PICK k \in [0 .. Len(r) -> Nat] : Depths(m, r, k) /\ k[0] = b /\ k[Len(r)] = c
  BY DEF Runs
<1>3. /\ Len(s) \in Nat /\ Len(r) \in Nat /\ Len(s \o r) = Len(s) + Len(r)
      /\ \A i \in 1 .. Len(s \o r) :
            (s \o r)[i] = IF i <= Len(s) THEN s[i] ELSE r[i - Len(s)]
  BY DEF Programs
<1> DEFINE z == [i \in 0 .. Len(s) + Len(r) |-> IF i <= Len(s) THEN l[i] ELSE k[i - Len(s)]]
<1>4. z \in [0 .. Len(s \o r) -> Nat] /\ z[0] = a /\ z[Len(s \o r)] = c
  BY <1>1, <1>2, <1>3
<1>5. ASSUME NEW i \in 1 .. Len(s \o r)
      PROVE  May(m, (s \o r)[i], z[i - 1]) /\ z[i] = After(m, (s \o r)[i], z[i - 1])
  <2>1. CASE i <= Len(s)
    <3>1. i \in 1 .. Len(s) /\ z[i] = l[i] /\ z[i - 1] = l[i - 1] /\ (s \o r)[i] = s[i]
      BY <2>1, <1>3
    <3> QED BY <3>1, <1>1 DEF Depths
  <2>2. CASE i > Len(s)
    <3>1. i - Len(s) \in 1 .. Len(r) /\ z[i] = k[i - Len(s)] /\ (s \o r)[i] = r[i - Len(s)]
      BY <2>2, <1>3
    <3>2. z[i - 1] = k[(i - Len(s)) - 1]
      <4>1. CASE i = Len(s) + 1
        <5>1. i - 1 = Len(s) /\ (i - Len(s)) - 1 = 0 /\ i - 1 \in 0 .. Len(s) + Len(r)
          BY <4>1, <1>3
        <5>2. z[i - 1] = l[Len(s)]
          BY <5>1, <1>3
        <5> QED BY <5>1, <5>2, <1>1, <1>2
      <4>2. CASE i # Len(s) + 1
        <5>0. i \in Nat /\ i <= Len(s) + Len(r) /\ Len(s) \in Nat /\ Len(r) \in Nat
          BY <1>3
        <5>1. i - 1 > Len(s) /\ i - 1 \in 0 .. Len(s) + Len(r)
          BY <2>2, <4>2, <5>0
        <5>2. (i - Len(s)) - 1 = (i - 1) - Len(s)
          BY <5>0, <1>3
        <5>3. z[i - 1] = k[(i - 1) - Len(s)]
          BY <5>1, <1>3
        <5> QED BY <5>2, <5>3
      <4> QED BY <4>1, <4>2
    <3> QED BY <3>1, <3>2, <1>2 DEF Depths
  <2> QED BY <2>1, <2>2, <1>3
<1> HIDE DEF z
<1> QED BY <1>4, <1>5 DEF Runs, Depths

LEMMA RunsTail ==
    ASSUME NEW m \in Mutexes, NEW s \in Programs, s # << >>, NEW a \in Nat, NEW b \in Nat,
           Runs(m, s, a, b)
    PROVE  /\ May(m, Head(s), a)
           /\ After(m, Head(s), a) \in Nat
           /\ Runs(m, Tail(s), After(m, Head(s), a), b)
<1>1. PICK l \in [0 .. Len(s) -> Nat] : Depths(m, s, l) /\ l[0] = a /\ l[Len(s)] = b
  BY DEF Runs
<1>2. /\ Len(s) \in Nat \ {0} /\ Len(Tail(s)) = Len(s) - 1 /\ Head(s) = s[1]
      /\ \A i \in 1 .. Len(s) - 1 : Tail(s)[i] = s[i + 1]
  BY DEF Programs
<1>3. May(m, s[1], l[0]) /\ l[1] = After(m, s[1], l[0]) /\ l[1] \in Nat
  BY <1>1, <1>2 DEF Depths
<1> DEFINE z == [i \in 0 .. Len(s) - 1 |-> l[i + 1]]
<1>4. z \in [0 .. Len(Tail(s)) -> Nat] /\ z[0] = l[1] /\ z[Len(Tail(s))] = b
  BY <1>1, <1>2
<1>5. ASSUME NEW i \in 1 .. Len(Tail(s))
      PROVE  May(m, Tail(s)[i], z[i - 1]) /\ z[i] = After(m, Tail(s)[i], z[i - 1])
  <2>1. i + 1 \in 1 .. Len(s) /\ Tail(s)[i] = s[i + 1] /\ z[i] = l[i + 1] /\ z[i - 1] = l[i]
    BY <1>2
  <2>2. (i + 1) - 1 = i
    OBVIOUS
  <2> QED BY <2>1, <2>2, <1>1 DEF Depths
<1> HIDE DEF z
<1> QED BY <1>1, <1>2, <1>3, <1>4, <1>5 DEF Runs, Depths

LEMMA RunsStep ==
    ASSUME NEW m \in Mutexes, NEW step \in Steps, NEW a \in Nat, May(m, step, a),
           After(m, step, a) \in Nat
    PROVE  Runs(m, <<step>>, a, After(m, step, a))
<1> DEFINE z == [i \in 0 .. 1 |-> IF i = 0 THEN a ELSE After(m, step, a)]
<1>1. Len(<<step>>) = 1 /\ <<step>>[1] = step
  OBVIOUS
<1>2. z \in [0 .. 1 -> Nat] /\ z[0] = a /\ z[1] = After(m, step, a)
  OBVIOUS
<1> HIDE DEF z
<1>3. Depths(m, <<step>>, z)
  BY <1>1, <1>2 DEF Depths
<1> QED BY <1>1, <1>2, <1>3 DEF Runs

LEMMA RunsEmpty ==
    ASSUME NEW m \in Mutexes, NEW a \in Nat
    PROVE  Runs(m, << >>, a, a)
<1> DEFINE z == [i \in 0 .. 0 |-> a]
<1>1. z \in [0 .. Len(<< >>) -> Nat] /\ z[0] = a /\ Len(<< >>) = 0
  OBVIOUS
<1> HIDE DEF z
<1>2. Depths(m, << >>, z)
  BY <1>1 DEF Depths
<1> QED BY <1>1, <1>2 DEF Runs

-----------------------------------------------------------------------------
(* Composition                                                             *)

LEMMA NeutralIsInside ==
    ASSUME NEW m \in Mutexes, NEW s, Neutral(m, s)
    PROVE  Inside(m, s)
BY DEF Neutral, Inside

LEMMA NeutralEmpty ==
    \A m \in Mutexes : Neutral(m, << >>)
BY RunsEmpty DEF Neutral, Programs

LEMMA NeutralConcat ==
    \A m \in Mutexes : \A s, r : Neutral(m, s) /\ Neutral(m, r) => Neutral(m, s \o r)
<1> SUFFICES ASSUME NEW m \in Mutexes, NEW s, NEW r, Neutral(m, s), Neutral(m, r)
             PROVE  Neutral(m, s \o r)
  OBVIOUS
<1>1. s \o r \in Programs
  BY DEF Neutral, Programs
<1> QED BY <1>1, RunsConcat DEF Neutral

LEMMA InsideConcat ==
    \A m \in Mutexes : \A s, r : Inside(m, s) /\ Inside(m, r) => Inside(m, s \o r)
<1> SUFFICES ASSUME NEW m \in Mutexes, NEW s, NEW r, Inside(m, s), Inside(m, r)
             PROVE  Inside(m, s \o r)
  OBVIOUS
<1>1. s \o r \in Programs
  BY DEF Inside, Programs
<1> QED BY <1>1, RunsConcat DEF Inside

\* A step that m neither protects nor is about.
LEMMA NeutralStep ==
    ASSUME NEW m \in Mutexes, NEW step \in Steps, step[1] \notin Under(m), 
           step[1] \in {"lock", "unlock"} => step[2] # m
    PROVE  Neutral(m, <<step>>)
<1>1. <<step>> \in Programs
  BY DEF Programs
<1>2. \A d \in Nat : May(m, step, d) /\ After(m, step, d) = d
  BY DEF May, After
<1> QED BY <1>1, <1>2, RunsStep DEF Neutral

\* A step that m protects.
LEMMA InsideStep ==
    ASSUME NEW m \in Mutexes, NEW step \in Steps, step[1] \notin {"lock", "unlock"}
    PROVE  Inside(m, <<step>>)
<1>1. <<step>> \in Programs
  BY DEF Programs
<1>2. \A d \in Nat \ {0} : May(m, step, d) /\ After(m, step, d) = d
  BY DEF May, After
<1> QED BY <1>1, <1>2, RunsStep DEF Inside

\* What is inside a mutex may do what the mutex protects.
LEMMA LockedIsNeutral ==
    \A m \in Mutexes : \A body : Inside(m, body) => Neutral(m, Locked(m, body))
<1> SUFFICES ASSUME NEW m \in Mutexes, NEW body, Inside(m, body)
             PROVE  Neutral(m, Locked(m, body))
  OBVIOUS
<1>1. <<"lock", m>> \in Steps /\ <<"unlock", m>> \in Steps
  BY DEF Steps
<1>2. /\ Lock(m) \in Programs /\ Unlock(m) \in Programs /\ body \in Programs
      /\ Lock(m) \o body \in Programs /\ Locked(m, body) \in Programs
  BY <1>1 DEF Programs, Lock, Unlock, Inside, Locked
<1>3. ASSUME NEW d \in Nat PROVE Runs(m, Locked(m, body), d, d)
  <2>1. Runs(m, Lock(m), d, d + 1)
    <3>1. "lock" \notin Under(m)
      BY DEF Under, Mutexes
    <3>2. May(m, <<"lock", m>>, d) /\ After(m, <<"lock", m>>, d) = d + 1
      BY <3>1 DEF May, After
    <3> QED BY <3>2, <1>1, RunsStep DEF Lock
  <2>2. Runs(m, body, d + 1, d + 1)
    BY DEF Inside
  <2>3. Runs(m, Unlock(m), d + 1, d)
    <3>2. May(m, <<"unlock", m>>, d + 1) /\ After(m, <<"unlock", m>>, d + 1) = d
      BY DEF May, After
    <3> QED BY <3>2, <1>1, RunsStep DEF Unlock
  <2>4. Runs(m, Lock(m) \o body, d, d + 1)
    BY <2>1, <2>2, <1>2, RunsConcat
  <2> QED BY <2>3, <2>4, <1>2, RunsConcat DEF Locked
<1> QED BY <1>2, <1>3 DEF Neutral

\* Another mutex makes no difference.
LEMMA LockedElsewhere ==
    \A m, n \in Mutexes : \A body :
        m # n => /\ Neutral(m, body) => Neutral(m, Locked(n, body))
                 /\ Inside(m, body) => Inside(m, Locked(n, body))
<1> SUFFICES ASSUME NEW m \in Mutexes, NEW n \in Mutexes, NEW body, m # n
             PROVE  /\ Neutral(m, body) => Neutral(m, Locked(n, body))
                    /\ Inside(m, body) => Inside(m, Locked(n, body))
  OBVIOUS
<1>1. <<"lock", n>> \in Steps /\ <<"unlock", n>> \in Steps
  BY DEF Steps
<1>2. "lock" \notin Under(m) /\ "unlock" \notin Under(m)
  BY DEF Under, Mutexes
<1>3. Neutral(m, Lock(n)) /\ Neutral(m, Unlock(n))
  BY <1>1, <1>2, NeutralStep DEF Lock, Unlock
<1>4. Inside(m, Lock(n)) /\ Inside(m, Unlock(n))
  BY <1>3, NeutralIsInside
<1> QED BY <1>3, <1>4, NeutralConcat, InsideConcat DEF Locked

-----------------------------------------------------------------------------
(* The programs of the source                                              *)

Sound(s) == \A m \in Mutexes : Neutral(m, s)

\* Sound for a thread that holds n.
SoundIn(n, s) == \A m \in Mutexes : IF m = n THEN Inside(m, s) ELSE Neutral(m, s)

LEMMA SoundEmpty == Sound(<< >>)
BY NeutralEmpty DEF Sound

LEMMA SoundConcat == \A s, r : Sound(s) /\ Sound(r) => Sound(s \o r)
BY NeutralConcat DEF Sound

LEMMA SoundInConcat ==
    \A n \in Mutexes : \A s, r : SoundIn(n, s) /\ SoundIn(n, r) => SoundIn(n, s \o r)
BY NeutralConcat, InsideConcat DEF SoundIn

LEMMA SoundIsIn == \A n \in Mutexes : \A s : Sound(s) => SoundIn(n, s)
BY NeutralIsInside DEF SoundIn, Sound

LEMMA SoundLocked ==
    \A n \in Mutexes : \A s : SoundIn(n, s) => Sound(Locked(n, s))
BY LockedIsNeutral, LockedElsewhere DEF SoundIn, Sound

\* Steps that no mutex protects.
FreeOps ==
    {"begin_seek_slow", "stop_seek", "load_result", "core_vr_pause_emu", "count_frame",
     "wait_unpaused", "emu_launched_changed", "seek_begun", "seek_over", "pause", "resume",
     "core_vr_frame_advance", "frame_advanced", "resetting", "reset_done", "emu_leaves",
     "core_executing", "core_stopped", "lookup", "await_executing"}

LEMMA SoundStep ==
    ASSUME NEW step \in Steps, step[1] \in FreeOps \cup {"submit", "send"}
    PROVE  Sound(<<step>>)
<1> SUFFICES ASSUME NEW m \in Mutexes PROVE Neutral(m, <<step>>)
  BY DEF Sound
<1>1. step[1] \notin Under(m) /\ step[1] \notin {"lock", "unlock"}
  BY DEF Under, Mutexes, FreeOps
<1> QED BY <1>1, NeutralStep

LEMMA SoundInStep ==
    ASSUME NEW n \in Mutexes, NEW step \in Steps, step[1] \in Under(n)
    PROVE  SoundIn(n, <<step>>)
<1>1. step[1] \notin {"lock", "unlock"} /\ \A m \in Mutexes : m # n => step[1] \notin Under(m)
  BY DEF Under, Mutexes
<1>2. \A m \in Mutexes : m # n => Neutral(m, <<step>>)
  BY <1>1, NeutralStep
<1> QED BY <1>1, <1>2, InsideStep DEF SoundIn

LEMMA FreeSteps == \A op \in FreeOps : Sound(Do(op))
<1> SUFFICES ASSUME NEW op \in FreeOps PROVE Sound(Do(op))
  OBVIOUS
<1>1. <<op, "">> \in Steps
  BY DEF Steps, PlainOps, Expandable, Assignments, FreeOps
<1> QED BY <1>1, SoundStep DEF Do

LEMMA ProtectedSteps ==
    /\ \A op \in {"read", "write", "begin_seek", "ensure_core"} : SoundIn("vcr_mutex", Do(op))
    /\ \A op \in {"task_done", "clear_tasks", "run_tasks"} : SoundIn("g_task_mutex", Do(op))
    /\ \A task \in TaskNames : SoundIn("g_task_mutex", Push(task))
    /\ \A op \in {"launch", "close_if_launched", "reset_if_launched", "stop_audio",
                  "audio_stopped", "terminate_emu"} : SoundIn("g_emu_cs", Do(op))
    /\ \A t \in {"emu", "audio"} : SoundIn("g_emu_cs", Join(t))
<1> USE DEF Mutexes
<1>1. \A op \in {"read", "write", "begin_seek", "ensure_core"} : SoundIn("vcr_mutex", Do(op))
  <2> SUFFICES ASSUME NEW op \in {"read", "write", "begin_seek", "ensure_core"}
               PROVE  SoundIn("vcr_mutex", Do(op))
    OBVIOUS
  <2>1. <<op, "">> \in Steps /\ op \in Under("vcr_mutex")
    BY DEF Steps, PlainOps, Expandable, Assignments, Under
  <2> QED BY <2>1, SoundInStep DEF Do
<1>2. \A op \in {"task_done", "clear_tasks", "run_tasks"} : SoundIn("g_task_mutex", Do(op))
  <2> SUFFICES ASSUME NEW op \in {"task_done", "clear_tasks", "run_tasks"}
               PROVE  SoundIn("g_task_mutex", Do(op))
    OBVIOUS
  <2>1. <<op, "">> \in Steps /\ op \in Under("g_task_mutex")
    BY DEF Steps, PlainOps, Expandable, Assignments, Under
  <2> QED BY <2>1, SoundInStep DEF Do
<1>3. \A task \in TaskNames : SoundIn("g_task_mutex", Push(task))
  <2> SUFFICES ASSUME NEW task \in TaskNames PROVE SoundIn("g_task_mutex", Push(task))
    OBVIOUS
  <2>1. <<"push", task>> \in Steps /\ "push" \in Under("g_task_mutex")
    BY DEF Steps, Under
  <2> QED BY <2>1, SoundInStep DEF Push
<1>4. \A op \in {"launch", "close_if_launched", "reset_if_launched", "stop_audio",
                 "audio_stopped", "terminate_emu"} : SoundIn("g_emu_cs", Do(op))
  <2> SUFFICES ASSUME NEW op \in {"launch", "close_if_launched", "reset_if_launched",
                                  "stop_audio", "audio_stopped", "terminate_emu"}
               PROVE  SoundIn("g_emu_cs", Do(op))
    OBVIOUS
  <2>1. <<op, "">> \in Steps /\ op \in Under("g_emu_cs")
    BY DEF Steps, PlainOps, Expandable, Assignments, Under
  <2> QED BY <2>1, SoundInStep DEF Do
<1>5. \A t \in {"emu", "audio"} : SoundIn("g_emu_cs", Join(t))
  <2> SUFFICES ASSUME NEW t \in {"emu", "audio"} PROVE SoundIn("g_emu_cs", Join(t))
    OBVIOUS
  <2>1. <<"join", t>> \in Steps /\ "join" \in Under("g_emu_cs")
    BY DEF Steps, Under
  <2> QED BY <2>1, SoundInStep DEF Join
<1> QED BY <1>1, <1>2, <1>3, <1>4, <1>5

LEMMA Messages ==
    /\ \A w \in Windows : Sound(SendMessage(w))
    /\ \A job \in JobNames : Sound(Submit(job))
    /\ Sound(invoke) /\ Sound(task_changed) /\ Sound(rerecords_changed)
    /\ Sound(readonly_changed) /\ Sound(emu_paused_changed) /\ Sound(seek_completed)
    /\ Sound(emu_launched_changed) /\ Sound(lua_callback)
<1>1. \A w \in Windows : Sound(SendMessage(w))
  BY SoundStep DEF SendMessage, Steps
<1>2. \A job \in JobNames : Sound(Submit(job))
  BY SoundStep DEF Submit, Steps
<1>3. Sound(invoke)
  BY <1>1 DEF invoke, Windows
<1>4. /\ Sound(task_changed) /\ Sound(rerecords_changed)
      /\ Sound(readonly_changed) /\ Sound(emu_paused_changed)
      /\ Sound(emu_launched_changed) /\ Sound(lua_callback)
  BY <1>1, <1>3 DEF task_changed, rerecords_changed, readonly_changed, emu_paused_changed,
                    emu_launched_changed, lua_callback, Windows
<1>5. Sound(seek_completed)
  BY <1>1, <1>3, SoundConcat DEF seek_completed, Windows
<1> QED BY <1>1, <1>2, <1>3, <1>4, <1>5

LEMMA EnginePrograms ==
    /\ Sound(vcr_clear_seek_savestates) /\ Sound(core_vcr_stop_all)
    /\ Sound(core_vcr_stop_seek) /\ SoundIn("vcr_mutex", begin_seek_fast)
    /\ Sound(core_vcr_start_playback) /\ Sound(begin_seek_slow)
    /\ Sound(core_vcr_start_record)
<1> USE DEF Mutexes
<1>0. "vcr_mutex" \in Mutexes /\ "g_task_mutex" \in Mutexes
  OBVIOUS
<1>1. Sound(vcr_clear_seek_savestates)
  BY ProtectedSteps, SoundLocked DEF vcr_clear_seek_savestates, Write
<1>2. Sound(core_vcr_stop_all)
  <2>1. Sound(task_changed \o lua_callback)
    BY Messages, SoundConcat
  <2>2. Sound(Locked("vcr_mutex", task_changed \o lua_callback))
    BY <2>1, <1>0, SoundIsIn, SoundLocked
  <2> QED BY <1>1, <2>2, SoundConcat DEF core_vcr_stop_all
<1>3. Sound(core_vcr_stop_seek)
  <2>1. Sound(Do("stop_seek"))
    BY FreeSteps DEF FreeOps
  <2> QED BY <2>1, <1>0, SoundIsIn, SoundLocked DEF core_vcr_stop_seek
<1>b. Sound(begin_seek)
  <2>1. Sound(Do("seek_begun")) /\ Sound(Do("resume"))
    BY FreeSteps DEF FreeOps
  <2> QED BY <2>1, Messages, SoundConcat DEF begin_seek, core_vr_resume_emu
<1>4. SoundIn("vcr_mutex", begin_seek_fast)
  <2>1. Sound(Submit("seek_load"))
    BY Messages DEF JobNames
  <2>2. SoundIn("vcr_mutex", find_closest)
    BY <1>0, ProtectedSteps, SoundInConcat DEF find_closest, Write, Read
  <2>3. /\ SoundIn("vcr_mutex", begin_seek) /\ SoundIn("vcr_mutex", readonly_changed)
        /\ SoundIn("vcr_mutex", Submit("seek_load"))
    BY <1>0, <1>b, <2>1, Messages, SoundIsIn
  <2> QED BY <1>0, <2>2, <2>3, SoundInConcat DEF begin_seek_fast
<1>5. Sound(core_vcr_start_playback)
  <2>1. SoundIn("vcr_mutex", Do("ensure_core"))
    BY ProtectedSteps
  <2>2. Sound(Submit("movie_load"))
    BY Messages DEF JobNames
  <2>3. /\ SoundIn("vcr_mutex", core_vcr_stop_all)
        /\ SoundIn("vcr_mutex", Submit("movie_load"))
        /\ SoundIn("vcr_mutex", task_changed)
        /\ SoundIn("vcr_mutex", rerecords_changed)
        /\ SoundIn("vcr_mutex", lua_callback)
    BY <1>0, <1>2, <2>2, Messages, SoundIsIn
  <2>4. SoundIn("vcr_mutex", Do("ensure_core") \o core_vcr_stop_all \o Submit("movie_load")
                            \o task_changed \o rerecords_changed \o lua_callback)
    BY <1>0, <2>1, <2>3, SoundInConcat
  <2> QED BY <1>0, <2>4, SoundLocked DEF core_vcr_start_playback
<1>6. Sound(begin_seek_slow)
  BY <1>b, <1>5, SoundConcat DEF begin_seek_slow
<1>7. Sound(core_vcr_start_record)
  <2>1. Sound(Locked("g_task_mutex", Push("record_start")))
    BY <1>0, ProtectedSteps, SoundLocked DEF TaskNames
  <2>2. Sound(core_vcr_stop_all \o readonly_changed
                            \o Locked("g_task_mutex", Push("record_start"))
                            \o task_changed \o rerecords_changed)
    BY <1>2, <2>1, Messages, SoundConcat
  <2> QED BY <1>0, <2>2, SoundIsIn, SoundLocked DEF core_vcr_start_record
<1> QED BY <1>1, <1>2, <1>3, <1>4, <1>5, <1>6, <1>7

LEMMA SavestatePrograms ==
    /\ Sound(st_do_work)
    /\ \A task \in TaskNames : Sound(savestates_immediate(task))
<1>0. "vcr_mutex" \in Mutexes /\ "g_task_mutex" \in Mutexes
  BY DEF Mutexes
<1>1. Sound(st_do_work)
  BY <1>0, ProtectedSteps, SoundLocked DEF st_do_work
<1>2. Sound(task_changed \o rerecords_changed)
  BY Messages, SoundConcat
<1>3. Sound(Locked("vcr_mutex", task_changed \o rerecords_changed))
  BY <1>0, <1>2, SoundIsIn, SoundLocked
<1>4. Sound(Locked("vcr_mutex", << >>))
  BY <1>0, SoundEmpty, SoundIsIn, SoundLocked
<1>5. Sound(keep_seek_savestate)
  BY <1>0, ProtectedSteps, SoundLocked DEF keep_seek_savestate, Write
<1>6. \A task \in TaskNames : Sound(TaskCallback[task])
  <2>1. Sound(Do("load_result"))
    BY FreeSteps DEF FreeOps
  <2> QED BY <1>3, <1>4, <1>5, <2>1, SoundEmpty DEF TaskNames, TaskCallback
<1>7. \A task \in TaskNames : /\ Sound(core_vcr_freeze \o TaskCallback[task] \o lua_callback)
                              /\ Sound(core_vcr_unfreeze \o lua_callback \o TaskCallback[task])
  <2>1. Sound(core_vcr_freeze) /\ Sound(core_vcr_unfreeze)
    BY <1>3, <1>4 DEF core_vcr_freeze, core_vcr_unfreeze
  <2> QED BY <1>6, <2>1, Messages, SoundConcat
<1> QED BY <1>1, <1>7 DEF savestates_immediate

LEMMA LifePrograms ==
    /\ Sound(core_vr_pause_emu) /\ Sound(core_vr_resume_emu)
    /\ SoundIn("g_emu_cs", vr_close_rom_impl)
    /\ Sound(core_vr_start_rom) /\ Sound(core_vr_close_rom)
    /\ Sound(vr_reset_rom_impl) /\ Sound(core_vr_reset_rom)
    /\ Sound(emu_thread_enters) /\ Sound(emu_thread_leaves)
<1>0. "vcr_mutex" \in Mutexes /\ "g_task_mutex" \in Mutexes /\ "g_emu_cs" \in Mutexes
  BY DEF Mutexes
<1>1. Sound(core_vr_pause_emu)
  BY FreeSteps DEF core_vr_pause_emu, FreeOps
<1>2. Sound(core_vr_resume_emu)
  <2>1. Sound(Do("resume"))
    BY FreeSteps DEF FreeOps
  <2> QED BY <2>1, Messages, SoundConcat DEF core_vr_resume_emu
<1>3. SoundIn("g_emu_cs", vr_close_rom_impl)
  <2>1. /\ SoundIn("g_emu_cs", core_vr_resume_emu)
        /\ SoundIn("g_emu_cs", core_vcr_stop_all)
        /\ SoundIn("g_emu_cs", invoke)
    BY <1>0, <1>2, EnginePrograms, Messages, SoundIsIn
  <2>2. /\ SoundIn("g_emu_cs", Do("stop_audio")) /\ SoundIn("g_emu_cs", Join("audio"))
        /\ SoundIn("g_emu_cs", Do("audio_stopped")) /\ SoundIn("g_emu_cs", Do("terminate_emu"))
        /\ SoundIn("g_emu_cs", Join("emu"))
    BY ProtectedSteps
  <2> QED BY <1>0, <2>1, <2>2, SoundInConcat DEF vr_close_rom_impl
<1>4. Sound(core_vr_start_rom)
  <2>1. /\ SoundIn("g_emu_cs", Do("close_if_launched")) /\ SoundIn("g_emu_cs", Do("launch"))
    BY ProtectedSteps
  <2>2. Sound(Do("await_executing"))
    BY FreeSteps DEF FreeOps
  <2>3. SoundIn("g_emu_cs", vr_start_rom_impl)
    BY <1>0, <2>1, <2>2, SoundIsIn, SoundInConcat DEF vr_start_rom_impl
  <2> QED BY <1>0, <2>3, SoundLocked DEF core_vr_start_rom
<1>5. Sound(core_vr_close_rom)
  BY <1>0, ProtectedSteps, SoundLocked DEF core_vr_close_rom
<1>6. Sound(vr_reset_rom_impl)
  <2>1. Sound(Do("resetting")) /\ Sound(Do("reset_done"))
    BY FreeSteps DEF FreeOps
  <2> QED BY <2>1, <1>4, <1>5, SoundConcat DEF vr_reset_rom_impl
<1>7. Sound(core_vr_reset_rom)
  BY <1>0, ProtectedSteps, SoundLocked DEF core_vr_reset_rom
<1>8. Sound(emu_thread_enters)
  <2>1. Sound(Do("core_executing"))
    BY FreeSteps DEF FreeOps
  <2> QED BY <2>1, Messages, SoundConcat DEF emu_thread_enters
<1>9. Sound(emu_thread_leaves)
  <2>1. Sound(Do("core_stopped")) /\ Sound(Do("emu_leaves")) /\ Sound(Do("emu_launched_changed"))
    BY FreeSteps DEF FreeOps
  <2>2. Sound(Locked("g_task_mutex", Do("clear_tasks")))
    BY <1>0, ProtectedSteps, SoundLocked
  <2> QED BY <2>1, <2>2, SoundConcat DEF emu_thread_leaves
<1> QED BY <1>1, <1>2, <1>3, <1>4, <1>5, <1>6, <1>7, <1>8, <1>9

LEMMA JobsAndCommands ==
    /\ DOMAIN Job = JobNames /\ \A job \in JobNames : Sound(Job[job])
    /\ \A command \in DOMAIN Command : Sound(Command[command])
<1>0. "vcr_mutex" \in Mutexes /\ "g_task_mutex" \in Mutexes
  BY DEF Mutexes
<1>1. \A task \in TaskNames : Sound(Locked("g_task_mutex", Push(task)))
  BY <1>0, ProtectedSteps, SoundLocked
<1>2. Sound(Lookup \o Locked("g_task_mutex", Push("seek_load")))
  <2>1. Sound(Lookup)
    BY FreeSteps DEF Lookup, FreeOps
  <2> QED BY <2>1, <1>1, SoundConcat DEF TaskNames
<1>3. Sound(core_vcr_begin_seek) /\ Sound(Locked("vcr_mutex", Do("begin_seek_slow")))
  <2>1. Sound(Do("begin_seek_slow"))
    BY FreeSteps DEF FreeOps
  <2>2. SoundIn("vcr_mutex", Do("begin_seek"))
    BY ProtectedSteps
  <2> QED BY <2>1, <2>2, <1>0, SoundIsIn, SoundLocked DEF core_vcr_begin_seek
<1>4. Sound(core_vr_reset_rom \o Locked("vcr_mutex", task_changed \o rerecords_changed))
  <2>1. Sound(task_changed \o rerecords_changed)
    BY Messages, SoundConcat
  <2> QED BY <2>1, <1>0, LifePrograms, SoundIsIn, SoundLocked, SoundConcat
<1>5. DOMAIN Job = JobNames
  BY DEF Job, JobNames
<1>6. \A job \in JobNames : Sound(Job[job])
  <2>1. Sound(Job.slot_save) /\ Sound(Job.slot_load) /\ Sound(Job.movie_load)
    BY <1>1 DEF Job, TaskNames
  <2>2. Sound(Job.seek_load) /\ Sound(Job.seek) /\ Sound(Job.seek_slow) /\ Sound(Job.movie_reset)
    BY <1>2, <1>3, <1>4 DEF Job
  <2>3. Sound(Job.stop_movie) /\ Sound(Job.start_playback) /\ Sound(Job.start_record)
    BY EnginePrograms DEF Job
  <2>4. Sound(Job.close) /\ Sound(Job.reset) /\ Sound(Job.start)
    BY LifePrograms DEF Job
  <2> QED BY <2>1, <2>2, <2>3, <2>4 DEF JobNames
<1>7. Sound(Do("core_vr_frame_advance") \o core_vr_resume_emu)
  <2>1. Sound(Do("core_vr_frame_advance"))
    BY FreeSteps DEF FreeOps
  <2> QED BY <2>1, LifePrograms, SoundConcat
<1>8. \A command \in DOMAIN Command : Sound(Command[command])
  <2>1. Sound(Command.pause) /\ Sound(Command.resume)
    BY LifePrograms DEF Command
  <2>2. Sound(Command.frame_advance) /\ Sound(Command.seeker_stop) /\ Sound(Command.lua_stop_seek)
    BY <1>7, EnginePrograms DEF Command
  <2>3. Sound(Command.seeker_start) /\ Sound(Command.lua_begin_seek) /\ Sound(Command.lua_stop)
    BY <1>3, EnginePrograms DEF Command
  <2>4. DOMAIN Command = {"pause", "resume", "frame_advance", "seeker_stop", "seeker_start",
                          "lua_stop", "lua_begin_seek", "lua_stop_seek"}
    BY DEF Command
  <2> QED BY <2>1, <2>2, <2>3, <2>4
<1> QED BY <1>5, <1>6, <1>8

PollNames == {"input", "seek_ends", "movie_ends", "movie_loops", "movie_resets",
              "seek_savestate"}

LEMMA Polls == \A event \in PollNames : Sound(update_pif_read(event))
<1>0. "vcr_mutex" \in Mutexes /\ "g_task_mutex" \in Mutexes
  BY DEF Mutexes
<1> DEFINE In(s) == SoundIn("vcr_mutex", s)
<1>1. Sound(Locked("vcr_mutex", lua_callback))
  BY <1>0, Messages, SoundIsIn, SoundLocked
<1>2. Sound(Locked("vcr_mutex", core_vcr_stop_seek \o lua_callback))
  BY <1>0, Messages, EnginePrograms, SoundConcat, SoundIsIn, SoundLocked
<1>3. Sound(Locked("vcr_mutex", core_vcr_stop_all))
  BY <1>0, EnginePrograms, SoundIsIn, SoundLocked
<1>4. Sound(Locked("vcr_mutex", core_vcr_stop_all \o core_vcr_start_playback))
  BY <1>0, EnginePrograms, SoundConcat, SoundIsIn, SoundLocked
<1>5. Sound(Locked("vcr_mutex", movie_resets \o lua_callback))
  <2>1. Sound(movie_resets)
    BY Messages DEF movie_resets, JobNames
  <2> QED BY <2>1, <1>0, Messages, SoundConcat, SoundIsIn, SoundLocked
<1>6. Sound(Locked("vcr_mutex", Write \o Locked("g_task_mutex", Push("seek_save")) \o lua_callback))
  <2>1. SoundIn("vcr_mutex", Write)
    BY ProtectedSteps DEF Write
  <2>2. Sound(Locked("g_task_mutex", Push("seek_save")))
    BY <1>0, ProtectedSteps, SoundLocked DEF TaskNames
  <2>3. SoundIn("vcr_mutex", Locked("g_task_mutex", Push("seek_save"))) /\ SoundIn("vcr_mutex", lua_callback)
    BY <2>2, <1>0, Messages, SoundIsIn
  <2>4. SoundIn("vcr_mutex", Write \o Locked("g_task_mutex", Push("seek_save")) \o lua_callback)
    BY <2>1, <2>3, <1>0, SoundInConcat
  <2> QED BY <2>4, <1>0, SoundLocked
<1>7. \A event \in PollNames : Sound(Poll[event])
  BY <1>1, <1>2, <1>3, <1>4, <1>5, <1>6 DEF Poll, PollNames
<1>8. Sound(Do("count_frame") \o Do("wait_unpaused"))
  <2>1. Sound(Do("count_frame")) /\ Sound(Do("wait_unpaused"))
    BY FreeSteps DEF FreeOps
  <2> QED BY <2>1, SoundConcat
<1> SUFFICES ASSUME NEW event \in PollNames PROVE Sound(update_pif_read(event))
  OBVIOUS
<1>9. CASE core.emu_paused \/ core.frame_advance_outstanding > 0
  BY <1>7, <1>8, <1>9, SavestatePrograms, SoundConcat DEF update_pif_read
<1>10. CASE ~(core.emu_paused \/ core.frame_advance_outstanding > 0)
  BY <1>7, <1>10, SoundEmpty, SavestatePrograms, SoundConcat DEF update_pif_read
<1> QED BY <1>9, <1>10

-----------------------------------------------------------------------------
(* The invariant                                                           *)

HeldBy(m, t) == IF owner[m] = t THEN depth[m] ELSE 0

\* What t still has to do runs from the depth at which it holds m.  Only the
\* program of the emulation thread may be replaced before its end (Launch).
Disciplined(m, t) ==
    \E b \in Nat : Runs(m, prog[t], HeldBy(m, t), b) /\ (t # "emu" => b = 0)

LockTypes ==
    /\ prog \in [Threads -> Programs]
    /\ jobs \in Seq(JobNames)
    /\ g_tasks \in Seq(TaskNames)
    /\ owner \in [Mutexes -> Threads \cup {Free}]
    /\ depth \in [Mutexes -> Nat]
    /\ scene \in Scenarios

LockInv ==
    /\ LockTypes
    /\ \A m \in Mutexes : (owner[m] = Free <=> depth[m] = 0)
    /\ \A m \in Mutexes, t \in Threads : Disciplined(m, t)

LEMMA StepArguments ==
    ASSUME NEW step \in Steps
    PROVE  /\ step[1] \in {"lock", "unlock"} => step[2] \in Mutexes
           /\ step[1] = "submit" => step[2] \in JobNames
           /\ step[1] = "push" => step[2] \in TaskNames
           /\ step[1] \in {"send", "join"} \cup PlainOps => step[2] \notin Mutexes
<1>2. step[1] \in {"lock", "unlock"} => step[2] \in Mutexes
  BY DEF Steps, PlainOps, Expandable, Assignments
<1>3. step[1] = "submit" => step[2] \in JobNames
  BY DEF Steps, PlainOps, Expandable, Assignments
<1>4. step[1] = "push" => step[2] \in TaskNames
  BY DEF Steps, PlainOps, Expandable, Assignments
<1>5. step[1] \in {"send", "join"} \cup PlainOps => step[2] \notin Mutexes
  BY DEF Steps, PlainOps, Expandable, Assignments, Windows, Mutexes
<1> QED BY <1>2, <1>3, <1>4, <1>5

\* A thread whose next step does not concern the mutexes goes on.
LEMMA Consumes ==
    ASSUME LockInv, NEW t \in Threads, prog[t] # << >>,
           prog' = [prog EXCEPT ![t] = Tail(@)],
           \A m \in Mutexes : HeldBy(m, t)' = After(m, Head(prog[t]), HeldBy(m, t)),
           \A m \in Mutexes, u \in Threads : u # t => HeldBy(m, u)' = HeldBy(m, u)
    PROVE  /\ prog' \in [Threads -> Programs]
           /\ \A m \in Mutexes, u \in Threads : Disciplined(m, u)'
<1>1. prog[t] \in Programs /\ Tail(prog[t]) \in Programs
  BY DEF LockInv, LockTypes, Programs
<1>2. prog' \in [Threads -> Programs]
  BY <1>1 DEF LockInv, LockTypes
<1>3. ASSUME NEW m \in Mutexes, NEW u \in Threads PROVE Disciplined(m, u)'
  <2>1. PICK b \in Nat : Runs(m, prog[u], HeldBy(m, u), b) /\ (u # "emu" => b = 0)
    BY DEF LockInv, Disciplined
  <2>2. CASE u # t
    <3>1. prog'[u] = prog[u] /\ HeldBy(m, u)' = HeldBy(m, u)
      BY <2>2 DEF LockInv, LockTypes
    <3> QED BY <2>1, <3>1 DEF Disciplined
  <2>3. CASE u = t
    <3>1. HeldBy(m, t) \in Nat
      BY DEF HeldBy, LockInv, LockTypes
    <3>2. Runs(m, Tail(prog[t]), After(m, Head(prog[t]), HeldBy(m, t)), b)
      BY <2>1, <2>3, <3>1, <1>1, RunsTail
    <3>3. prog'[t] = Tail(prog[t])
      BY DEF LockInv, LockTypes
    <3> QED BY <2>1, <2>3, <3>2, <3>3 DEF Disciplined
  <2> QED BY <2>2, <2>3
<1> QED BY <1>2, <1>3

\* A thread that is idle, or the emulation thread that is launched, gets a program.
LEMMA Begins ==
    ASSUME LockInv, NEW t \in Threads, NEW s, Sound(s), prog[t] = << >> \/ t = "emu",
           prog' = [prog EXCEPT ![t] = s], UNCHANGED <<owner, depth>>
    PROVE  /\ prog' \in [Threads -> Programs]
           /\ \A m \in Mutexes, u \in Threads : Disciplined(m, u)'
<1>0. "vcr_mutex" \in Mutexes
  BY DEF Mutexes
<1>1. s \in Programs
  BY <1>0 DEF Sound, Neutral
<1>2. prog' \in [Threads -> Programs]
  BY <1>1 DEF LockInv, LockTypes
<1>3. ASSUME NEW m \in Mutexes, NEW u \in Threads PROVE Disciplined(m, u)'
  <2>0. HeldBy(m, u)' = HeldBy(m, u) /\ HeldBy(m, u) \in Nat
    BY DEF HeldBy, LockInv, LockTypes
  <2>1. PICK b \in Nat : Runs(m, prog[u], HeldBy(m, u), b) /\ (u # "emu" => b = 0)
    BY DEF LockInv, Disciplined
  <2>2. CASE u # t
    <3>1. prog'[u] = prog[u]
      BY <2>2 DEF LockInv, LockTypes
    <3> QED BY <2>0, <2>1, <3>1 DEF Disciplined
  <2>3. CASE u = t
    <3>1. prog'[t] = s
      BY DEF LockInv, LockTypes
    <3>2. Runs(m, s, HeldBy(m, u), HeldBy(m, u))
      BY <2>0 DEF Sound, Neutral
    <3>3. t # "emu" => HeldBy(m, u) = 0
      <4>1. SUFFICES ASSUME t # "emu" PROVE HeldBy(m, u) = 0
        OBVIOUS
      <4>2. Runs(m, << >>, HeldBy(m, u), 0)
        BY <2>1, <2>3, <4>1
      <4>3. Len(<< >>) = 0
        OBVIOUS
      <4> QED BY <4>2, <4>3 DEF Runs
    <3> QED BY <2>0, <2>3, <3>1, <3>2, <3>3 DEF Disciplined
  <2> QED BY <2>2, <2>3
<1> QED BY <1>2, <1>3

\* A step that stands for a program is replaced by it.
LEMMA Expands ==
    ASSUME LockInv, NEW t \in Threads, prog[t] # << >>, NEW s,
           \A m \in Mutexes : IF Op(t) \in Under(m) THEN Inside(m, s) ELSE Neutral(m, s),
           Op(t) \in Expandable,
           prog' = [prog EXCEPT ![t] = s \o Tail(@)], UNCHANGED <<owner, depth>>
    PROVE  /\ prog' \in [Threads -> Programs]
           /\ \A m \in Mutexes, u \in Threads : Disciplined(m, u)'
<1>0. "vcr_mutex" \in Mutexes
  BY DEF Mutexes
<1>1. /\ prog[t] \in Programs /\ Head(prog[t]) \in Steps /\ Tail(prog[t]) \in Programs
      /\ s \in Programs /\ s \o Tail(prog[t]) \in Programs
  <2>1. s \in Programs
    BY <1>0 DEF Inside, Neutral
  <2> QED BY <2>1 DEF LockInv, LockTypes, Programs
<1>2. prog' \in [Threads -> Programs]
  BY <1>1 DEF LockInv, LockTypes
<1>3. ASSUME NEW m \in Mutexes, NEW u \in Threads PROVE Disciplined(m, u)'
  <2>0. HeldBy(m, u)' = HeldBy(m, u) /\ HeldBy(m, u) \in Nat
    BY DEF HeldBy, LockInv, LockTypes
  <2>1. PICK b \in Nat : Runs(m, prog[u], HeldBy(m, u), b) /\ (u # "emu" => b = 0)
    BY DEF LockInv, Disciplined
  <2>2. CASE u # t
    <3>1. prog'[u] = prog[u]
      BY <2>2 DEF LockInv, LockTypes
    <3> QED BY <2>0, <2>1, <3>1 DEF Disciplined
  <2>3. CASE u = t
    <3>1. prog'[t] = s \o Tail(prog[t])
      BY DEF LockInv, LockTypes
    <3>2. /\ May(m, Head(prog[t]), HeldBy(m, u))
          /\ Runs(m, Tail(prog[t]), After(m, Head(prog[t]), HeldBy(m, u)), b)
      BY <2>0, <2>1, <2>3, <1>1, RunsTail
    <3>3. After(m, Head(prog[t]), HeldBy(m, u)) = HeldBy(m, u)
      <4>1. Op(t) \in PlainOps /\ Op(t) = Head(prog[t])[1]
        BY DEF Op, PlainOps
      <4>2. Head(prog[t])[2] # m
        BY <4>1, <1>1, StepArguments
      <4> QED BY <4>2 DEF After
    <3>4. Runs(m, s, HeldBy(m, u), HeldBy(m, u))
      <4>1. CASE Op(t) \in Under(m)
        <5>1. HeldBy(m, u) \in Nat \ {0}
          BY <2>0, <3>2, <4>1 DEF May, Op
        <5> QED BY <4>1, <5>1 DEF Inside
      <4>2. CASE Op(t) \notin Under(m)
        BY <4>2, <2>0 DEF Neutral
      <4> QED BY <4>1, <4>2
    <3>5. Runs(m, s \o Tail(prog[t]), HeldBy(m, u), b)
      BY <3>2, <3>3, <3>4, <1>1, <2>0, RunsConcat
    <3> QED BY <2>0, <2>1, <2>3, <3>1, <3>5 DEF Disciplined
  <2> QED BY <2>2, <2>3
<1> QED BY <1>2, <1>3

\* Every expansion respects the mutexes its step needs.
LEMMA ExpansionsSound ==
    ASSUME LockTypes, NEW op \in Expandable
    PROVE  \A m \in Mutexes : IF op \in Under(m) THEN Inside(m, Expansion(op))
                              ELSE Neutral(m, Expansion(op))
<1>0. "vcr_mutex" \in Mutexes /\ "g_task_mutex" \in Mutexes /\ "g_emu_cs" \in Mutexes
  BY DEF Mutexes
<1>1. ASSUME NEW n \in Mutexes, op \in Under(n), SoundIn(n, Expansion(op))
      PROVE  \A m \in Mutexes : IF op \in Under(m) THEN Inside(m, Expansion(op))
                                ELSE Neutral(m, Expansion(op))
  <2>1. \A m \in Mutexes : op \in Under(m) => m = n
    BY <1>1 DEF Under, Mutexes
  <2> QED BY <1>1, <2>1 DEF SoundIn
<1>2. ASSUME op \in FreeOps, Sound(Expansion(op))
      PROVE  \A m \in Mutexes : IF op \in Under(m) THEN Inside(m, Expansion(op))
                                ELSE Neutral(m, Expansion(op))
  <2>1. \A m \in Mutexes : op \notin Under(m)
    BY <1>2 DEF Under, Mutexes, FreeOps
  <2> QED BY <1>2, <2>1 DEF Sound
<1>3. CASE op = "ensure_core"
  <2>1. Expansion(op) = IF core.core_executing THEN << >>
                        ELSE Unlock("vcr_mutex") \o core_vr_start_rom \o Lock("vcr_mutex")
    BY <1>3 DEF Expansion
  <2>2. /\ SoundIn("vcr_mutex", << >>)
        /\ \A m \in Mutexes : m # "vcr_mutex" =>
              Neutral(m, Unlock("vcr_mutex") \o core_vr_start_rom \o Lock("vcr_mutex"))
    <3>1. <<"lock", "vcr_mutex">> \in Steps /\ <<"unlock", "vcr_mutex">> \in Steps
      BY <1>0 DEF Steps
    <3>2. \A m \in Mutexes : "lock" \notin Under(m) /\ "unlock" \notin Under(m)
      BY DEF Under, Mutexes
    <3>3. \A m \in Mutexes : m # "vcr_mutex" =>
              Neutral(m, Unlock("vcr_mutex")) /\ Neutral(m, Lock("vcr_mutex"))
      BY <3>1, <3>2, NeutralStep DEF Lock, Unlock
    <3> QED BY <1>0, <3>3, SoundEmpty, SoundIsIn, LifePrograms, NeutralConcat DEF Sound
  <2>3. Inside("vcr_mutex", Unlock("vcr_mutex") \o core_vr_start_rom \o Lock("vcr_mutex"))
    <3> DEFINE m == "vcr_mutex"
    <3>1. <<"lock", m>> \in Steps /\ <<"unlock", m>> \in Steps
      BY <1>0 DEF Steps
    <3>2. Neutral(m, core_vr_start_rom)
      BY <1>0, LifePrograms DEF Sound
    <3>3. /\ Lock(m) \in Programs /\ Unlock(m) \in Programs /\ core_vr_start_rom \in Programs
          /\ Unlock(m) \o core_vr_start_rom \in Programs
          /\ Unlock(m) \o core_vr_start_rom \o Lock(m) \in Programs
      BY <3>1, <3>2 DEF Neutral, Programs, Lock, Unlock
    <3>4. ASSUME NEW d \in Nat \ {0}
          PROVE  Runs(m, Unlock(m) \o core_vr_start_rom \o Lock(m), d, d)
      <4>0. d - 1 \in Nat
        OBVIOUS
      <4>1. May(m, <<"unlock", m>>, d) /\ After(m, <<"unlock", m>>, d) = d - 1
        BY DEF May, After
      <4>2. Runs(m, Unlock(m), d, d - 1)
        BY <4>0, <4>1, <3>1, <1>0, RunsStep DEF Unlock
      <4>3. Runs(m, core_vr_start_rom, d - 1, d - 1)
        BY <4>0, <3>2 DEF Neutral
      <4>4. Runs(m, Unlock(m) \o core_vr_start_rom, d, d - 1)
        BY <4>0, <4>2, <4>3, <3>3, <1>0, RunsConcat
      <4>5. May(m, <<"lock", m>>, d - 1) /\ After(m, <<"lock", m>>, d - 1) = d
        BY DEF May, After, Under
      <4>6. Runs(m, Lock(m), d - 1, d)
        BY <4>0, <4>5, <3>1, <1>0, RunsStep DEF Lock
      <4> QED BY <4>0, <4>4, <4>6, <3>3, <1>0, RunsConcat
    <3> QED BY <3>3, <3>4 DEF Inside
  <2>4. SoundIn("vcr_mutex", Expansion(op)) /\ op \in Under("vcr_mutex")
    BY <1>3, <2>1, <2>2, <2>3 DEF SoundIn, Under
  <2> QED BY <2>4, <1>0, <1>1
<1>b. CASE op = "begin_seek"
  <2>1. SoundIn("vcr_mutex", Expansion(op)) /\ op \in Under("vcr_mutex")
    BY <1>b, <1>0, EnginePrograms, SoundEmpty, SoundIsIn DEF Expansion, Under
  <2> QED BY <2>1, <1>0, <1>1
<1>4. CASE op \in {"begin_seek_slow", "stop_seek", "load_result"}
  <2>1. Sound(Do("seek_over") \o seek_completed)
    BY FreeSteps, Messages, SoundConcat DEF FreeOps
  <2>2. Sound(Expansion(op)) /\ op \in FreeOps
    BY <1>4, <2>1, EnginePrograms, SoundEmpty DEF Expansion, FreeOps
  <2> QED BY <2>2, <1>2
<1>5. CASE op = "close_if_launched"
  <2>1. SoundIn("g_emu_cs", Expansion(op)) /\ op \in Under("g_emu_cs")
    BY <1>5, <1>0, LifePrograms, SoundEmpty, SoundIsIn DEF Expansion, Under
  <2> QED BY <2>1, <1>0, <1>1
<1>6. CASE op = "reset_if_launched"
  <2>1. SoundIn("g_emu_cs", Expansion(op)) /\ op \in Under("g_emu_cs")
    BY <1>6, <1>0, LifePrograms, SoundEmpty, SoundIsIn DEF Expansion, Under
  <2> QED BY <2>1, <1>0, <1>1
<1>7. CASE op \in {"core_vr_pause_emu", "emu_launched_changed"}
  <2>1. Sound(Do("pause") \o emu_paused_changed)
    BY FreeSteps, Messages, SoundConcat DEF FreeOps
  <2>2. Sound(Expansion(op)) /\ op \in FreeOps
    BY <1>7, <2>1, Messages, SoundEmpty DEF Expansion, FreeOps
  <2> QED BY <2>2, <1>2
<1>8. CASE op = "count_frame"
  <2>1. Sound(Do("frame_advanced"))
    BY FreeSteps DEF FreeOps
  <2>2. Sound(Do("frame_advanced") \o core_vr_pause_emu)
    BY <2>1, LifePrograms, SoundConcat
  <2>3. Sound(Expansion(op)) /\ op \in FreeOps
    BY <1>8, <2>1, <2>2, SoundEmpty DEF Expansion, FreeOps
  <2> QED BY <2>3, <1>2
<1>9. CASE op = "wait_unpaused"
  <2>1. Sound(st_do_work \o Do("wait_unpaused"))
    BY FreeSteps, SavestatePrograms, SoundConcat DEF FreeOps
  <2>2. Sound(Expansion(op)) /\ op \in FreeOps
    BY <1>9, <2>1, SoundEmpty DEF Expansion, FreeOps
  <2> QED BY <2>2, <1>2
<1>10. CASE op = "run_tasks"
  <2>1. CASE g_tasks = << >>
    <3>1. Expansion(op) = << >>
      BY <1>10, <2>1 DEF Expansion
    <3> QED BY <3>1, <1>10, <1>0, <1>1, SoundEmpty, SoundIsIn DEF Under
  <2>2. CASE g_tasks # << >>
    <3>1. Head(g_tasks) \in TaskNames
      BY <2>2 DEF LockTypes
    <3>2. Expansion(op) = savestates_immediate(Head(g_tasks)) \o Do("task_done") \o Do("run_tasks")
      BY <1>10, <2>2 DEF Expansion
    <3>3. SoundIn("g_task_mutex", savestates_immediate(Head(g_tasks)))
      BY <3>1, <1>0, SavestatePrograms, SoundIsIn
    <3>4. SoundIn("g_task_mutex", Do("task_done")) /\ SoundIn("g_task_mutex", Do("run_tasks"))
      BY ProtectedSteps
    <3>5. SoundIn("g_task_mutex", Expansion(op)) /\ op \in Under("g_task_mutex")
      BY <1>10, <3>2, <3>3, <3>4, <1>0, SoundInConcat DEF Under
    <3> QED BY <3>5, <1>0, <1>1
  <2> QED BY <2>1, <2>2
<1> QED BY <1>b, <1>3, <1>4, <1>5, <1>6, <1>7, <1>8, <1>9, <1>10 DEF Expandable

-----------------------------------------------------------------------------
(* The invariant holds                                                     *)

LEMMA LockInvInit == Init => LockInv
<1> SUFFICES ASSUME Init PROVE LockInv
  OBVIOUS
<1>1. LockTypes
  BY DEF Init, LockTypes, Programs
<1>2. \A m \in Mutexes : owner[m] = Free /\ depth[m] = 0
  BY DEF Init
<1>3. ASSUME NEW m \in Mutexes, NEW t \in Threads PROVE Disciplined(m, t)
  <2>1. HeldBy(m, t) = 0 /\ prog[t] = << >>
    BY <1>2, NamesAssumption DEF Init, HeldBy
  <2> QED BY <2>1, RunsEmpty DEF Disciplined
<1> QED BY <1>1, <1>2, <1>3 DEF LockInv

\* What the queues hold after a step that appends, takes or pushes.
LEMMA LockInvStep ==
    ASSUME LockInv, NEW t \in Threads, Step(t)
    PROVE  LockInv'
<1> USE DEF At, Done, Op, Arg
<1>0. /\ prog[t] # << >> => Head(prog[t]) \in Steps
      /\ HeldBy("vcr_mutex", t) \in Nat
  BY DEF LockInv, LockTypes, Programs, HeldBy, Mutexes
<1>1. ASSUME Expand(t) PROVE LockInv'
  <2>1. \A m \in Mutexes : IF Op(t) \in Under(m) THEN Inside(m, Expansion(Op(t)))
                           ELSE Neutral(m, Expansion(Op(t)))
    BY <1>1, ExpansionsSound DEF Expand, LockInv
  <2>2. /\ prog' \in [Threads -> Programs]
        /\ \A m \in Mutexes, u \in Threads : Disciplined(m, u)'
    BY <1>1, <2>1, Expands DEF Expand
  <2> QED BY <1>1, <2>2 DEF Expand, LockInv, LockTypes
<1>2. ASSUME prog[t] # << >>, Done(t), Op(t) \in PlainOps \cup {"push", "submit", "send", "join"},
             UNCHANGED <<owner, depth, scene>>,
             jobs' \in Seq(JobNames), g_tasks' \in Seq(TaskNames)
      PROVE  LockInv'
  <2>1. \A m \in Mutexes, u \in Threads : HeldBy(m, u)' = HeldBy(m, u)
    BY <1>2 DEF HeldBy
  <2>2. \A m \in Mutexes : After(m, Head(prog[t]), HeldBy(m, t)) = HeldBy(m, t)
    <3>1. Op(t) \notin {"lock", "unlock"}
      BY <1>2 DEF PlainOps, Expandable, Assignments
    <3> QED BY <3>1 DEF After
  <2>3. /\ prog' \in [Threads -> Programs]
        /\ \A m \in Mutexes, u \in Threads : Disciplined(m, u)'
    BY <1>2, <2>1, <2>2, Consumes
  <2> QED BY <1>2, <2>3 DEF LockInv, LockTypes
<1>3. ASSUME Assign(t) PROVE LockInv'
  <2>1. Op(t) \in PlainOps
    BY <1>3 DEF Assign, PlainOps
  <2> QED BY <1>2, <1>3, <2>1 DEF Assign, LockInv, LockTypes
<1>4. ASSUME Acquire(t) PROVE LockInv'
  <2> DEFINE n == Arg(t)
  <2>1. n \in Mutexes /\ Head(prog[t])[1] = "lock" /\ Head(prog[t])[2] = n
    BY <1>0, <1>4, StepArguments DEF Acquire
  <2> HIDE DEF n
  <2>2. /\ owner' = [owner EXCEPT ![n] = t] /\ depth' = [depth EXCEPT ![n] = @ + 1]
        /\ owner[n] \in {Free, t}
    BY <1>4 DEF Acquire, n
  <2>3. ASSUME NEW m \in Mutexes, NEW u \in Threads
        PROVE  HeldBy(m, u)' = IF m = n /\ u = t THEN HeldBy(m, u) + 1 ELSE HeldBy(m, u)
    <3>1. depth[n] \in Nat /\ (owner[n] = Free => HeldBy(n, t) = 0)
      BY <2>1, NamesAssumption DEF LockInv, LockTypes, HeldBy
    <3>2. CASE m # n
      BY <3>2, <2>1, <2>2 DEF HeldBy, LockInv, LockTypes
    <3>3. CASE m = n /\ u # t
      <4>1. owner[n] # u /\ owner'[n] # u
        BY <3>3, <2>1, <2>2, NamesAssumption DEF LockInv, LockTypes
      <4> QED BY <3>3, <4>1 DEF HeldBy
    <3>4. CASE m = n /\ u = t
      <4>1. owner'[n] = t /\ depth'[n] = depth[n] + 1
        BY <2>1, <2>2 DEF LockInv, LockTypes
      <4>2. HeldBy(n, t) = depth[n]
        <5>1. owner[n] = Free => depth[n] = 0
          BY <2>1 DEF LockInv
        <5> QED BY <5>1, <2>2, NamesAssumption DEF HeldBy
      <4> QED BY <3>4, <4>1, <4>2 DEF HeldBy
    <3> QED BY <3>2, <3>3, <3>4
  <2>4. \A m \in Mutexes : HeldBy(m, t)' = After(m, Head(prog[t]), HeldBy(m, t))
    BY <2>1, <2>3 DEF After
  <2>5. \A m \in Mutexes, u \in Threads : u # t => HeldBy(m, u)' = HeldBy(m, u)
    BY <2>3
  <2>6. /\ prog' \in [Threads -> Programs]
        /\ \A m \in Mutexes, u \in Threads : Disciplined(m, u)'
    BY <1>4, <2>4, <2>5, Consumes DEF Acquire
  <2>7. /\ owner' \in [Mutexes -> Threads \cup {Free}] /\ depth' \in [Mutexes -> Nat]
        /\ \A m \in Mutexes : (owner'[m] = Free <=> depth'[m] = 0)
    BY <2>1, <2>2, NamesAssumption DEF LockInv, LockTypes
  <2> QED BY <1>4, <2>6, <2>7 DEF Acquire, LockInv, LockTypes
<1>5. ASSUME Release(t) PROVE LockInv'
  <2> DEFINE n == Arg(t)
  <2>1. n \in Mutexes /\ Head(prog[t])[1] = "unlock" /\ Head(prog[t])[2] = n
    BY <1>0, <1>5, StepArguments DEF Release
  <2> HIDE DEF n
  <2>2. /\ owner' = [owner EXCEPT ![n] = IF depth[n] = 1 THEN Free ELSE @]
        /\ depth' = [depth EXCEPT ![n] = @ - 1]
    BY <1>5 DEF Release, n
  <2>3. owner[n] = t /\ depth[n] > 0 /\ HeldBy(n, t) = depth[n]
    <3>1. PICK b \in Nat : Runs(n, prog[t], HeldBy(n, t), b)
      BY <2>1 DEF LockInv, Disciplined
    <3>2. HeldBy(n, t) \in Nat /\ prog[t] \in Programs /\ prog[t] # << >>
      BY <2>1, <1>5 DEF HeldBy, LockInv, LockTypes, Release
    <3>3. May(n, Head(prog[t]), HeldBy(n, t))
      BY <2>1, <3>1, <3>2, RunsTail
    <3>4. HeldBy(n, t) > 0
      BY <2>1, <3>3 DEF May
    <3> QED BY <3>4 DEF HeldBy
  <2>4. ASSUME NEW m \in Mutexes, NEW u \in Threads
        PROVE  HeldBy(m, u)' = IF m = n /\ u = t THEN HeldBy(m, u) - 1 ELSE HeldBy(m, u)
    <3>2. CASE m # n
      BY <3>2, <2>1, <2>2 DEF HeldBy, LockInv, LockTypes
    <3>3. CASE m = n /\ u # t
      <4>1. owner[n] # u /\ owner'[n] # u
        BY <3>3, <2>1, <2>2, <2>3, NamesAssumption DEF LockInv, LockTypes
      <4> QED BY <3>3, <4>1 DEF HeldBy
    <3>4. CASE m = n /\ u = t
      <4>1. depth'[n] = depth[n] - 1 /\ owner'[n] = IF depth[n] = 1 THEN Free ELSE t
        BY <2>1, <2>2, <2>3 DEF LockInv, LockTypes
      <4>2. depth[n] \in Nat
        BY <2>1 DEF LockInv, LockTypes
      <4> QED BY <3>4, <4>1, <4>2, <2>3, NamesAssumption DEF HeldBy
    <3> QED BY <3>2, <3>3, <3>4
  <2>5. \A m \in Mutexes : HeldBy(m, t)' = After(m, Head(prog[t]), HeldBy(m, t))
    BY <2>1, <2>4 DEF After
  <2>6. \A m \in Mutexes, u \in Threads : u # t => HeldBy(m, u)' = HeldBy(m, u)
    BY <2>4
  <2>7. /\ prog' \in [Threads -> Programs]
        /\ \A m \in Mutexes, u \in Threads : Disciplined(m, u)'
    BY <1>5, <2>5, <2>6, Consumes DEF Release
  <2>8. /\ owner' \in [Mutexes -> Threads \cup {Free}] /\ depth' \in [Mutexes -> Nat]
        /\ \A m \in Mutexes : (owner'[m] = Free <=> depth'[m] = 0)
    BY <2>1, <2>2, <2>3, NamesAssumption DEF LockInv, LockTypes
  <2> QED BY <1>5, <2>7, <2>8 DEF Release, LockInv, LockTypes
<1>6. ASSUME Send(t) PROVE LockInv'
  BY <1>2, <1>6 DEF Send, LockInv, LockTypes
<1>7. ASSUME SubmitJob(t) PROVE LockInv'
  <2>1. jobs' \in Seq(JobNames)
    BY <1>0, <1>7, StepArguments DEF SubmitJob, LockInv, LockTypes
  <2> QED BY <1>2, <1>7, <2>1 DEF SubmitJob, LockInv, LockTypes
<1>8. ASSUME ChangeTasks(t) PROVE LockInv'
  <2>1. prog[t] # << >> /\ Op(t) \in {"push", "task_done", "clear_tasks"}
    BY <1>8 DEF ChangeTasks
  <2>2. g_tasks' \in Seq(TaskNames)
    <3>0. g_tasks \in Seq(TaskNames)
      BY DEF LockInv, LockTypes
    <3>1. ASSUME Op(t) = "push", g_tasks' = IF core.core_executing THEN <<Arg(t)>> \o g_tasks
                                            ELSE g_tasks
          PROVE  g_tasks' \in Seq(TaskNames)
      <4>1. Arg(t) \in TaskNames
        BY <3>1, <2>1, <1>0, StepArguments
      <4>2. <<Arg(t)>> \in Seq(TaskNames)
        BY <4>1
      <4>3. <<Arg(t)>> \o g_tasks \in Seq(TaskNames)
        BY <4>2, <3>0
      <4> QED BY <4>3, <3>0, <3>1
    <3>2. ASSUME g_tasks' = Tail(g_tasks) PROVE g_tasks' \in Seq(TaskNames)
      <4>1. CASE g_tasks = << >>
        BY <4>1, <3>2
      <4>2. CASE g_tasks # << >>
        BY <4>2, <3>0, <3>2
      <4> QED BY <4>1, <4>2
    <3>3. << >> \in Seq(TaskNames)
      OBVIOUS
    <3> QED BY <1>8, <3>1, <3>2, <3>3 DEF ChangeTasks
  <2> QED BY <1>2, <1>8, <2>1, <2>2 DEF ChangeTasks, LockInv, LockTypes, PlainOps
<1>9. ASSUME JoinThread(t) PROVE LockInv'
  BY <1>2, <1>9 DEF JoinThread, LockInv, LockTypes
<1>10. ASSUME AwaitExecuting(t) PROVE LockInv'
  BY <1>2, <1>10 DEF AwaitExecuting, LockInv, LockTypes, PlainOps
<1>11. ASSUME Launch(t) PROVE LockInv'
  <2>0. /\ prog[t] # << >> /\ Head(prog[t])[1] = "launch"
        /\ prog[t] \in Programs /\ Tail(prog[t]) \in Programs
        /\ "emu" \in Threads /\ "vcr_mutex" \in Mutexes
    BY <1>11 DEF Launch, LockInv, LockTypes, Programs, Threads, Mutexes
  <2>1. emu_thread_enters \in Programs
    BY <2>0, LifePrograms DEF Sound, Neutral
  <2>2. \A u \in Threads : prog'[u] = IF u = "emu" THEN emu_thread_enters
                                      ELSE IF u = t THEN Tail(prog[t]) ELSE prog[u]
    BY <1>11, <2>0 DEF Launch, LockInv, LockTypes
  <2>3. prog' \in [Threads -> Programs]
    BY <1>11, <2>0, <2>1 DEF Launch, LockInv, LockTypes
  <2>4. ASSUME NEW m \in Mutexes, NEW u \in Threads PROVE Disciplined(m, u)'
    <3>0. HeldBy(m, u)' = HeldBy(m, u) /\ HeldBy(m, u) \in Nat
      BY <1>11 DEF Launch, HeldBy, LockInv, LockTypes
    <3>1. PICK b \in Nat : Runs(m, prog[u], HeldBy(m, u), b) /\ (u # "emu" => b = 0)
      BY DEF LockInv, Disciplined
    <3>2. CASE u = "emu"
      <4>1. Runs(m, emu_thread_enters, HeldBy(m, u), HeldBy(m, u))
        BY <3>0, LifePrograms DEF Sound, Neutral
      <4> QED BY <3>0, <3>2, <4>1, <2>2 DEF Disciplined
    <3>3. CASE u # "emu" /\ u = t
      <4>1. After(m, Head(prog[t]), HeldBy(m, u)) = HeldBy(m, u)
        BY <2>0 DEF After
      <4>2. Runs(m, Tail(prog[t]), HeldBy(m, u), b)
        BY <3>0, <3>1, <3>3, <4>1, <2>0, RunsTail
      <4> QED BY <3>0, <3>1, <3>3, <4>2, <2>2 DEF Disciplined
    <3>4. CASE u # "emu" /\ u # t
      BY <3>0, <3>1, <3>4, <2>2 DEF Disciplined
    <3> QED BY <3>2, <3>3, <3>4
  <2> QED BY <1>11, <2>3, <2>4 DEF Launch, LockInv, LockTypes
<1> QED BY <1>1, <1>3, <1>4, <1>5, <1>6, <1>7, <1>8, <1>9, <1>10, <1>11 DEF Step

LEMMA LockInvNext == LockInv /\ [Next]_vars => LockInv'
<1> SUFFICES ASSUME LockInv, [Next]_vars PROVE LockInv'
  OBVIOUS
<1>1. ASSUME NEW w \in Workers, TakeJob(w) PROVE LockInv'
  <2>1. w \in Threads /\ Head(jobs) \in JobNames /\ Tail(jobs) \in Seq(JobNames)
    BY <1>1 DEF TakeJob, Threads, LockInv, LockTypes
  <2>2. Sound(Job[Head(jobs)])
    BY <2>1, JobsAndCommands
  <2>3. /\ prog' \in [Threads -> Programs]
        /\ \A m \in Mutexes, u \in Threads : Disciplined(m, u)'
    BY <1>1, <2>1, <2>2, Begins DEF TakeJob
  <2> QED BY <1>1, <2>1, <2>3 DEF TakeJob, LockInv, LockTypes
<1>2. ASSUME EmuPolls PROVE LockInv'
  <2>1. PICK event \in {"input"} \cup scene.events :
            prog' = [prog EXCEPT !["emu"] = update_pif_read(event)]
    BY <1>2 DEF EmuPolls
  <2>2. event \in PollNames
    <3>1. DOMAIN Poll = PollNames
      BY DEF Poll, PollNames
    <3> QED BY <3>1, ScenariosAssumption DEF LockInv, LockTypes, PollNames
  <2>3. Sound(update_pif_read(event)) /\ "emu" \in Threads
    BY <2>2, Polls DEF Threads
  <2>4. /\ prog' \in [Threads -> Programs]
        /\ \A m \in Mutexes, u \in Threads : Disciplined(m, u)'
    BY <1>2, <2>1, <2>3, Begins DEF EmuPolls
  <2> QED BY <1>2, <2>4 DEF EmuPolls, LockInv, LockTypes
<1>3. ASSUME EmuStops PROVE LockInv'
  <2>1. CASE core.core_executing
    <3>1. /\ prog' \in [Threads -> Programs]
          /\ \A m \in Mutexes, u \in Threads : Disciplined(m, u)'
      BY <1>3, <2>1, LifePrograms, Begins DEF EmuStops, Threads
    <3> QED BY <1>3, <3>1 DEF EmuStops, LockInv, LockTypes
  <2>2. CASE ~core.core_executing
    BY <1>3, <2>2 DEF EmuStops, LockInv, LockTypes, Disciplined, HeldBy
  <2> QED BY <2>1, <2>2
<1>4. ASSUME AudioStops \/ CoreGivesUp \/ UNCHANGED vars PROVE LockInv'
  BY <1>4 DEF AudioStops, CoreGivesUp, vars, LockInv, LockTypes, Disciplined, HeldBy
<1>5. ASSUME NEW c \in DOMAIN Command \cup DOMAIN Job, UserCommands(c) PROVE LockInv'
  <2>1. CASE c \in DOMAIN Command /\ Idle(WindowOf(c))
             /\ prog' = [prog EXCEPT ![WindowOf(c)] = Command[c]] /\ UNCHANGED jobs
    <3>1. WindowOf(c) \in Threads /\ Sound(Command[c])
      BY <2>1, JobsAndCommands DEF WindowOf, Threads, Windows
    <3>2. /\ prog' \in [Threads -> Programs]
          /\ \A m \in Mutexes, u \in Threads : Disciplined(m, u)'
      BY <1>5, <2>1, <3>1, Begins DEF UserCommands, Idle
    <3> QED BY <1>5, <2>1, <3>2 DEF UserCommands, LockInv, LockTypes
  <2>2. CASE c \in DOMAIN Job /\ jobs' = Append(jobs, c) /\ UNCHANGED prog
    <3>1. jobs' \in Seq(JobNames)
      BY <2>2, JobsAndCommands DEF LockInv, LockTypes
    <3> QED BY <1>5, <2>2, <3>1 DEF UserCommands, LockInv, LockTypes, Disciplined, HeldBy
  <2> QED BY <1>5, <2>1, <2>2 DEF UserCommands
<1> QED BY <1>1, <1>2, <1>3, <1>4, <1>5, LockInvStep DEF Next

\* What every thread still has to run respects, for each mutex, whether the thread
\* holds it now: the inductive invariant behind the next three theorems.
THEOREM LocksDisciplined == Spec => []LockInv
<1> QED BY LockInvInit, LockInvNext, PTL DEF Spec

\* Whoever is about to do what a mutex protects holds that mutex.
Protected ==
    \A t \in Threads, m \in Mutexes :
        prog[t] # << >> /\ (Op(t) \in Under(m) \/ (Op(t) = "unlock" /\ Arg(t) = m))
            => owner[m] = t

LEMMA DisciplineProtects == LockInv => Protected
<1> SUFFICES ASSUME LockInv, NEW t \in Threads, NEW m \in Mutexes, prog[t] # << >>,
                    Op(t) \in Under(m) \/ (Op(t) = "unlock" /\ Arg(t) = m)
             PROVE  owner[m] = t
  BY DEF Protected
<1>1. PICK b \in Nat : Runs(m, prog[t], HeldBy(m, t), b)
  BY DEF LockInv, Disciplined
<1>2. HeldBy(m, t) \in Nat /\ prog[t] \in Programs
  BY DEF HeldBy, LockInv, LockTypes
<1>3. May(m, Head(prog[t]), HeldBy(m, t))
  BY <1>1, <1>2, RunsTail
<1>4. HeldBy(m, t) > 0
  BY <1>3 DEF May, Op, Arg
<1> QED BY <1>4 DEF HeldBy

\* No function of the source, whatever it calls and is interrupted by, uses the
\* map of seek savestates or leaves the engine without vcr_mutex, changes the queue
\* of savestate tasks without g_task_mutex, starts, joins or ends a thread of the core
\* without g_emu_cs, or unlocks a mutex that its thread does not hold.  Excepted is
\* g_seek_savestates[closest_key] in the job of a seek, which takes no mutex.
THEOREM MutexesProtect == Spec => []Protected
<1> QED BY LocksDisciplined, DisciplineProtects, PTL

\* Of two threads that use g_seek_savestates at the same time one is at the lookup
\* in the job of a seek: every other use is under vcr_mutex (vcr_begin_seek_impl,
\* vcr_clear_seek_savestates, vcr_create_n_frame_savestate and its callback).
THEOREM SeekSavestatesUnderMutex == Spec => []OnlyLookupRaces
<1>1. Protected => OnlyLookupRaces
  <2> SUFFICES ASSUME Protected, NEW t \in Threads, NEW u \in Threads, t # u,
                      At(t, "read") \/ At(t, "write"), At(u, "read") \/ At(u, "write")
               PROVE  FALSE
    BY DEF OnlyLookupRaces, UsesSavestates
  <2>1. {"read", "write"} \subseteq Under("vcr_mutex") /\ "vcr_mutex" \in Mutexes
    BY DEF Under, Mutexes
  <2>2. owner["vcr_mutex"] = t /\ owner["vcr_mutex"] = u
    BY <2>1 DEF Protected, At, Op
  <2> QED BY <2>2
<1> QED BY <1>1, MutexesProtect, PTL

\* A thread that is back in its loop holds no mutex (the emulation thread, which
\* a launch over a running thread would replace, apart).
IdleHoldNothing ==
    \A t \in Threads \ {"emu"}, m \in Mutexes : prog[t] = << >> => owner[m] # t

\* Every function of the source unlocks what it locked, on each of its paths.
THEOREM LocksAreReleased == Spec => []IdleHoldNothing
<1>1. LockInv => IdleHoldNothing
  <2> SUFFICES ASSUME LockInv, NEW t \in Threads \ {"emu"}, NEW m \in Mutexes, prog[t] = << >>
               PROVE  owner[m] # t
    BY DEF IdleHoldNothing
  <2>1. Runs(m, << >>, HeldBy(m, t), 0)
    BY DEF LockInv, Disciplined
  <2>2. Len(<< >>) = 0
    OBVIOUS
  <2>3. HeldBy(m, t) = 0
    BY <2>1, <2>2 DEF Runs
  <2> QED BY <2>3, NamesAssumption DEF HeldBy, LockInv, LockTypes
<1> QED BY <1>1, LocksDisciplined, PTL

-----------------------------------------------------------------------------
(* The life of the core                                                    *)
(*                                                                         *)
(* The same method shows that thread handles are free when they are        *)
(* assigned.  Every point of a program has a phase: what its thread knows  *)
(* of the handles.  A close joins the audio thread, tells the core to stop *)
(* and joins the emulation thread, in this order, after which both handles *)
(* are free until it unlocks g_emu_cs; a launch happens in that phase only.*)

Phases == {"any", "joined", "stopped", "free", "leaving"}

LifeOps == {"close_if_launched", "reset_if_launched", "ensure_core", "begin_seek_slow",
            "join", "terminate_emu", "launch", "emu_leaves"}

Calming(step) ==
    step[1] \notin LifeOps /\ ~(step[1] = "unlock" /\ step[2] = "g_emu_cs")

Moves(step, p, q) ==
    /\ Calming(step) => q = p
    /\ step[1] = "close_if_launched" => p = "any" /\ q = "free"
    /\ step[1] \in {"reset_if_launched", "ensure_core", "begin_seek_slow"} =>
           p = "any" /\ q = "any"
    /\ step[1] = "join" => IF step[2] = "audio" THEN p = "any" /\ q = "joined"
                           ELSE p = "stopped" /\ q = "free"
    /\ step[1] = "terminate_emu" => p = "joined" /\ q = "stopped"
    /\ step[1] = "launch" => p = "free" /\ q = "any"
    /\ step[1] = "emu_leaves" => p = "leaving" /\ q = "any"
    /\ step[1] = "unlock" /\ step[2] = "g_emu_cs" => p \in {"any", "free"} /\ q = "any"

Lives(s, p, q) ==
    \E ph \in [0 .. Len(s) -> Phases] :
        /\ ph[0] = p /\ ph[Len(s)] = q
        /\ \A i \in 1 .. Len(s) : Moves(s[i], ph[i - 1], ph[i])

LEMMA StepIsProgram == \A step \in Steps : <<step>> \in Programs
BY DEF Programs

LEMMA ProgramsConcat == \A s, r \in Programs : s \o r \in Programs
BY DEF Programs

LEMMA LivesConcat ==
    ASSUME NEW s \in Programs, NEW r \in Programs,
           NEW a \in Phases, NEW b \in Phases, NEW c \in Phases,
           Lives(s, a, b), Lives(r, b, c)
    PROVE  Lives(s \o r, a, c)
<1>1. PICK l \in [0 .. Len(s) -> Phases] :
          /\ l[0] = a /\ l[Len(s)] = b
          /\ \A i \in 1 .. Len(s) : Moves(s[i], l[i - 1], l[i])
  BY DEF Lives
<1>2. PICK k \in [0 .. Len(r) -> Phases] :
          /\ k[0] = b /\ k[Len(r)] = c
          /\ \A i \in 1 .. Len(r) : Moves(r[i], k[i - 1], k[i])
  BY DEF Lives
<1>3. /\ Len(s) \in Nat /\ Len(r) \in Nat /\ Len(s \o r) = Len(s) + Len(r)
      /\ \A i \in 1 .. Len(s \o r) :
            (s \o r)[i] = IF i <= Len(s) THEN s[i] ELSE r[i - Len(s)]
  BY DEF Programs
<1> DEFINE z == [i \in 0 .. Len(s) + Len(r) |-> IF i <= Len(s) THEN l[i] ELSE k[i - Len(s)]]
<1>4. z \in [0 .. Len(s \o r) -> Phases] /\ z[0] = a /\ z[Len(s \o r)] = c
  BY <1>1, <1>2, <1>3
<1>5. ASSUME NEW i \in 1 .. Len(s \o r)
      PROVE  Moves((s \o r)[i], z[i - 1], z[i])
  <2>1. CASE i <= Len(s)
    <3>1. i \in 1 .. Len(s) /\ z[i] = l[i] /\ z[i - 1] = l[i - 1] /\ (s \o r)[i] = s[i]
      BY <2>1, <1>3
    <3> QED BY <3>1, <1>1
  <2>2. CASE i > Len(s)
    <3>1. i - Len(s) \in 1 .. Len(r) /\ z[i] = k[i - Len(s)] /\ (s \o r)[i] = r[i - Len(s)]
      BY <2>2, <1>3
    <3>2. z[i - 1] = k[(i - Len(s)) - 1]
      <4>1. CASE i = Len(s) + 1
        <5>1. i - 1 = Len(s) /\ (i - Len(s)) - 1 = 0 /\ i - 1 \in 0 .. Len(s) + Len(r)
          BY <4>1, <1>3
        <5>2. z[i - 1] = l[Len(s)]
          BY <5>1, <1>3
        <5> QED BY <5>1, <5>2, <1>1, <1>2
      <4>2. CASE i # Len(s) + 1
        <5>0. i \in Nat /\ i <= Len(s) + Len(r) /\ Len(s) \in Nat /\ Len(r) \in Nat
          BY <1>3
        <5>1. i - 1 > Len(s) /\ i - 1 \in 0 .. Len(s) + Len(r)
          BY <2>2, <4>2, <5>0
        <5>2. (i - Len(s)) - 1 = (i - 1) - Len(s)
          BY <5>0, <1>3
        <5>3. z[i - 1] = k[(i - 1) - Len(s)]
          BY <5>1, <1>3
        <5> QED BY <5>2, <5>3
      <4> QED BY <4>1, <4>2
    <3> QED BY <3>1, <3>2, <1>2
  <2> QED BY <2>1, <2>2, <1>3
<1> HIDE DEF z
<1> QED BY <1>4, <1>5 DEF Lives

LEMMA LivesTail ==
    ASSUME NEW s \in Programs, s # << >>, NEW a \in Phases, NEW c \in Phases, Lives(s, a, c)
    PROVE  \E b \in Phases : Moves(Head(s), a, b) /\ Lives(Tail(s), b, c)
<1>1. PICK l \in [0 .. Len(s) -> Phases] :
          /\ l[0] = a /\ l[Len(s)] = c
          /\ \A i \in 1 .. Len(s) : Moves(s[i], l[i - 1], l[i])
  BY DEF Lives
<1>2. /\ Len(s) \in Nat \ {0} /\ Len(Tail(s)) = Len(s) - 1 /\ Head(s) = s[1]
      /\ \A i \in 1 .. Len(s) - 1 : Tail(s)[i] = s[i + 1]
  BY DEF Programs
<1>3. Moves(s[1], l[0], l[1]) /\ l[1] \in Phases
  BY <1>1, <1>2
<1> DEFINE z == [i \in 0 .. Len(s) - 1 |-> l[i + 1]]
<1>4. z \in [0 .. Len(Tail(s)) -> Phases] /\ z[0] = l[1] /\ z[Len(Tail(s))] = c
  BY <1>1, <1>2
<1>5. ASSUME NEW i \in 1 .. Len(Tail(s))
      PROVE  Moves(Tail(s)[i], z[i - 1], z[i])
  <2>1. i + 1 \in 1 .. Len(s) /\ Tail(s)[i] = s[i + 1] /\ z[i] = l[i + 1] /\ z[i - 1] = l[i]
    BY <1>2
  <2>2. (i + 1) - 1 = i
    OBVIOUS
  <2> QED BY <2>1, <2>2, <1>1
<1> HIDE DEF z
<1>6. Lives(Tail(s), l[1], c)
  BY <1>4, <1>5 DEF Lives
<1> QED BY <1>1, <1>2, <1>3, <1>6

LEMMA LivesStep ==
    ASSUME NEW step \in Steps, NEW a \in Phases, NEW b \in Phases, Moves(step, a, b)
    PROVE  Lives(<<step>>, a, b)
<1> DEFINE z == [i \in 0 .. 1 |-> IF i = 0 THEN a ELSE b]
<1>1. Len(<<step>>) = 1 /\ <<step>>[1] = step
  OBVIOUS
<1>2. z \in [0 .. 1 -> Phases] /\ z[0] = a /\ z[1] = b
  OBVIOUS
<1> HIDE DEF z
<1> QED BY <1>1, <1>2 DEF Lives

LEMMA LivesEmpty ==
    ASSUME NEW a \in Phases
    PROVE  Lives(<< >>, a, a)
<1> DEFINE z == [i \in 0 .. 0 |-> a]
<1>1. z \in [0 .. Len(<< >>) -> Phases] /\ z[0] = a /\ Len(<< >>) = 0
  OBVIOUS
<1> HIDE DEF z
<1> QED BY <1>1 DEF Lives

\* Programs that leave every phase as it is, and programs of a thread that knows
\* nothing of the handles.
Calm(s) == s \in Programs /\ \A p \in Phases : Lives(s, p, p)
Home(s) == s \in Programs /\ Lives(s, "any", "any")

LEMMA CalmIsHome == \A s : Calm(s) => Home(s)
BY DEF Calm, Home, Phases

LEMMA CalmEmpty == Calm(<< >>)
BY LivesEmpty DEF Calm, Programs

LEMMA CalmConcat == \A s, r : Calm(s) /\ Calm(r) => Calm(s \o r)
<1> SUFFICES ASSUME NEW s, NEW r, Calm(s), Calm(r) PROVE Calm(s \o r)
  OBVIOUS
<1>1. s \o r \in Programs
  BY DEF Calm, Programs
<1> QED BY <1>1, LivesConcat DEF Calm

LEMMA HomeConcat == \A s, r : Home(s) /\ Home(r) => Home(s \o r)
<1> SUFFICES ASSUME NEW s, NEW r, Home(s), Home(r) PROVE Home(s \o r)
  OBVIOUS
<1>1. s \o r \in Programs /\ "any" \in Phases
  BY DEF Home, Programs, Phases
<1> QED BY <1>1, LivesConcat DEF Home

LEMMA CalmStep ==
    ASSUME NEW step \in Steps, Calming(step)
    PROVE  Calm(<<step>>)
<1>1. <<step>> \in Programs
  BY DEF Programs
<1>2. \A p \in Phases : Moves(step, p, p)
  BY DEF Moves, Calming, LifeOps
<1> QED BY <1>1, <1>2, LivesStep DEF Calm

LEMMA CalmLocked ==
    \A n \in Mutexes \ {"g_emu_cs"} : \A s :
        /\ Calm(s) => Calm(Locked(n, s))
        /\ Home(s) => Home(Locked(n, s))
<1> SUFFICES ASSUME NEW n \in Mutexes \ {"g_emu_cs"}, NEW s
             PROVE  /\ Calm(s) => Calm(Locked(n, s))
                    /\ Home(s) => Home(Locked(n, s))
  OBVIOUS
<1>1. <<"lock", n>> \in Steps /\ <<"unlock", n>> \in Steps
  BY DEF Steps
<1>2. Calming(<<"lock", n>>) /\ Calming(<<"unlock", n>>)
  BY DEF Calming, LifeOps
<1>3. Calm(Lock(n)) /\ Calm(Unlock(n))
  BY <1>1, <1>2, CalmStep DEF Lock, Unlock
<1> QED BY <1>3, CalmConcat, CalmIsHome, HomeConcat DEF Locked

LEMMA HomeLocked ==
    \A s \in Programs : Lives(s, "any", "any") \/ Lives(s, "any", "free")
        => Home(Locked("g_emu_cs", s))
<1> SUFFICES ASSUME NEW s \in Programs, NEW p \in {"any", "free"}, Lives(s, "any", p)
             PROVE  Home(Locked("g_emu_cs", s))
  OBVIOUS
<1>1. /\ <<"lock", "g_emu_cs">> \in Steps /\ <<"unlock", "g_emu_cs">> \in Steps
      /\ "any" \in Phases /\ p \in Phases
  BY DEF Steps, Mutexes, Phases
<1>2. /\ Lock("g_emu_cs") \in Programs /\ Unlock("g_emu_cs") \in Programs
      /\ Lock("g_emu_cs") \o s \in Programs /\ Locked("g_emu_cs", s) \in Programs
  BY <1>1 DEF Programs, Lock, Unlock, Locked
<1>3. /\ Moves(<<"lock", "g_emu_cs">>, "any", "any")
      /\ Moves(<<"unlock", "g_emu_cs">>, p, "any")
  BY DEF Moves, Calming, LifeOps
<1>4. Lives(Lock("g_emu_cs"), "any", "any") /\ Lives(Unlock("g_emu_cs"), p, "any")
  BY <1>1, <1>3, LivesStep DEF Lock, Unlock
<1>5. Lives(Lock("g_emu_cs") \o s, "any", p)
  BY <1>1, <1>2, <1>4, LivesConcat
<1> QED BY <1>1, <1>2, <1>4, <1>5, LivesConcat DEF Home, Locked

CalmOps == PlainOps \ LifeOps

LEMMA CalmSteps ==
    /\ \A op \in CalmOps : Calm(Do(op))
    /\ \A task \in TaskNames : Calm(Push(task))
    /\ \A job \in JobNames : Calm(Submit(job))
    /\ \A w \in Windows : Calm(SendMessage(w))
<1>1. \A op \in CalmOps : Calm(Do(op))
  <2> SUFFICES ASSUME NEW op \in CalmOps PROVE Calm(Do(op))
    OBVIOUS
  <2>1. <<op, "">> \in Steps /\ Calming(<<op, "">>)
    BY DEF Steps, CalmOps, Calming
  <2> QED BY <2>1, CalmStep DEF Do
<1>2. \A task \in TaskNames : Calm(Push(task))
  <2> SUFFICES ASSUME NEW task \in TaskNames PROVE Calm(Push(task))
    OBVIOUS
  <2>1. <<"push", task>> \in Steps /\ Calming(<<"push", task>>)
    BY DEF Steps, Calming, LifeOps
  <2> QED BY <2>1, CalmStep DEF Push
<1>3. \A job \in JobNames : Calm(Submit(job))
  <2> SUFFICES ASSUME NEW job \in JobNames PROVE Calm(Submit(job))
    OBVIOUS
  <2>1. <<"submit", job>> \in Steps /\ Calming(<<"submit", job>>)
    BY DEF Steps, Calming, LifeOps
  <2> QED BY <2>1, CalmStep DEF Submit
<1>4. \A w \in Windows : Calm(SendMessage(w))
  <2> SUFFICES ASSUME NEW w \in Windows PROVE Calm(SendMessage(w))
    OBVIOUS
  <2>1. <<"send", w>> \in Steps /\ Calming(<<"send", w>>)
    BY DEF Steps, Calming, LifeOps
  <2> QED BY <2>1, CalmStep DEF SendMessage
<1> QED BY <1>1, <1>2, <1>3, <1>4

LEMMA CalmMessages ==
    /\ Calm(invoke) /\ Calm(task_changed) /\ Calm(rerecords_changed)
    /\ Calm(readonly_changed) /\ Calm(emu_paused_changed) /\ Calm(seek_completed)
    /\ Calm(emu_launched_changed) /\ Calm(lua_callback)
<1>1. Calm(invoke)
  BY CalmSteps DEF invoke, Windows
<1>2. /\ Calm(task_changed) /\ Calm(rerecords_changed)
      /\ Calm(readonly_changed) /\ Calm(emu_paused_changed)
      /\ Calm(emu_launched_changed) /\ Calm(lua_callback)
  BY <1>1, CalmSteps DEF task_changed, rerecords_changed, readonly_changed, emu_paused_changed,
                    emu_launched_changed, lua_callback, Windows
<1>3. Calm(seek_completed)
  BY <1>1, CalmSteps, CalmConcat DEF seek_completed, Windows
<1> QED BY <1>1, <1>2, <1>3

LEMMA CalmNames ==
    {"write", "stop_seek", "seek_begun", "seek_over", "pause", "resume", "stop_audio",
     "audio_stopped", "core_executing", "core_stopped", "clear_tasks", "run_tasks", "task_done",
     "await_executing", "resetting", "reset_done", "core_vr_pause_emu", "read", "begin_seek",
     "core_vr_frame_advance", "count_frame", "wait_unpaused", "frame_advanced",
     "emu_launched_changed", "lookup", "load_result"} \subseteq CalmOps
BY DEF CalmOps, PlainOps, Expandable, Assignments, LifeOps

LEMMA LifeOfEngine ==
    /\ Calm(core_vcr_stop_all) /\ Calm(core_vcr_stop_seek) /\ Calm(begin_seek_fast)
    /\ Calm(core_vcr_start_record)
    /\ Home(core_vcr_start_playback) /\ Home(begin_seek_slow)
<1>0. "vcr_mutex" \in Mutexes \ {"g_emu_cs"} /\ "g_task_mutex" \in Mutexes \ {"g_emu_cs"}
  BY DEF Mutexes
<1>1. Calm(core_vcr_stop_all)
  <2>1. Calm(Locked("vcr_mutex", Do("write")))
    BY <1>0, CalmSteps, CalmNames, CalmLocked
  <2>2. Calm(Locked("vcr_mutex", task_changed \o lua_callback))
    BY <1>0, CalmMessages, CalmConcat, CalmLocked
  <2> QED BY <2>1, <2>2, CalmConcat DEF core_vcr_stop_all, vcr_clear_seek_savestates, Write
<1>2. Calm(core_vcr_stop_seek)
  BY <1>0, CalmSteps, CalmNames, CalmLocked DEF core_vcr_stop_seek
<1>3. Calm(begin_seek) /\ Calm(find_closest)
  <2>1. /\ Calm(Do("seek_begun")) /\ Calm(Do("resume"))
        /\ Calm(Do("write")) /\ Calm(Do("read"))
    BY CalmSteps, CalmNames
  <2>2. Calm(core_vr_resume_emu)
    BY <2>1, CalmMessages, CalmConcat DEF core_vr_resume_emu
  <2>3. Calm(begin_seek)
    BY <2>1, <2>2, CalmConcat DEF begin_seek
  <2>4. Calm(find_closest)
    BY <2>1, CalmConcat DEF find_closest, Write, Read
  <2> QED BY <2>3, <2>4
<1>4. Calm(Submit("seek_load")) /\ Calm(Submit("movie_load")) /\ Calm(Push("record_start"))
  BY CalmSteps DEF JobNames, TaskNames
<1>5. Calm(begin_seek_fast)
  BY <1>3, <1>4, CalmMessages, CalmConcat DEF begin_seek_fast
<1>6. Calm(core_vcr_start_record)
  <2>1. Calm(Locked("g_task_mutex", Push("record_start")))
    BY <1>0, <1>4, CalmLocked
  <2>2. Calm(core_vcr_stop_all \o readonly_changed
                            \o Locked("g_task_mutex", Push("record_start"))
                            \o task_changed \o rerecords_changed)
    BY <1>1, <2>1, CalmMessages, CalmConcat
  <2> QED BY <1>0, <2>2, CalmLocked DEF core_vcr_start_record
<1>7. Home(core_vcr_start_playback)
  <2>1. Home(Do("ensure_core"))
    <3>1. <<"ensure_core", "">> \in Steps /\ Moves(<<"ensure_core", "">>, "any", "any")
      BY DEF Steps, PlainOps, Expandable, Moves, Calming, LifeOps
    <3>2. <<<<"ensure_core", "">>>> \in Programs
      BY <3>1, StepIsProgram
    <3> QED BY <3>1, <3>2, LivesStep DEF Do, Home, Phases
  <2>2. Home(core_vcr_stop_all) /\ Home(Submit("movie_load")) /\ Home(task_changed)
        /\ Home(rerecords_changed) /\ Home(lua_callback)
    BY <1>1, <1>4, CalmMessages, CalmIsHome
  <2>3. Home(Do("ensure_core") \o core_vcr_stop_all \o Submit("movie_load")
                            \o task_changed \o rerecords_changed \o lua_callback)
    BY <2>1, <2>2, HomeConcat
  <2> QED BY <1>0, <2>3, CalmLocked DEF core_vcr_start_playback
<1>8. Home(begin_seek_slow)
  BY <1>3, <1>7, CalmIsHome, HomeConcat DEF begin_seek_slow
<1> QED BY <1>1, <1>2, <1>5, <1>6, <1>7, <1>8

LEMMA LifeOfSavestates ==
    /\ Calm(st_do_work)
    /\ \A task \in TaskNames : Calm(savestates_immediate(task))
<1>0. "vcr_mutex" \in Mutexes \ {"g_emu_cs"} /\ "g_task_mutex" \in Mutexes \ {"g_emu_cs"}
  BY DEF Mutexes
<1>1. Calm(st_do_work)
  BY <1>0, CalmSteps, CalmNames, CalmLocked DEF st_do_work
<1>2. Calm(task_changed \o rerecords_changed)
  BY CalmMessages, CalmConcat
<1>3. /\ Calm(Locked("vcr_mutex", task_changed \o rerecords_changed))
      /\ Calm(Locked("vcr_mutex", << >>))
  BY <1>0, <1>2, CalmEmpty, CalmLocked
<1>4. Calm(keep_seek_savestate)
  BY <1>0, CalmSteps, CalmNames, CalmLocked DEF keep_seek_savestate, Write
<1>5. \A task \in TaskNames : Calm(TaskCallback[task])
  <2>1. Calm(Do("load_result"))
    BY CalmSteps, CalmNames
  <2> QED BY <1>3, <1>4, <2>1, CalmEmpty DEF TaskNames, TaskCallback
<1>6. \A task \in TaskNames : /\ Calm(core_vcr_freeze \o TaskCallback[task] \o lua_callback)
                              /\ Calm(core_vcr_unfreeze \o lua_callback \o TaskCallback[task])
  <2>1. Calm(core_vcr_freeze) /\ Calm(core_vcr_unfreeze)
    BY <1>3 DEF core_vcr_freeze, core_vcr_unfreeze
  <2> QED BY <1>5, <2>1, CalmMessages, CalmConcat
<1> QED BY <1>1, <1>6 DEF savestates_immediate

LEMMA LifeOfCore ==
    /\ Calm(core_vr_pause_emu) /\ Calm(core_vr_resume_emu)
    /\ vr_close_rom_impl \in Programs /\ Lives(vr_close_rom_impl, "any", "free")
    /\ Home(core_vr_start_rom) /\ Home(core_vr_close_rom)
    /\ Home(vr_reset_rom_impl) /\ Home(core_vr_reset_rom)
    /\ Calm(emu_thread_enters)
    /\ emu_thread_leaves \in Programs /\ Lives(emu_thread_leaves, "leaving", "any")
<1>0. /\ "any" \in Phases /\ "joined" \in Phases /\ "stopped" \in Phases
      /\ "free" \in Phases /\ "leaving" \in Phases
  BY DEF Phases
<1>1. Calm(core_vr_pause_emu)
  BY CalmSteps, CalmNames DEF core_vr_pause_emu
<1>2. Calm(core_vr_resume_emu)
  <2>1. Calm(Do("resume"))
    BY CalmSteps, CalmNames
  <2> QED BY <2>1, CalmMessages, CalmConcat DEF core_vr_resume_emu
<1>3. vr_close_rom_impl \in Programs /\ Lives(vr_close_rom_impl, "any", "free")
  <2> DEFINE a == core_vr_resume_emu \o Do("stop_audio")
             b == Do("audio_stopped") 
  <2>1. Calm(a) /\ Calm(Do("audio_stopped")) /\ Calm(core_vcr_stop_all) /\ Calm(invoke)
    BY <1>2, CalmSteps, CalmNames, CalmConcat, CalmMessages, LifeOfEngine
  <2>2. /\ <<"join", "audio">> \in Steps /\ <<"join", "emu">> \in Steps
        /\ <<"terminate_emu", "">> \in Steps
    BY DEF Steps, PlainOps, Assignments
  <2>3. /\ Moves(<<"join", "audio">>, "any", "joined") /\ Moves(<<"join", "emu">>, "stopped", "free")
        /\ Moves(<<"terminate_emu", "">>, "joined", "stopped")
    BY DEF Moves, Calming, LifeOps
  <2>4. /\ Lives(Join("audio"), "any", "joined") /\ Lives(Join("emu"), "stopped", "free")
        /\ Lives(Do("terminate_emu"), "joined", "stopped")
    BY <1>0, <2>2, <2>3, LivesStep DEF Join, Do
  <2>5. Join("audio") \in Programs /\ Join("emu") \in Programs /\ Do("terminate_emu") \in Programs
    BY <2>2, StepIsProgram DEF Join, Do
  <2> HIDE DEF a
  <2>6. a \o Join("audio") \in Programs /\ Lives(a \o Join("audio"), "any", "joined")
    <3>1. a \in Programs /\ Lives(a, "any", "any")
      BY <1>0, <2>1 DEF Calm
    <3> QED BY <3>1, <1>0, <2>4, <2>5, LivesConcat, ProgramsConcat
  <2>7. ASSUME NEW s \in Programs, Lives(s, "any", "joined"), NEW r, Calm(r)
        PROVE  s \o r \in Programs /\ Lives(s \o r, "any", "joined")
    <3>1. r \in Programs /\ Lives(r, "joined", "joined")
      BY <1>0, <2>7 DEF Calm
    <3>2. s \o r \in Programs
      BY <3>1, <2>7 DEF Programs
    <3> QED BY <3>1, <3>2, <1>0, <2>7, LivesConcat
  <2> DEFINE c == a \o Join("audio") \o Do("audio_stopped") \o core_vcr_stop_all \o invoke
  <2>8. c \in Programs /\ Lives(c, "any", "joined")
    <3>1. /\ a \o Join("audio") \o Do("audio_stopped") \in Programs
          /\ Lives(a \o Join("audio") \o Do("audio_stopped"), "any", "joined")
      BY <2>1, <2>6, <2>7
    <3>2. /\ a \o Join("audio") \o Do("audio_stopped") \o core_vcr_stop_all \in Programs
          /\ Lives(a \o Join("audio") \o Do("audio_stopped") \o core_vcr_stop_all, "any", "joined")
      BY <2>1, <3>1, <2>7
    <3> QED BY <2>1, <3>2, <2>7
  <2> HIDE DEF c
  <2>9. c \o Do("terminate_emu") \in Programs /\ Lives(c \o Do("terminate_emu"), "any", "stopped")
    BY <1>0, <2>4, <2>5, <2>8, LivesConcat, ProgramsConcat
  <2>10. /\ c \o Do("terminate_emu") \o Join("emu") \in Programs
         /\ Lives(c \o Do("terminate_emu") \o Join("emu"), "any", "free")
    BY <1>0, <2>4, <2>5, <2>9, LivesConcat, ProgramsConcat
  <2>11. vr_close_rom_impl = c \o Do("terminate_emu") \o Join("emu")
    BY DEF vr_close_rom_impl, c, a
  <2> QED BY <2>10, <2>11
<1>4. /\ Do("close_if_launched") \in Programs /\ Lives(Do("close_if_launched"), "any", "free")
      /\ Do("launch") \in Programs /\ Lives(Do("launch"), "free", "any")
      /\ Home(Do("reset_if_launched"))
      /\ Do("emu_leaves") \in Programs /\ Lives(Do("emu_leaves"), "leaving", "any")
  <2>1. /\ <<"close_if_launched", "">> \in Steps /\ <<"launch", "">> \in Steps
        /\ <<"reset_if_launched", "">> \in Steps /\ <<"emu_leaves", "">> \in Steps
    BY DEF Steps, PlainOps, Expandable, Assignments
  <2>2. /\ Moves(<<"close_if_launched", "">>, "any", "free")
        /\ Moves(<<"launch", "">>, "free", "any")
        /\ Moves(<<"reset_if_launched", "">>, "any", "any")
        /\ Moves(<<"emu_leaves", "">>, "leaving", "any")
    BY DEF Moves, Calming, LifeOps
  <2>3. /\ Do("close_if_launched") \in Programs /\ Do("launch") \in Programs
        /\ Do("reset_if_launched") \in Programs /\ Do("emu_leaves") \in Programs
    BY <2>1, StepIsProgram DEF Do
  <2> QED BY <1>0, <2>1, <2>2, <2>3, LivesStep DEF Do, Home
<1>5. Home(core_vr_start_rom)
  <2>1. Calm(Do("await_executing"))
    BY CalmSteps, CalmNames
  <2>2. /\ Do("close_if_launched") \o Do("launch") \in Programs
        /\ Lives(Do("close_if_launched") \o Do("launch"), "any", "any")
    BY <1>0, <1>4, LivesConcat, ProgramsConcat
  <2>3. Home(vr_start_rom_impl)
    BY <2>1, <2>2, CalmIsHome, HomeConcat DEF Home, vr_start_rom_impl
  <2> QED BY <2>3, HomeLocked DEF Home, core_vr_start_rom
<1>6. Home(core_vr_close_rom)
  BY <1>4, HomeLocked DEF core_vr_close_rom
<1>7. Home(vr_reset_rom_impl)
  <2>1. Home(Do("resetting")) /\ Home(Do("reset_done"))
    BY CalmSteps, CalmNames, CalmIsHome
  <2> QED BY <2>1, <1>5, <1>6, HomeConcat DEF vr_reset_rom_impl
<1>8. Home(core_vr_reset_rom)
  BY <1>4, HomeLocked DEF core_vr_reset_rom, Home
<1>9. Calm(emu_thread_enters)
  <2>1. Calm(Do("core_executing"))
    BY CalmSteps, CalmNames
  <2> QED BY <2>1, CalmMessages, CalmConcat DEF emu_thread_enters
<1>10. emu_thread_leaves \in Programs /\ Lives(emu_thread_leaves, "leaving", "any")
  <2>0. "g_task_mutex" \in Mutexes \ {"g_emu_cs"}
    BY DEF Mutexes
  <2> DEFINE a == Do("core_stopped") \o Locked("g_task_mutex", Do("clear_tasks"))
  <2>1. Calm(a) /\ Calm(Do("emu_launched_changed"))
    BY <2>0, CalmSteps, CalmNames, CalmConcat, CalmLocked
  <2> HIDE DEF a
  <2>2. a \in Programs /\ Lives(a, "leaving", "leaving")
        /\ Do("emu_launched_changed") \in Programs /\ Lives(Do("emu_launched_changed"), "any", "any")
    BY <1>0, <2>1 DEF Calm
  <2>3. a \o Do("emu_leaves") \in Programs /\ Lives(a \o Do("emu_leaves"), "leaving", "any")
    BY <1>0, <1>4, <2>2, LivesConcat, ProgramsConcat
  <2>4. /\ a \o Do("emu_leaves") \o Do("emu_launched_changed") \in Programs
        /\ Lives(a \o Do("emu_leaves") \o Do("emu_launched_changed"), "leaving", "any")
    BY <1>0, <2>2, <2>3, LivesConcat, ProgramsConcat
  <2> QED BY <2>4 DEF emu_thread_leaves, a
<1> QED BY <1>1, <1>2, <1>3, <1>5, <1>6, <1>7, <1>8, <1>9, <1>10

LEMMA LifeOfJobs ==
    /\ \A job \in JobNames : Home(Job[job])
    /\ \A command \in DOMAIN Command : Home(Command[command])
    /\ \A event \in PollNames : Home(update_pif_read(event))
<1>0. "vcr_mutex" \in Mutexes \ {"g_emu_cs"} /\ "g_task_mutex" \in Mutexes \ {"g_emu_cs"}
  BY DEF Mutexes
<1>1. \A job \in JobNames : Home(Job[job])
  <2>1. \A task \in TaskNames : Calm(Locked("g_task_mutex", Push(task)))
    BY <1>0, CalmSteps, CalmLocked
  <2>2. Calm(Do("lookup") \o Locked("g_task_mutex", Push("seek_load")))
    BY <2>1, CalmSteps, CalmNames, CalmConcat DEF TaskNames
  <2>3. Calm(core_vcr_begin_seek)
    BY <1>0, CalmSteps, CalmNames, CalmLocked DEF core_vcr_begin_seek
  <2>4. Home(Locked("vcr_mutex", Do("begin_seek_slow")))
    <3>1. <<"begin_seek_slow", "">> \in Steps /\ Moves(<<"begin_seek_slow", "">>, "any", "any")
      BY DEF Steps, PlainOps, Expandable, Moves, Calming, LifeOps
    <3>2. Home(Do("begin_seek_slow"))
      BY <3>1, StepIsProgram, LivesStep DEF Do, Home, Phases
    <3> QED BY <1>0, <3>2, CalmLocked
  <2>5. Home(core_vr_reset_rom \o Locked("vcr_mutex", task_changed \o rerecords_changed))
    <3>1. Calm(Locked("vcr_mutex", task_changed \o rerecords_changed))
      BY <1>0, CalmMessages, CalmConcat, CalmLocked
    <3> QED BY <3>1, LifeOfCore, CalmIsHome, HomeConcat
  <2>6. Home(Job.slot_save) /\ Home(Job.slot_load) /\ Home(Job.movie_load)
    BY <2>1, CalmIsHome DEF Job, TaskNames
  <2>7. Home(Job.seek_load) /\ Home(Job.seek) /\ Home(Job.seek_slow) /\ Home(Job.movie_reset)
    BY <2>2, <2>3, <2>4, <2>5, CalmIsHome DEF Job, Lookup
  <2>8. Home(Job.stop_movie) /\ Home(Job.start_playback) /\ Home(Job.start_record)
    BY LifeOfEngine, CalmIsHome DEF Job
  <2>9. Home(Job.close) /\ Home(Job.reset) /\ Home(Job.start)
    BY LifeOfCore DEF Job
  <2> QED BY <2>6, <2>7, <2>8, <2>9 DEF JobNames
<1>2. \A command \in DOMAIN Command : Home(Command[command])
  <2>1. Calm(Do("core_vr_frame_advance") \o core_vr_resume_emu)
    BY CalmSteps, CalmNames, CalmConcat, LifeOfCore
  <2>2. Home(Command.pause) /\ Home(Command.resume)
    BY LifeOfCore, CalmIsHome DEF Command
  <2>3. Home(Command.frame_advance) /\ Home(Command.seeker_stop)
    BY <2>1, LifeOfEngine, CalmIsHome DEF Command
  <2>4. Home(Command.lua_stop) /\ Home(Command.lua_stop_seek)
    BY LifeOfEngine, CalmIsHome DEF Command
  <2>5. Calm(core_vcr_begin_seek)
    BY <1>0, CalmSteps, CalmNames, CalmLocked DEF core_vcr_begin_seek
  <2>6. Home(Command.seeker_start) /\ Home(Command.lua_begin_seek)
    BY <2>5, CalmIsHome DEF Command
  <2>7. DOMAIN Command = {"pause", "resume", "frame_advance", "seeker_stop", "seeker_start",
                          "lua_stop", "lua_begin_seek", "lua_stop_seek"}
    BY DEF Command
  <2> QED BY <2>2, <2>3, <2>4, <2>6, <2>7
<1>3. \A event \in PollNames : Home(update_pif_read(event))
  <2>1. Calm(Locked("vcr_mutex", lua_callback))
    BY <1>0, CalmMessages, CalmLocked
  <2>2. Calm(Locked("vcr_mutex", core_vcr_stop_seek \o lua_callback))
    BY <1>0, CalmMessages, LifeOfEngine, CalmConcat, CalmLocked
  <2>3. Calm(Locked("vcr_mutex", core_vcr_stop_all))
    BY <1>0, LifeOfEngine, CalmLocked
  <2>4. Home(Locked("vcr_mutex", core_vcr_stop_all \o core_vcr_start_playback))
    BY <1>0, LifeOfEngine, CalmIsHome, HomeConcat, CalmLocked
  <2>5. Calm(Locked("vcr_mutex", movie_resets \o lua_callback))
    <3>1. Calm(movie_resets)
      BY CalmSteps DEF movie_resets, JobNames
    <3> QED BY <3>1, <1>0, CalmMessages, CalmConcat, CalmLocked
  <2>6. Calm(Locked("vcr_mutex", Do("write") \o Locked("g_task_mutex", Push("seek_save"))
                                     \o lua_callback))
    <3>1. Calm(Locked("g_task_mutex", Push("seek_save")))
      BY <1>0, CalmSteps, CalmLocked DEF TaskNames
    <3> QED BY <3>1, <1>0, CalmSteps, CalmNames, CalmMessages, CalmConcat, CalmLocked
  <2>7. \A event \in PollNames : Home(Poll[event])
    BY <2>1, <2>2, <2>3, <2>4, <2>5, <2>6, CalmIsHome DEF Poll, PollNames, Write
  <2>8. Home(Do("count_frame") \o Do("wait_unpaused"))
    BY CalmSteps, CalmNames, CalmConcat, CalmIsHome
  <2>9. Home(<< >>) /\ Home(st_do_work)
    BY CalmEmpty, LifeOfSavestates, CalmIsHome
  <2> SUFFICES ASSUME NEW event \in PollNames PROVE Home(update_pif_read(event))
    OBVIOUS
  <2>10. CASE core.emu_paused \/ core.frame_advance_outstanding > 0
    BY <2>7, <2>8, <2>9, <2>10, HomeConcat DEF update_pif_read
  <2>11. CASE ~(core.emu_paused \/ core.frame_advance_outstanding > 0)
    BY <2>7, <2>9, <2>11, HomeConcat DEF update_pif_read
  <2> QED BY <2>10, <2>11
<1> QED BY <1>1, <1>2, <1>3

LEMMA LifeOfExpansions ==
    ASSUME LockTypes, NEW op \in Expandable
    PROVE  /\ op \notin LifeOps => Calm(Expansion(op))
           /\ op \in LifeOps \ {"close_if_launched"} => Home(Expansion(op))
           /\ op = "close_if_launched" =>
                  IF core.emu_launched
                  THEN Expansion(op) \in Programs /\ Lives(Expansion(op), "any", "free")
                  ELSE Expansion(op) = << >>
<1>1. CASE op = "ensure_core"
  <2>0. "vcr_mutex" \in Mutexes /\ "vcr_mutex" # "g_emu_cs"
    BY DEF Mutexes
  <2>1. Calm(Lock("vcr_mutex")) /\ Calm(Unlock("vcr_mutex"))
    <3>1. <<"lock", "vcr_mutex">> \in Steps /\ <<"unlock", "vcr_mutex">> \in Steps
      BY <2>0 DEF Steps
    <3>2. Calming(<<"lock", "vcr_mutex">>) /\ Calming(<<"unlock", "vcr_mutex">>)
      BY DEF Calming, LifeOps
    <3> QED BY <3>1, <3>2, CalmStep DEF Lock, Unlock
  <2>2. Home(Unlock("vcr_mutex") \o core_vr_start_rom \o Lock("vcr_mutex")) /\ Home(<< >>)
    BY <2>1, LifeOfCore, CalmEmpty, CalmIsHome, HomeConcat
  <2> QED BY <1>1, <2>2 DEF Expansion, LifeOps
<1>2. CASE op = "begin_seek_slow"
  <2>1. Home(begin_seek_slow) /\ Home(<< >>)
    BY LifeOfEngine, CalmEmpty, CalmIsHome
  <2> QED BY <1>2, <2>1 DEF Expansion, LifeOps
<1>3. CASE op \in {"begin_seek", "stop_seek", "load_result"}
  <2>1. Calm(Do("seek_over") \o seek_completed)
    BY CalmSteps, CalmNames, CalmMessages, CalmConcat
  <2> QED BY <1>3, <2>1, LifeOfEngine, CalmEmpty DEF Expansion, LifeOps
<1>4. CASE op = "close_if_launched"
  BY <1>4, LifeOfCore DEF Expansion, LifeOps
<1>5. CASE op = "reset_if_launched"
  <2>1. Home(vr_reset_rom_impl) /\ Home(<< >>)
    BY LifeOfCore, CalmEmpty, CalmIsHome
  <2> QED BY <1>5, <2>1 DEF Expansion, LifeOps
<1>6. CASE op \in {"core_vr_pause_emu", "emu_launched_changed"}
  <2>1. Calm(Do("pause") \o emu_paused_changed)
    BY CalmSteps, CalmNames, CalmMessages, CalmConcat
  <2> QED BY <1>6, <2>1, CalmMessages, CalmEmpty DEF Expansion, LifeOps
<1>7. CASE op = "count_frame"
  <2>1. Calm(Do("frame_advanced"))
    BY CalmSteps, CalmNames
  <2>2. Calm(Do("frame_advanced") \o core_vr_pause_emu)
    BY <2>1, LifeOfCore, CalmConcat
  <2> QED BY <1>7, <2>1, <2>2, CalmEmpty DEF Expansion, LifeOps
<1>8. CASE op = "wait_unpaused"
  <2>1. Calm(st_do_work \o Do("wait_unpaused"))
    BY CalmSteps, CalmNames, LifeOfSavestates, CalmConcat
  <2> QED BY <1>8, <2>1, CalmEmpty DEF Expansion, LifeOps
<1>9. CASE op = "run_tasks"
  <2>1. CASE g_tasks = << >>
    BY <1>9, <2>1, CalmEmpty DEF Expansion, LifeOps
  <2>2. CASE g_tasks # << >>
    <3>1. Head(g_tasks) \in TaskNames
      BY <2>2 DEF LockTypes
    <3>2. Expansion(op) = savestates_immediate(Head(g_tasks)) \o Do("task_done") \o Do("run_tasks")
      BY <1>9, <2>2 DEF Expansion
    <3>3. Calm(Do("task_done")) /\ Calm(Do("run_tasks"))
      BY CalmSteps, CalmNames
    <3>4. Calm(Expansion(op))
      BY <3>1, <3>2, <3>3, LifeOfSavestates, CalmConcat
    <3> QED BY <1>9, <3>4 DEF LifeOps
  <2> QED BY <2>1, <2>2
<1> QED BY <1>1, <1>2, <1>3, <1>4, <1>5, <1>6, <1>7, <1>8, <1>9 DEF Expandable

-----------------------------------------------------------------------------
(* The invariant of the core's life.  cp gives every thread its phase.     *)

Closing == {"joined", "stopped", "free"}

LivesAt(cp) == \A t \in Threads : Lives(prog[t], cp[t], "any")

\* Who closes the core holds g_emu_cs and has joined what its phase says; while
\* nobody does, a core that is not launched has free handles; the emulation thread
\* leaves, and stop is set under it, only on behalf of who closes the core.
LifeFacts(cp) ==
    /\ \A t \in Threads : cp[t] \in Closing => owner["g_emu_cs"] = t /\ handle["audio"] = "none"
    /\ \A t \in Threads : cp[t] = "free" => handle["emu"] = "none"
    /\ (\A t \in Threads : cp[t] \notin Closing) /\ ~core.emu_launched =>
           handle["emu"] = "none" /\ handle["audio"] = "none"
    /\ cp["emu"] = "leaving" => core.stop /\ handle["emu"] = "running"
    /\ core.stop /\ handle["emu"] = "running" => \E t \in Threads : cp[t] = "stopped"
    /\ \A t \in Threads : cp[t] = "leaving" => t = "emu"

CoreFields == {"core_executing", "emu_launched", "stop", "emu_resetting",
               "audio_thread_stop_requested", "emu_paused", "frame_advance_outstanding",
               "seeking"}

LifeTypes ==
    /\ handle \in [{"emu", "audio"} -> {"none", "running", "ended"}]
    /\ core = [f \in CoreFields |-> core[f]]

LifeOrder == \E cp \in [Threads -> Phases] : LivesAt(cp) /\ LifeFacts(cp)

GivesUp == "core_gives_up" \in scene.commands

LifeInv == LifeTypes /\ (~GivesUp => LifeOrder)

LEMMA LifeInvInit == Init => LifeInv
<1> SUFFICES ASSUME Init PROVE LifeInv
  OBVIOUS
<1>1. LifeTypes
  BY DEF Init, LifeTypes, CoreFields
<1>2. LifeOrder
  <2> DEFINE cp == [t \in Threads |-> "any"]
  <2>1. cp \in [Threads -> Phases] /\ \A t \in Threads : cp[t] = "any"
    BY DEF Phases
  <2>2. LivesAt(cp)
    BY <2>1, LivesEmpty DEF LivesAt, Init, Phases
  <2>3. "emu" \in Threads
    BY DEF Threads
  <2> HIDE DEF cp
  <2>4. core.emu_launched = TRUE /\ core.stop = FALSE
    BY DEF Init
  <2>5. LifeFacts(cp)
    BY <2>1, <2>3, <2>4 DEF LifeFacts, Closing
  <2> QED BY <2>1, <2>2, <2>5 DEF LifeOrder
<1> QED BY <1>1, <1>2 DEF LifeInv

\* The effect of an assignment on what the life of the core is about.
LEMMA AssignedEffect ==
    ASSUME core = [f \in CoreFields |-> core[f]], NEW op \in Assignments
    PROVE  /\ Assigned(op) = [f \in CoreFields |-> Assigned(op)[f]]
           /\ op # "terminate_emu" => Assigned(op).stop = core.stop
           /\ op = "terminate_emu" => Assigned(op).stop = TRUE
           /\ op # "emu_leaves" => Assigned(op).emu_launched = core.emu_launched
           /\ op = "emu_leaves" => Assigned(op).emu_launched = FALSE
<1> USE DEF CoreFields
<1>1. CASE op \in {"seek_begun", "seek_over", "pause", "resume"}
  BY <1>1 DEF Assigned
<1>2. CASE op \in {"core_vr_frame_advance", "frame_advanced", "resetting", "reset_done"}
  BY <1>2 DEF Assigned
<1>3. CASE op \in {"stop_audio", "audio_stopped", "terminate_emu", "core_executing"}
  BY <1>3 DEF Assigned
<1>4. CASE op \in {"core_stopped", "emu_leaves", "read", "write", "lookup", "load_result"}
  BY <1>4 DEF Assigned
<1> QED BY <1>1, <1>2, <1>3, <1>4 DEF Assignments

\* Facts that survive a step which leaves the handles, the life of the core and
\* the holder of g_emu_cs alone.
LEMMA Calmly ==
    ASSUME NEW cp \in [Threads -> Phases], LifeFacts(cp), handle' = handle,
           core'.stop = core.stop, core'.emu_launched = core.emu_launched,
           \A t \in Threads : owner["g_emu_cs"] = t => owner'["g_emu_cs"] = t
    PROVE  LifeFacts(cp)'
BY DEF LifeFacts

LEMMA LivesOn ==
    ASSUME LockInv, NEW cp \in [Threads -> Phases], LivesAt(cp),
           NEW t \in Threads, prog[t] # << >>, prog' = [prog EXCEPT ![t] = Tail(@)]
    PROVE  \E b \in Phases :
               /\ Moves(Head(prog[t]), cp[t], b)
               /\ LivesAt([cp EXCEPT ![t] = b])'
<1>1. prog[t] \in Programs /\ "any" \in Phases
  BY DEF LockInv, LockTypes, Phases
<1>2. PICK b \in Phases : Moves(Head(prog[t]), cp[t], b) /\ Lives(Tail(prog[t]), b, "any")
  BY <1>1, LivesTail DEF LivesAt
<1>3. \A u \in Threads : Lives(prog'[u], [cp EXCEPT ![t] = b][u], "any")
  BY <1>2 DEF LivesAt, LockInv, LockTypes
<1> QED BY <1>2, <1>3 DEF LivesAt

LEMMA LifeExpand ==
    ASSUME LockInv, NEW cp \in [Threads -> Phases], LivesAt(cp), LifeFacts(cp),
           NEW t \in Threads, Expand(t)
    PROVE  LifeOrder'
<1>0. /\ prog[t] \in Programs /\ Head(prog[t]) \in Steps /\ Tail(prog[t]) \in Programs
      /\ prog[t] # << >> /\ Head(prog[t])[1] = Op(t) /\ Op(t) \in Expandable
      /\ "any" \in Phases /\ "free" \in Phases
      /\ \A u \in Threads : prog'[u] = IF u = t THEN Expansion(Op(t)) \o Tail(prog[t]) ELSE prog[u]
  BY DEF LockInv, LockTypes, Programs, Expand, Op, Phases
<1>1. PICK b \in Phases : Moves(Head(prog[t]), cp[t], b) /\ Lives(Tail(prog[t]), b, "any")
  BY <1>0, LivesTail DEF LivesAt
<1>2. LifeFacts(cp)'
  BY Calmly DEF Expand
<1>3. ASSUME Expansion(Op(t)) \in Programs, Lives(Expansion(Op(t)), cp[t], b) PROVE LifeOrder'
  <2>1. Lives(Expansion(Op(t)) \o Tail(prog[t]), cp[t], "any")
    BY <1>0, <1>1, <1>3, LivesConcat
  <2>2. LivesAt(cp)'
    BY <2>1, <1>0 DEF LivesAt
  <2> QED BY <1>2, <2>2 DEF LifeOrder
<1>4. CASE Op(t) \notin LifeOps
  <2>1. Op(t) # "unlock"
    BY <1>0 DEF Expandable
  <2>2. b = cp[t]
    BY <1>0, <1>1, <1>4, <2>1 DEF Moves, Calming
  <2> QED BY <1>0, <1>3, <1>4, <2>2, LifeOfExpansions DEF Calm, LockInv
<1>5. CASE Op(t) \in LifeOps \ {"close_if_launched"}
  <2>1. Op(t) \in {"reset_if_launched", "ensure_core", "begin_seek_slow"}
    BY <1>0, <1>5 DEF LifeOps, Expandable
  <2>2. cp[t] = "any" /\ b = "any"
    BY <1>0, <1>1, <2>1 DEF Moves
  <2> QED BY <1>0, <1>3, <1>5, <2>2, LifeOfExpansions DEF Home, LockInv
<1>6. CASE Op(t) = "close_if_launched"
  <2>1. cp[t] = "any" /\ b = "free"
    BY <1>0, <1>1, <1>6 DEF Moves
  <2>2. CASE core.emu_launched
    BY <1>0, <1>3, <1>6, <2>1, <2>2, LifeOfExpansions DEF LockInv
  <2>3. CASE ~core.emu_launched
    <3> DEFINE cq == [cp EXCEPT ![t] = "free"]
    <3>1. cq \in [Threads -> Phases] /\ \A u \in Threads : cq[u] = IF u = t THEN "free" ELSE cp[u]
      BY <1>0
    <3> HIDE DEF cq
    <3>2. Expansion(Op(t)) \o Tail(prog[t]) = Tail(prog[t])
      <4>1. Expansion(Op(t)) = << >>
        BY <1>0, <1>6, <2>3, LifeOfExpansions DEF LockInv
      <4> QED BY <4>1, <1>0 DEF Programs
    <3>3. LivesAt(cq)'
      BY <1>0, <1>1, <2>1, <3>1, <3>2 DEF LivesAt
    <3>4. owner["g_emu_cs"] = t
      <4>1. "close_if_launched" \in Under("g_emu_cs") /\ "g_emu_cs" \in Mutexes
        BY DEF Under, Mutexes
      <4> QED BY <4>1, <1>0, <1>6, DisciplineProtects DEF Protected
    <3>5. \A u \in Threads : cp[u] \notin Closing
      BY <2>1, <3>4 DEF LifeFacts, Closing
    <3>6. handle["emu"] = "none" /\ handle["audio"] = "none"
      BY <2>3, <3>5 DEF LifeFacts
    <3>7. LifeFacts(cq)'
      <4>1. /\ handle' = handle /\ owner' = owner /\ core' = core /\ "emu" \in Threads
        BY DEF Expand, Threads
      <4> QED BY <4>1, <3>1, <3>4, <3>5, <3>6, <2>1 DEF LifeFacts, Closing
    <3> QED BY <3>1, <3>3, <3>7 DEF LifeOrder
  <2> QED BY <2>2, <2>3
<1> QED BY <1>4, <1>5, <1>6

LEMMA LifeStep ==
    ASSUME LockInv, LifeTypes, NEW cp \in [Threads -> Phases], LivesAt(cp), LifeFacts(cp),
           NEW t \in Threads, Step(t)
    PROVE  LifeOrder'
<1>0. /\ prog[t] \in Programs /\ (prog[t] # << >> => Head(prog[t]) \in Steps)
      /\ "emu" \in Threads /\ "g_emu_cs" \in Mutexes
  BY DEF LockInv, LockTypes, Programs, Threads, Mutexes
<1>1. CASE Expand(t)
  BY <1>1, LifeExpand
<1>2. ASSUME prog[t] # << >>, Done(t), Calming(Head(prog[t])), handle' = handle,
             core'.stop = core.stop, core'.emu_launched = core.emu_launched,
             \A u \in Threads : owner["g_emu_cs"] = u => owner'["g_emu_cs"] = u
      PROVE  LifeOrder'
  <2>1. PICK b \in Phases : Moves(Head(prog[t]), cp[t], b) /\ LivesAt([cp EXCEPT ![t] = b])'
    BY <1>2, LivesOn DEF Done
  <2>2. [cp EXCEPT ![t] = b] = cp
    BY <1>2, <2>1 DEF Moves
  <2>3. LifeFacts(cp)'
    BY <1>2, Calmly
  <2> QED BY <2>1, <2>2, <2>3 DEF LifeOrder
<1>3. CASE Assign(t)
  <2>0. /\ prog[t] # << >> /\ Done(t) /\ Op(t) \in Assignments /\ Op(t) = Head(prog[t])[1]
        /\ core' = Assigned(Op(t)) /\ handle' = handle /\ owner' = owner
    BY <1>3 DEF Assign, Op
  <2>1. CASE Op(t) \notin {"terminate_emu", "emu_leaves"}
    <3>1. Calming(Head(prog[t]))
      BY <2>0, <2>1 DEF Calming, Assignments, LifeOps
    <3>2. core'.stop = core.stop /\ core'.emu_launched = core.emu_launched
      BY <2>0, <2>1, AssignedEffect DEF LifeTypes
    <3> QED BY <1>2, <2>0, <3>1, <3>2
  <2>2. CASE Op(t) \in {"terminate_emu", "emu_leaves"}
    <3>1. PICK b \in Phases : Moves(Head(prog[t]), cp[t], b) /\ LivesAt([cp EXCEPT ![t] = b])'
      BY <2>0, LivesOn DEF Done
    <3> DEFINE cq == [cp EXCEPT ![t] = b]
    <3>2. cq \in [Threads -> Phases] /\ \A u \in Threads : cq[u] = IF u = t THEN b ELSE cp[u]
      OBVIOUS
    <3>3. LivesAt(cq)'
      BY <3>1
    <3> HIDE DEF cq
    <3>4. CASE Op(t) = "terminate_emu"
      <4>1. cp[t] = "joined" /\ b = "stopped"
        BY <2>0, <3>1, <3>4 DEF Moves
      <4>2. core'.stop = TRUE /\ core'.emu_launched = core.emu_launched
        BY <2>0, <3>4, AssignedEffect DEF LifeTypes
      <4>3. cq[t] = "stopped"
        BY <3>2, <4>1
      <4>4. LifeFacts(cq)'
        <5>1. \A u \in Threads : cq[u] \in Closing => owner'["g_emu_cs"] = u /\ handle'["audio"] = "none"
          BY <2>0, <3>2, <4>1 DEF LifeFacts, Closing
        <5>2. \A u \in Threads : cq[u] = "free" => handle'["emu"] = "none"
          BY <2>0, <3>2, <4>1 DEF LifeFacts
        <5>3. cq[t] \in Closing
          BY <4>3 DEF Closing
        <5>4. cq["emu"] = "leaving" => core'.stop /\ handle'["emu"] = "running"
          BY <1>0, <2>0, <3>2, <4>1, <4>2 DEF LifeFacts
        <5>5. \A u \in Threads : cq[u] = "leaving" => u = "emu"
          BY <3>2, <4>1 DEF LifeFacts
        <5> QED BY <4>3, <5>1, <5>2, <5>3, <5>4, <5>5 DEF LifeFacts
      <4> QED BY <3>2, <3>3, <4>4 DEF LifeOrder
    <3>5. CASE Op(t) = "emu_leaves"
      <4>1. cp[t] = "leaving" /\ b = "any"
        BY <2>0, <3>1, <3>5 DEF Moves
      <4>2. core'.stop = core.stop
        BY <2>0, <3>5, AssignedEffect DEF LifeTypes
      <4>3. t = "emu" /\ core.stop /\ handle["emu"] = "running"
        BY <4>1 DEF LifeFacts
      <4>4. PICK u \in Threads : cp[u] = "stopped"
        BY <4>3 DEF LifeFacts
      <4>5. cq[u] = "stopped" /\ cq[u] \in Closing
        BY <3>2, <4>1, <4>4 DEF Closing
      <4>6. LifeFacts(cq)'
        BY <1>0, <2>0, <3>2, <4>1, <4>2, <4>3, <4>5 DEF LifeFacts, Closing
      <4> QED BY <3>2, <3>3, <4>6 DEF LifeOrder
    <3> QED BY <2>2, <3>4, <3>5
  <2> QED BY <2>1, <2>2
<1>4. CASE Acquire(t)
  <2>1. Calming(Head(prog[t]))
    BY <1>4 DEF Acquire, At, Calming, LifeOps
  <2>2. \A u \in Threads : owner["g_emu_cs"] = u => owner'["g_emu_cs"] = u
    <3>1. Arg(t) \in Mutexes
      BY <1>0, <1>4, StepArguments DEF Acquire, At, Arg
    <3> QED BY <1>0, <1>4, <3>1, NamesAssumption DEF Acquire, LockInv, LockTypes
  <2> QED BY <1>2, <1>4, <2>1, <2>2 DEF Acquire, At
<1>5. CASE Release(t)
  <2>0. /\ prog[t] # << >> /\ Head(prog[t])[1] = "unlock" /\ Head(prog[t])[2] = Arg(t)
        /\ Arg(t) \in Mutexes /\ handle' = handle /\ core' = core
        /\ owner' = [owner EXCEPT ![Arg(t)] = IF depth[Arg(t)] = 1 THEN Free ELSE @]
        /\ Done(t)
    BY <1>0, <1>5, StepArguments DEF Release, At, Arg
  <2>1. CASE Arg(t) # "g_emu_cs"
    <3>1. Calming(Head(prog[t]))
      BY <2>0, <2>1 DEF Calming, LifeOps
    <3>2. owner'["g_emu_cs"] = owner["g_emu_cs"]
      BY <1>0, <2>0, <2>1 DEF LockInv, LockTypes
    <3> QED BY <1>2, <2>0, <3>1, <3>2
  <2>2. CASE Arg(t) = "g_emu_cs"
    <3>1. PICK b \in Phases : Moves(Head(prog[t]), cp[t], b) /\ LivesAt([cp EXCEPT ![t] = b])'
      BY <2>0, LivesOn DEF Done
    <3> DEFINE cq == [cp EXCEPT ![t] = b]
    <3>2. cq \in [Threads -> Phases] /\ \A u \in Threads : cq[u] = IF u = t THEN b ELSE cp[u]
      OBVIOUS
    <3>3. LivesAt(cq)'
      BY <3>1
    <3> HIDE DEF cq
    <3>4. cp[t] \in {"any", "free"} /\ b = "any"
      BY <2>0, <2>2, <3>1 DEF Moves
    <3>5. owner["g_emu_cs"] = t
      BY <2>0, <2>2, <1>0, DisciplineProtects DEF Protected, Op
    <3>6. \A u \in Threads : cq[u] \notin Closing
      BY <3>2, <3>4, <3>5 DEF LifeFacts, Closing
    <3>7. ~core.emu_launched => handle["emu"] = "none" /\ handle["audio"] = "none"
      <4>1. CASE cp[t] = "free"
        BY <4>1 DEF LifeFacts, Closing
      <4>2. CASE cp[t] = "any"
        <5>1. \A u \in Threads : cp[u] \notin Closing
          BY <3>2, <3>6, <4>2 DEF Closing
        <5> QED BY <5>1 DEF LifeFacts
      <4> QED BY <3>4, <4>1, <4>2
    <3>8. ~(core.stop /\ handle["emu"] = "running")
      <4>1. SUFFICES ASSUME core.stop, handle["emu"] = "running" PROVE FALSE
        OBVIOUS
      <4>2. PICK u \in Threads : cp[u] = "stopped"
        BY <4>1 DEF LifeFacts
      <4>3. u = t
        BY <4>2, <3>5 DEF LifeFacts, Closing
      <4> QED BY <4>2, <4>3, <3>4
    <3>9. LifeFacts(cq)'
      <4>1. \A u \in Threads : cq[u] = "leaving" => u = "emu"
        BY <3>2, <3>4 DEF LifeFacts
      <4>2. cq["emu"] # "leaving"
        BY <1>0, <3>2, <3>4, <3>8 DEF LifeFacts
      <4>3. \A u \in Threads : cq[u] # "free"
        BY <3>6 DEF Closing
      <4> QED BY <2>0, <3>6, <3>7, <3>8, <4>1, <4>2, <4>3 DEF LifeFacts
    <3> QED BY <3>2, <3>3, <3>9 DEF LifeOrder
  <2> QED BY <2>1, <2>2
<1>6. CASE Send(t) \/ SubmitJob(t) \/ ChangeTasks(t) \/ AwaitExecuting(t)
  <2>1. /\ prog[t] # << >> /\ Done(t)
        /\ Head(prog[t])[1] \in {"send", "submit", "push", "task_done", "clear_tasks",
                                 "await_executing"}
        /\ handle' = handle /\ core' = core /\ owner' = owner
    BY <1>6 DEF Send, SubmitJob, ChangeTasks, AwaitExecuting, At
  <2>2. Calming(Head(prog[t]))
    BY <2>1 DEF Calming, LifeOps
  <2> QED BY <1>2, <2>1, <2>2
<1>7. CASE JoinThread(t)
  <2>0. /\ prog[t] # << >> /\ Head(prog[t])[1] = "join" /\ Head(prog[t])[2] = Arg(t)
        /\ core' = core /\ owner' = owner /\ Done(t)
        /\ handle[Arg(t)] = "ended" /\ handle' = [handle EXCEPT ![Arg(t)] = "none"]
    BY <1>7 DEF JoinThread, At, Arg
  <2>1. PICK b \in Phases : Moves(Head(prog[t]), cp[t], b) /\ LivesAt([cp EXCEPT ![t] = b])'
    BY <2>0, LivesOn DEF Done
  <2> DEFINE cq == [cp EXCEPT ![t] = b]
  <2>2. cq \in [Threads -> Phases] /\ \A u \in Threads : cq[u] = IF u = t THEN b ELSE cp[u]
    OBVIOUS
  <2>3. LivesAt(cq)'
    BY <2>1
  <2> HIDE DEF cq
  <2>4. owner["g_emu_cs"] = t
    <3>1. "join" \in Under("g_emu_cs")
      BY DEF Under
    <3> QED BY <3>1, <2>0, <1>0, DisciplineProtects DEF Protected, Op
  <2>5. Arg(t) \in {"emu", "audio"}
    BY <1>0, <2>0 DEF Steps, PlainOps, Expandable, Assignments
  <2>6. \A u \in Threads : u # t => cp[u] \notin Closing
    BY <2>4 DEF LifeFacts
  <2>7. CASE Arg(t) = "audio"
    <3>1. cp[t] = "any" /\ b = "joined"
      BY <2>0, <2>1, <2>7 DEF Moves
    <3>2. handle'["audio"] = "none" /\ handle'["emu"] = handle["emu"]
      BY <2>0, <2>7 DEF LifeTypes
    <3>3. cq[t] \in Closing
      BY <2>2, <3>1 DEF Closing
    <3>4. ~(core.stop /\ handle["emu"] = "running")
      <4>1. \A u \in Threads : cp[u] # "stopped"
        BY <2>6, <3>1 DEF Closing
      <4> QED BY <4>1 DEF LifeFacts
    <3>5. LifeFacts(cq)'
      <4>1. \A u \in Threads : cq[u] \in Closing => owner'["g_emu_cs"] = u
        BY <2>0, <2>2, <2>4, <2>6
      <4>2. \A u \in Threads : cq[u] # "free"
        BY <2>2, <2>6, <3>1 DEF Closing
      <4>3. \A u \in Threads : cq[u] = "leaving" => u = "emu"
        BY <2>2, <3>1 DEF LifeFacts
      <4>4. cq["emu"] # "leaving"
        BY <1>0, <2>2, <3>1, <3>4 DEF LifeFacts
      <4> QED BY <2>0, <3>2, <3>3, <3>4, <4>1, <4>2, <4>3, <4>4 DEF LifeFacts
    <3> QED BY <2>2, <2>3, <3>5 DEF LifeOrder
  <2>8. CASE Arg(t) = "emu"
    <3>1. cp[t] = "stopped" /\ b = "free"
      BY <2>0, <2>1, <2>8 DEF Moves
    <3>2. handle'["emu"] = "none" /\ handle'["audio"] = handle["audio"] /\ handle["audio"] = "none"
      BY <2>0, <2>8, <3>1 DEF LifeTypes, LifeFacts, Closing
    <3>3. LifeFacts(cq)'
      <4>1. \A u \in Threads : cq[u] \in Closing => owner'["g_emu_cs"] = u
        BY <2>0, <2>2, <2>4, <2>6
      <4>2. \A u \in Threads : cq[u] = "leaving" => u = "emu"
        BY <2>2, <3>1 DEF LifeFacts
      <4>3. cq["emu"] # "leaving"
        BY <1>0, <2>0, <2>2, <2>8, <3>1 DEF LifeFacts
      <4> QED BY <2>0, <3>2, <4>1, <4>2, <4>3 DEF LifeFacts
    <3> QED BY <2>2, <2>3, <3>3 DEF LifeOrder
  <2> QED BY <2>5, <2>7, <2>8
<1>8. CASE Launch(t)
  <2>0. /\ prog[t] # << >> /\ Head(prog[t])[1] = "launch" /\ owner' = owner
        /\ core' = [core EXCEPT !.emu_paused = FALSE, !.emu_launched = TRUE, !.stop = FALSE]
    BY <1>8 DEF Launch, At
  <2>1. PICK b \in Phases : Moves(Head(prog[t]), cp[t], b) /\ Lives(Tail(prog[t]), b, "any")
    BY <1>0, <2>0, LivesTail DEF LivesAt, Phases
  <2>2. cp[t] = "free" /\ b = "any"
    BY <2>0, <2>1 DEF Moves
  <2>3. owner["g_emu_cs"] = t
    BY <2>2 DEF LifeFacts, Closing
  <2> DEFINE cq == [u \in Threads |-> IF u = t \/ u = "emu" THEN "any" ELSE cp[u]]
  <2>4. cq \in [Threads -> Phases]
    BY DEF Phases
  <2>5. \A u \in Threads : cq[u] \notin Closing /\ cq[u] # "leaving"
    BY <2>3 DEF LifeFacts, Closing
  <2>6. \A u \in Threads : prog'[u] = IF u = "emu" THEN emu_thread_enters
                                      ELSE IF u = t THEN Tail(prog[t]) ELSE prog[u]
    BY <1>0, <1>8 DEF Launch, LockInv, LockTypes
  <2>7. LivesAt(cq)'
    <3>1. Lives(emu_thread_enters, "any", "any")
      BY LifeOfCore DEF Calm, Phases
    <3>2. \A u \in Threads : Lives(prog'[u], cq[u], "any")
      BY <2>1, <2>2, <2>6, <3>1 DEF LivesAt
    <3> HIDE DEF cq
    <3> QED BY <3>2 DEF LivesAt
  <2> HIDE DEF cq
  <2>8. core'.emu_launched = TRUE /\ core'.stop = FALSE
    BY <2>0 DEF LifeTypes, CoreFields
  <2>9. LifeFacts(cq)'
    <3>1. \A u \in Threads : cq[u] # "free"
      BY <2>5 DEF Closing
    <3> QED BY <1>0, <2>5, <2>8, <3>1 DEF LifeFacts
  <2> QED BY <2>4, <2>7, <2>9 DEF LifeOrder
<1> QED BY <1>1, <1>3, <1>4, <1>5, <1>6, <1>7, <1>8 DEF Step

LEMMA LifeTypesNext == LockInv /\ LifeTypes /\ [Next]_vars => LifeTypes'
<1> SUFFICES ASSUME LockInv, LifeTypes, [Next]_vars PROVE LifeTypes'
  OBVIOUS
<1>1. ASSUME NEW t \in Threads, Step(t) PROVE LifeTypes'
  <2>1. CASE Assign(t)
    BY <2>1, AssignedEffect DEF Assign, LifeTypes
  <2>2. CASE JoinThread(t)
    BY <2>2 DEF JoinThread, LifeTypes
  <2>3. CASE Launch(t)
    <3>1. handle' \in [{"emu", "audio"} -> {"none", "running", "ended"}]
      BY <2>3 DEF Launch
    <3>2. core' = [f \in CoreFields |-> core'[f]]
      BY <2>3 DEF Launch, LifeTypes, CoreFields
    <3> QED BY <3>1, <3>2 DEF LifeTypes
  <2>4. CASE Expand(t) \/ Acquire(t) \/ Release(t) \/ Send(t) \/ SubmitJob(t)
             \/ ChangeTasks(t) \/ AwaitExecuting(t)
    BY <2>4 DEF Expand, Acquire, Release, Send, SubmitJob, ChangeTasks, AwaitExecuting, LifeTypes
  <2> QED BY <1>1, <2>1, <2>2, <2>3, <2>4 DEF Step
<1>2. ASSUME NEW w \in Workers, TakeJob(w) PROVE LifeTypes'
  BY <1>2 DEF TakeJob, LifeTypes
<1>3. CASE EmuPolls \/ EmuStops \/ AudioStops \/ UNCHANGED vars
  BY <1>3 DEF EmuPolls, EmuStops, AudioStops, vars, LifeTypes
<1>4. CASE CoreGivesUp
  BY <1>4 DEF CoreGivesUp, LifeTypes, CoreFields
<1>5. ASSUME NEW c \in DOMAIN Command \cup DOMAIN Job, UserCommands(c) PROVE LifeTypes'
  BY <1>5 DEF UserCommands, LifeTypes
<1> QED BY <1>1, <1>2, <1>3, <1>4, <1>5 DEF Next

LEMMA LifeBegins ==
    ASSUME LockInv, NEW cp \in [Threads -> Phases], LivesAt(cp), LifeFacts(cp),
           NEW t \in Threads, prog[t] = << >>, NEW s, Home(s),
           prog' = [prog EXCEPT ![t] = s], UNCHANGED <<owner, handle, core>>
    PROVE  LifeOrder'
<1>1. cp[t] = "any"
  <2>1. Lives(<< >>, cp[t], "any") /\ Len(<< >>) = 0
    BY DEF LivesAt
  <2> QED BY <2>1 DEF Lives
<1>2. LivesAt(cp)'
  BY <1>1 DEF LivesAt, Home, LockInv, LockTypes
<1>3. LifeFacts(cp)'
  BY Calmly
<1> QED BY <1>2, <1>3 DEF LifeOrder

LEMMA LifeInvNext == LockInv /\ LifeInv /\ [Next]_vars => LifeInv'
<1> SUFFICES ASSUME LockInv, LifeInv, [Next]_vars PROVE LifeInv'
  OBVIOUS
<1>1. LifeTypes /\ LifeTypes' /\ scene' = scene
  <2>1. scene' = scene
    BY DEF Next, vars, Step, Expand, Assign, Acquire, Release, Send, SubmitJob, ChangeTasks,
           JoinThread, Launch, AwaitExecuting, TakeJob, EmuPolls, EmuStops, AudioStops,
           CoreGivesUp, UserCommands
  <2> QED BY <2>1, LifeTypesNext DEF LifeInv
<1>2. SUFFICES ASSUME ~GivesUp PROVE LifeOrder'
  BY <1>1 DEF LifeInv, GivesUp
<1>3. PICK cp \in [Threads -> Phases] : LivesAt(cp) /\ LifeFacts(cp)
  BY <1>2 DEF LifeInv, LifeOrder
<1>4. ASSUME NEW t \in Threads, Step(t) PROVE LifeOrder'
  BY <1>1, <1>3, <1>4, LifeStep
<1>5. ASSUME NEW w \in Workers, TakeJob(w) PROVE LifeOrder'
  <2>1. w \in Threads /\ Head(jobs) \in JobNames
    BY <1>5 DEF TakeJob, Threads, LockInv, LockTypes
  <2> QED BY <1>3, <1>5, <2>1, LifeOfJobs, LifeBegins DEF TakeJob
<1>6. ASSUME EmuPolls PROVE LifeOrder'
  <2>1. PICK event \in {"input"} \cup scene.events :
            prog' = [prog EXCEPT !["emu"] = update_pif_read(event)]
    BY <1>6 DEF EmuPolls
  <2>2. event \in PollNames
    <3>1. DOMAIN Poll = PollNames
      BY DEF Poll, PollNames
    <3> QED BY <3>1, ScenariosAssumption DEF LockInv, LockTypes, PollNames
  <2>3. Home(update_pif_read(event)) /\ "emu" \in Threads
    BY <2>2, LifeOfJobs DEF Threads
  <2> QED BY <1>3, <1>6, <2>1, <2>3, LifeBegins DEF EmuPolls, Idle
<1>7. ASSUME EmuStops PROVE LifeOrder'
  <2>0. /\ handle["emu"] = "running" /\ core.stop /\ prog["emu"] = << >> /\ "emu" \in Threads
        /\ owner' = owner /\ core' = core
    BY <1>7 DEF EmuStops, Idle, Threads
  <2>1. cp["emu"] = "any"
    <3>1. Lives(<< >>, cp["emu"], "any") /\ Len(<< >>) = 0
      BY <1>3, <2>0 DEF LivesAt
    <3> QED BY <3>1 DEF Lives
  <2>2. CASE core.core_executing
    <3> DEFINE cq == [cp EXCEPT !["emu"] = "leaving"]
    <3>1. cq \in [Threads -> Phases] /\ \A u \in Threads : cq[u] = IF u = "emu" THEN "leaving" ELSE cp[u]
      BY <2>0 DEF Phases
    <3> HIDE DEF cq
    <3>2. handle' = handle /\ \A u \in Threads : prog'[u] = IF u = "emu" THEN emu_thread_leaves ELSE prog[u]
      BY <1>7, <2>2 DEF EmuStops, LockInv, LockTypes
    <3>3. LivesAt(cq)'
      BY <1>3, <3>1, <3>2, LifeOfCore DEF LivesAt
    <3>4. PICK u \in Threads : cp[u] = "stopped"
      BY <1>3, <2>0 DEF LifeFacts
    <3>5. cq[u] = "stopped" /\ cq[u] \in Closing
      BY <3>1, <3>4, <2>1 DEF Closing
    <3>6. LifeFacts(cq)'
      BY <1>3, <2>0, <3>1, <3>2, <3>5 DEF LifeFacts, Closing
    <3> QED BY <3>1, <3>3, <3>6 DEF LifeOrder
  <2>3. CASE ~core.core_executing
    <3>1. prog' = prog /\ handle' = [handle EXCEPT !["emu"] = "ended"]
      BY <1>7, <2>3 DEF EmuStops
    <3>2. handle'["emu"] = "ended" /\ handle'["audio"] = handle["audio"]
      BY <1>1, <3>1 DEF LifeTypes
    <3>3. LivesAt(cp)'
      BY <1>3, <3>1 DEF LivesAt
    <3>4. PICK u \in Threads : cp[u] = "stopped"
      BY <1>3, <2>0 DEF LifeFacts
    <3>5. cp[u] \in Closing
      BY <3>4 DEF Closing
    <3>6. LifeFacts(cp)'
      BY <1>3, <2>0, <2>1, <3>2, <3>5 DEF LifeFacts
    <3> QED BY <3>3, <3>6 DEF LifeOrder
  <2> QED BY <2>2, <2>3
<1>8. ASSUME AudioStops PROVE LifeOrder'
  <2>1. /\ handle["audio"] = "running" /\ handle'["emu"] = handle["emu"]
        /\ owner' = owner /\ core' = core /\ prog' = prog
    BY <1>1, <1>8 DEF AudioStops, LifeTypes
  <2>2. LivesAt(cp)'
    BY <1>3, <2>1 DEF LivesAt
  <2>3. LifeFacts(cp)'
    BY <1>3, <2>1 DEF LifeFacts
  <2> QED BY <2>2, <2>3 DEF LifeOrder
<1>9. ~CoreGivesUp
  BY <1>2 DEF CoreGivesUp, GivesUp
<1>10. ASSUME NEW c \in DOMAIN Command \cup DOMAIN Job, UserCommands(c) PROVE LifeOrder'
  <2>1. CASE c \in DOMAIN Command /\ Idle(WindowOf(c))
             /\ prog' = [prog EXCEPT ![WindowOf(c)] = Command[c]] /\ UNCHANGED jobs
    <3>1. WindowOf(c) \in Threads /\ Home(Command[c])
      BY <2>1, LifeOfJobs DEF WindowOf, Threads, Windows
    <3> QED BY <1>3, <1>10, <2>1, <3>1, LifeBegins DEF UserCommands, Idle
  <2>2. CASE UNCHANGED prog
    <3>1. LivesAt(cp)'
      BY <1>3, <2>2 DEF LivesAt
    <3>2. LifeFacts(cp)'
      BY <1>3, <1>10, Calmly DEF UserCommands
    <3> QED BY <3>1, <3>2 DEF LifeOrder
  <2> QED BY <1>10, <2>1, <2>2 DEF UserCommands
<1>11. CASE UNCHANGED vars
  <2>1. LivesAt(cp)' /\ LifeFacts(cp)'
    BY <1>3, <1>11, Calmly DEF LivesAt, vars
  <2> QED BY <2>1 DEF LifeOrder
<1> QED BY <1>4, <1>5, <1>6, <1>7, <1>8, <1>9, <1>10, <1>11 DEF Next

\* A std::thread is only assigned to a handle that is not joinable (vr_start_rom_impl,
\* emu_thread), through every order of starts, closes, resets and movies, as long as
\* the core does not stop itself: g_emu_cs is held from the close that joins both
\* threads to the launch.
THEOREM HandlesFreeAtLaunch ==
    Spec => []("core_gives_up" \notin scene.commands => HandlesFree)
<1>1. Init => LockInv /\ LifeInv
  BY LockInvInit, LifeInvInit
<1>2. LockInv /\ LifeInv /\ [Next]_vars => (LockInv /\ LifeInv)'
  BY LockInvNext, LifeInvNext
<1>3. LockInv /\ LifeInv => ("core_gives_up" \notin scene.commands => HandlesFree)
  <2> SUFFICES ASSUME LockInv, LifeInv, ~GivesUp, NEW t \in Threads, At(t, "launch")
               PROVE  handle["emu"] = "none" /\ handle["audio"] = "none"
    BY DEF GivesUp, HandlesFree
  <2>1. PICK cp \in [Threads -> Phases] : LivesAt(cp) /\ LifeFacts(cp)
    BY DEF LifeInv, LifeOrder
  <2>2. prog[t] \in Programs /\ prog[t] # << >> /\ Head(prog[t])[1] = "launch" /\ "any" \in Phases
    BY DEF LockInv, LockTypes, At, Phases
  <2>3. PICK b \in Phases : Moves(Head(prog[t]), cp[t], b)
    BY <2>1, <2>2, LivesTail DEF LivesAt
  <2>4. cp[t] = "free"
    BY <2>2, <2>3 DEF Moves
  <2> QED BY <2>1, <2>4 DEF LifeFacts, Closing
<1> QED BY <1>1, <1>2, <1>3, PTL DEF Spec
=============================================================================
