# Verification of mupen64-rr-lua

mupen64-rr-lua is a Nintendo 64 emulator for tool-assisted speedruns: besides
emulating the console it records and replays *movies* (one controller sample per
poll), makes and loads savestates in the middle of them, seeks to any sample and
edits the past of a recording ("warp modify").  Its users depend on one promise:
a movie, played from its start, always leads the machine to the same state.  That
takes a movie engine that never loses or doubles a sample, threads that do not
wait for each other in a circle, and an emulated machine whose interrupts,
exceptions, code cache and memories do what the console does.  This directory
holds TLA+ models of these parts, the configurations that check them with TLC,
and proofs checked by TLAPS.

Paths below are relative to the repository; `src/Core` is the emulator and
`src/Views.Win32` the user interface.  (In `PROJECT.json` every path has the
prefix `src/` for the repository itself.)

## 1. The system

### Threads

* The **emulation thread** (`emu_thread`, `r4300/r4300.cpp`) runs the CPU core.
  Whenever the game reads its controllers, `update_pif_read` (`memory/pif.cpp`)
  waits while the emulator is paused, performs queued savestate tasks, and polls
  each controller through the movie engine.
* **Worker threads** (`ThreadPool`, reached from the core as
  `g_core->submit_task`) do what must not be done on the emulation thread, above
  all reset the ROM (which ends that thread and starts a new one) and queue
  savestate loads.
* The **UI thread** runs menus, dialogs and Lua scripts, and calls the core
  directly or through workers; the **piano roll** and the seek dialog have threads
  of their own.
* The **audio thread** only feeds the audio plugin.

They share the globals of `vcr.cpp` (`vcr_mutex`), the savestate queue
(`g_task_mutex`), the ROM's life cycle (`g_emu_cs`), the cheat stack
(`cheats_mutex`), a few flags without a mutex (`emu_paused`,
`frame_advance_outstanding`, `core_executing`, `g_wait_counter`), the message bus
and the dispatcher of the UI thread.

### Components

| Component | State | Operations | What makes it correct |
|---|---|---|---|
| Savestate queue, `memory/savestates.cpp` | `g_tasks`, `g_undo_savestate` | request (any thread), perform all (emulation thread), clear (core stop) | each request performed and called back at most once, the newest one always; undo holds the state before a load; nothing survives a core stop |
| Movie engine, `r4300/vcr.cpp` | task, header and inputs, current sample, seek target, seek savestates, pending flags | record, play, stop, seek, warp modify, freeze/unfreeze, poll | the machine follows the movie; length and inputs agree; files get what was recorded; nothing waits for ever |
| Controller routine, `memory/pif.cpp` | pause and frame-advance flags, the RAM of the PIF | wait, work, poll, serial commands | savestates only before the first controller is read; one input per frame advance |
| Life cycle, `r4300/r4300.cpp` | `emu_launched`, `core_executing`, `stop`, thread handles | start, close, reset | one ROM at a time; a close always ends |
| Cheats, `cheats.cpp` | host list, stack of layers | push, pop, execute | pushes and pops balance |
| Event queue and devices, `r4300/interrupt.cpp`, `memory/memory.cpp`, `memory/dma.cpp` | sorted list of events, `Count`, device registers | start transfers, acknowledge, deliver | every event at its time and once, across the wrap of `Count`; no interrupt forgotten |
| TLB and decoded code, `memory/tlb.cpp`, `r4300/recomp.cpp` | entries, page tables, blocks, invalid-code flags, hashes | map, unmap, store, decode, jump | never run an instruction that memory no longer holds |
| Interpreters, `r4300/pure_interp.cpp`, `r4300.cpp`, `exception.cpp` | program counter, delay-slot flags, EPC and Cause | one round per instruction | exceptions are precise |
| Recompiler, `r4300/x86/*.cpp` | contents of the x86 registers while a block is compiled | one code generator per instruction | each operand is the current value, from every entry point |
| Memories and save memories, `memory/*.cpp` | RDRAM, RSP, PIF, EEPROM, packs, SRAM, flash RAM, SummerCart64, files | loads, stores, transfers, serial commands, starts and resets | a big-endian console whose saves are kept |
| Thread pool, messenger, dispatcher (`Views.Win32`) | pending keys, subscribers, queue | submit, broadcast, subscribe, invoke | no lost or doubled call, no endless wait |
| Piano roll, Lua, capture, CLI, configuration, dialogs (`Views.Win32`) | views of the core's state | user commands | follow the core's notifications |

`PROJECT.json` lists every component with its source files, what is modelled of
it and why the rest is not, and the hazards: the lines where an interleaving, a
stale value, a lost callback or a boundary could break one of these promises.

### What is hard here

A movie operation is rarely one call.  A backward seek, for instance, sets a
target and a "loading" flag, hands a job to a worker, which queues a savestate
task, which the emulation thread performs some frames later and whose callback
clears the flag; until then frames are skipped because they are not part of the
movie.  Between any two of these steps the user may stop, seek, pause, save,
load, edit or reset.  Inside the machine the difficulties are of another kind:
the same fact is kept in several places (`Count` and `next_interrupt`, TLB and
page tables, memory and decoded code, the register file and the x86 registers, an
array and a file) and each change must reach all of them.

## 2. The modules

| Module | Models | Role |
|---|---|---|
| `Savestates` | `memory/savestates.cpp`, `erase_indices` of `lib/IOHelpers.h` | the queue at the grain of its mutex |
| `Savestates_proofs` | | theorems about `Savestates` |
| `Vcr` | `r4300/vcr.cpp`, pausing in `r4300.cpp`, cheat layers | the movie engine's functions as operators |
| `VcrCore` | `pif.cpp`, `savestates.cpp` as the engine sees it, `r4300.cpp`, the commands of the UI | the threads around `Vcr` |
| `VcrCore_proofs` | | theorems about `Vcr` and `VcrCore` |
| `CoreThreads` | the waits of `vcr.cpp`, `savestates.cpp`, `r4300.cpp`, `pif.cpp`, `Seeker.cpp`, `Main.cpp` | mutexes, joins, messages between windows, the pause loop |
| `CoreThreads_proofs` | | theorems about `CoreThreads` |
| `ThreadPool`, `Messenger`, `Dispatcher` | the files of these names in `Views.Win32` | one service each |
| `FrontEnd` | how `Main.cpp`, `AppActions.cpp` and `PianoRoll.cpp` use them | composes the three services |
| `FrontEnd_proofs` | | theorems about `FrontEnd` and its three services |
| `InterruptQueue` | the list functions of `r4300/interrupt.cpp` | operators on the queue and `Count` |
| `Devices` | `memory.cpp`, `dma.cpp`, `interrupt.cpp`, `exception.cpp`, `cop0.cpp`, idle loops | the devices and the processor around `InterruptQueue` |
| `EventCalendar` | | abstract specification of the event queue; `Devices` implements it (`CalendarSpec`) |
| `Devices_proofs` | | theorems about `InterruptQueue` and `Devices` |
| `CodeCache` | `tlb.cpp`, `recomp.cpp`, stores and transfers of `memory.cpp` and `dma.cpp`, `savestates.cpp` | TLB, page tables and decoded pages |
| `CodeCache_proofs` | | theorems about `CodeCache` |
| `Interpreter` | `pure_interp.cpp`, `r4300.cpp`, `regimm.cpp`, `bc.cpp`, `special.cpp`, `exception.cpp` | branches, delay slots, exceptions |
| `Mips` | | the architecture's precise exceptions; `Interpreter` implements it (`PreciseExceptions`) |
| `Interpreter_proofs` | | theorems about `Interpreter`, the refinement of `Mips` included |
| `RegCache` | `x86/regcache.cpp` | operators on the state of the compiler |
| `Recompiler` | `recomp.cpp`, `x86/gr4300.cpp`, `gspecial.cpp`, `gregimm.cpp`, `gcop1.cpp` | compiles blocks with `RegCache` and executes them |
| `Recompiler_proofs` | | theorem about `RegCache` and `Recompiler` |
| `HostMemory` | loads and stores of `pure_interp.cpp` and the handlers of `memory.cpp` | byte order and partial accesses as operators |
| `Storage` | `memory.cpp`, `dma.cpp`, `pif.cpp`, `flashram.cpp`, `summercart.cpp`, `cop1`, save files in `r4300.cpp` | everything that moves bytes, over `HostMemory` |
| `BigEndian` | | what a program of the console may rely on; `Storage` implements it (`ConsoleSpec`) |
| `MC...` | | instances for TLC |

### Savestates

The variables are the source's (`g_tasks`, `g_task_mutex`, `g_undo_savestate`)
plus the place of the emulation thread in `st_do_work` (`stage`, `next`,
`duplicates`) and, per client, the task it is about to insert.  `core_st_do_file`
and `core_st_do_memory` are split at the `can_push_work` test because
`core_executing` changes without the mutex; `st_do_work` is one action per pass
of the duplicate filter, per erased index and per task, so that a batch that
fails half way is visible.  A savestate is the machine state it holds, a number
that is new in every frame.  Whether a file can be written, and whether a load is
accepted (format, checks, dialogs), is a free choice.

### Vcr and VcrCore

`Vcr` keeps the globals of `vcr.cpp` in one record, with the names of the
source, and has one operator per function, from records to records.  Each
runs with `vcr_mutex` held, so a call is one step.  Calls that leave the engine
are recorded in the record: `g_tasks` (savestate requests), `jobs`
(`submit_task`), `movies` and `snapshots` (files), `cheat_layers`.

`VcrCore` adds the threads, and the scenario (section 3).  The emulation thread
goes through `update_pif_read` (`pif` is its place), performing one savestate
task or one controller poll per step.  A worker takes any job: it queues a load
or resets or closes the ROM in three steps, followed by the job's own callback.
The user performs any command whenever the program allows it.

The emulated machine is deterministic, so it is represented by what it started
from and the inputs it was given since; an input that is not the movie's makes it
`Unknown`.  The central property `InSync` compares the machine with what the
movie says it should be: it fails if a sample is consumed twice, left out, taken
from the wrong index, or replaced after its use.

A movie's `.cht` file may be unreadable and its warning accepted, in which case the
playback pushes no cheat layer (`push_cheats`); the warning before a recording may be
declined, after the running movie was stopped.

Left out: VI counts, rerecord counts, author and ROM fields, backups, the other
warnings before playback (each returns before anything changes), the `.cht` file that a
recording writes when cheats are active (`vcr.cpp:890-916`; none are in the model, and a
failure returns before anything changes), the wait
counter of the menus, and the difference between MOVIE_START_FROM_NOTHING and
MOVIE_START_FROM_EEPROM.  A movie's uid is a number that is new for each
recording; in the program it is the time in seconds.  `core_vcr_stop_all` is one step;
in the program it reads the task between two calls that lock `vcr_mutex` each
(`vcr.cpp:1682-1701`), so a job that changes the task in between makes it stop the
other kind of movie or none.

### CoreThreads

In `Vcr` a call is one step because its mutex is held.  `CoreThreads` is about
the mutexes themselves: each function is the sequence of its steps that wait or
make others wait (lock, unlock, join, send to a window, invoke on the UI thread,
wait in the pause loop), a thread holds the rest of what it is executing, and any
two functions interleave at these steps.  Recursive mutexes keep their depth.  Most
commands run on workers; pausing, the seek dialog's start and stop and the movie
functions of Lua scripts run on the thread of their window (`Command`).  A load that a
seek asked for may fail, which stops the seek.  The lookup of the savestate in the job of
a seek is a step of its own kind, because it takes no mutex and may insert (section 4).

### ThreadPool, Messenger, Dispatcher and FrontEnd

Each service is a module with its own variables whose actions take the thread as
a parameter; `FrontEnd` composes them: the UI thread submits keyed jobs and opens
dialogs, jobs broadcast from the pool, the main window's callback invokes on the
UI thread, and the piano roll's threads subscribe and unsubscribe meanwhile.  There may
be several of these: `show` starts one unless the window exists, and the window is
created after the subscriptions (`PianoRoll.cpp:1491-1524`).  In `Messenger` the test of
the other counter and the increment of the own one are separate steps, as in the code.
So two threads can be inside `subscribe` at once; what their unsynchronised accesses then
do to the list and to `g_uid_accumulator` is a choice, and `overlapped` remembers that it
happened.  `fast_dispatcher` has either value at first and changes in the settings dialog.

### InterruptQueue, Devices and EventCalendar

`InterruptQueue` has the list functions with `Count` modulo `CountLimit`, where
the code has 2^32, and `Recent` for the 0x10000000 of `SPECIAL_INT`
comparisons.  `Devices` has one action per access a game can make to a device
register and one per instruction in which time passes, with the events handled
inside it as `gen_interrupt` does.  `EventCalendar` is an agenda of events on a
clock that wraps; the refinement maps the queue to it without the internal
`SPECIAL_INT` and `CHECK_INT`.

### CodeCache

A page of code is one word.  Each address that reaches a frame (the two windows
and the mapped pages) has a block with its own flag, mark and hash.  The block of a
window whose code does not end in a jump goes on into the next frame, up to a quarter
page; the block's `tail` is what was decoded there (`Following` says which frame is next,
`Through` which words go on).  Actions:
jumps, stores through each alias, transfers, TLB writes, savestates and starts.

### Interpreter and Mips

One step is one round of the main loop of either interpreter.  What instructions
compute is left out; an instruction is known by where it is, and each fetch, jump
and access may miss the TLB.  `Mips` says what may have happened when a handler
starts: an instruction completed or left no trace and is in EPC, a branch and its
slot go together and BD tells.  `scars` are the instructions that changed a register
and were then interrupted: both interpreters finish SC after a missed store, and the pure
one extends or merges the register of a load that missed.

The program is a constant (`Code`).  `ProgramAssumption` says which programs are
meant: exception handlers (`Handlers`) are in unmapped memory, are entered by
exceptions and left by ERET only and raise none themselves; a delay slot holds no
branch, ERET or MTC0 to Status (it may hold loads, stores, FPU instructions, SYSCALL and
MTC0 to Count) and does not lie on a mapped page that its branch is not on.  Outside of that the source does what section 4 says.

### RegCache and Recompiler

`RegCache` has one operator per function of `regcache.cpp` on a record of the
compiler's state.  A code generator is a sequence of requests: allocations and
the abstract x86 instructions on what they returned.  A register or a word of the
register file either holds the current value of one half of an N64 register or
something useless, so that executing a block tells whether every operand is the
value the program computed.

### HostMemory, Storage and BigEndian

`HostMemory` has the byte order of the host's arrays (S8 and S16) and the
arithmetic of every load and store; `Storage` the memories, FPU registers in both
layouts, transfers, the serial bus, save memories and their files for several
games.  `BigEndian` knows nothing of arrays and files: memories of bytes, loads
and stores most significant byte first, save memories per game.

## 3. Runs

| Run | States | What it shows |
|---|---|---|
| `savestates` | 129,241 | four requests for two files and memory buffers, in every interleaving with work and core stops: callbacks at most once, newest request answered, undo point before loads, nothing outlives the core |
| `Vcr` | 568,195 | the machine follows the movie, a seek never passes its target, nothing is awaited that is not on its way, length and inputs agree, no input comes from beyond the movie, cheat layers balance, seek savestates stay bounded, seeking back loses no input, recordings are flushed; under fairness, seeks and skipping end |
| `CoreThreads` | 197,120 | every circle of waiting threads goes through one of three named waits, the map of seek savestates is used by two threads at once only through the unlocked lookup, no thread handle is overwritten while joinable, every close ends |
| `FrontEnd` | 150,932 | one job per key and keys come back; between subscriptions the subscriber cache is current unless two of them overlapped; `invoke` executes once and before it returns; calls and bus waits end |
| `Devices` | 360,915 | the devices implement the calendar; no interrupt is forgotten, one next video interrupt, busy devices have their event, frames keep coming |
| `CodeCache` | 1,246,816 | the page tables agree with the TLB, and no stale instruction is run, in a page or where its code runs on |
| `Interpreter` | 922 | both interpreters have precise exceptions but for the named exceptions, and BD is set only with a branch in EPC |
| `Recompiler` | 88,561 | blocks of three instructions: the register cache is consistent and each operand current, from each entry point |
| `Storage` | 106,637 | memories, registers, transfers and save files amount to a big-endian console |
| `RecordDeadlock`, `ResetSaveData`, `SeekSavestatesMaximum` | | findings (section 4) |

### Bounds

**Vcr.** A run of `VcrCore` explores a set of *scenarios*; the
variable `scene` holds the one that a behaviour belongs to.  A scenario (`MCVcr`)
has the settings, the movie files on the disk to begin with, and the bounds: how
often the user performs each command, how long a recording grows, the first
sample that an edit may change and the misfortunes that happen.  Two buttons are
enough because the engine only compares inputs; three samples are the fewest for
which a backward seek, an edit before the current sample and a savestate in
between differ; two seeks are needed for the effects of one on the next.

| Scenario | What happens |
|---|---|
| `Recording` | a recording from a snapshot with a pause, two seeks (forward or back) and a cancelled seek; a seek savestate for every sample, at most one kept |
| `Playback` | a movie from a reset or a snapshot is played with pause, frame advance and two seeks over seek savestates |
| `ResetRecording` | a recording from a reset into which two console resets are recorded; another recording may be begun and declined |
| `MovieReset` | a movie with a reset in it is played in a loop; without seek savestates a backward seek starts it over |
| `Warp` | a paused warp modify whose first edit is after sample 0 |
| `SlotSavestates` | a slot save, two slot loads and a stop in a recording; an earlier savestate truncates the movie and the file follows |
| `Failures` | three scenarios with failing saves, missing snapshots, failing ROM starts, late callbacks, a close and a reset, and an unpaused edit or a second recording; of the properties about what the machine does, only `LengthMatchesInputs`, `SeekSavestatesBounded`, `SeekLoadKeepsInputs` and `RecordingFlushed` are about disturbed scenarios |
| `Files` | a recording from an existing snapshot, with or without that file, that a read-only savestate may turn into a playback; saves may fail |
| `Cheats` | a movie, or none, is played twice; its `.cht` may be unreadable |
| `PlaybackSeek`, `RecordingSeek` | a movie is started, and the user does nothing but seek and stop seeking: `SeekEnds` and `SkippingEnds` are about these; the latter has five samples and one seek savestate to keep |

**CoreThreads.** Two workers; seventeen scenes, each with two commands of the user out
of two or three and at most one event of the emulation thread.  A circle of waits
needs two threads with two waits each, which any two commands give; the scenes
pair the commands that share a mutex, a handle or a window: `MovieScenes` those of movies
and savestates, `WindowScenes` the seek dialog and Lua on the threads of their windows with
the end of a seek, `LifeScenes` starts, closes, resets and pauses with each other and with
a slow seek, a recording and the window threads, `RecordScenes` the finding's.

**FrontEnd.** Two workers, one key, one message, and four budgets: four commands
of which one throws; two dispatching jobs while the UI thread opens a dialog and changes
the dispatcher's setting twice, from either value; three broadcasts while the piano
roll comes and goes; and the piano roll shown twice, which gives two threads that
subscribe.

**Devices.** `Count` has 60 values, a video interrupt every 10, and transfers take
2 to 8; so several events are pending at once, every order of due events occurs
and the counter wraps.  Eight scenes choose which devices the game uses.  A
savestate is not loaded in the last frame before `Recent` or before the wrap
(`UsualSaves`), and there is one write of `Count`.

**CodeCache.** Two frames, the second behind the first, one word of two that runs on, one TLB entry, one pair of pages on each side of
0x40000000, one savestate and one new start.  The flags are made for programs
that invalidate the instruction cache or store through the alias they run from, and
do not write a frame that the code of a window runs on into (`RunInto`);
when a behaviour leaves that discipline (`ordinary` becomes false), only a load
or a start goes on.  So does a TLB write after which a block of another page would
take the hash of a frame (`HashesOwnFrame`, section 4).

**Interpreter.** One program of 37 instructions, the last five its handlers, has
every kind of branch with every kind of instruction in its slot, SC, loads and writes
to Count outside of slots too, one of these in a handler.  It keeps to
`ProgramAssumption`, and the cached interpreter is not entered after the pure one
(section 4).

**Recompiler.** Three general registers with HI, LO and zero are 12 halves for 7
x86 registers, so values are evicted; three instructions allocate, disturb and
use.  `Quirks` leaves out the blocks of section 4, and an entry in the middle of a
block assumes that what the block caches as 32-bit is sign-extended.

**Storage.** Memories of eight bytes, pages of four, two games, and a scene for
each path a byte can take.  Accesses are aligned; no SD to the PIF; doubles in
even registers when FR = 0; transfers stay within memories; the arrays are empty
when the process starts; flash RAM within one process.

Deadlock is checked in `Devices` and `Interpreter`, whose machine never stops.
Elsewhere the user's budget ends, and a paused emulator may stay paused.

### Fairness

`VcrCore`: weak fairness of the emulation thread, an ordinary thread that only
waits in its pause loop (disabled in the model while paused), and strong fairness
of the workers: a job that queues a savestate needs `g_task_mutex`, which the
emulation thread takes and leaves every frame, so the worker is enabled again and
again but not continuously.  `CoreThreads`: strong fairness of each thread's
steps for the same reason, weak fairness of taking a job, polling and stopping.
`FrontEnd`: weak fairness of each thread's own steps, none of which needs a
mutex for long.  `Devices`: time passes again and again, for the processor always
executes.  Operating-system schedulers and their mutexes provide all of this.
Nothing is assumed of the user: `CloseEnds` allows for one who pauses again (and for
threads in one of the named circles), `InvokeReturns` for a dialog that stays open and for
a `fast_dispatcher` that was switched off while a call waited and stays off (`UiHeld`).

### Mutants

For every property of every passing run there is a variant of one operator with a
plausible mistake (named in a `Mutant` comment) that violates it.

## 4. Findings

Three runs expect a violation: they state what a comment or the API documentation
says, and TLC finds a behaviour of the code that differs.

* `RecordDeadlock`: `core_vcr_start_record` queues a savestate while it holds
  `vcr_mutex`; the emulation thread takes the two mutexes in the opposite order.
* `ResetSaveData`: a reset of the save data clears only a part of the controller
  packs' file.
* `SeekSavestatesMaximum`: more seek savestates are kept than the setting's maximum, by
  up to two: the purge comes before the new savestate and compares with "greater"
  (`vcr.cpp:529`).  `SeekSavestatesBounded` says how far it goes.

`PROJECT.json` quotes the lines they contradict.  The behaviours below were met
while modelling.  Bounds, or exceptions that a property names, keep the passing runs
clear of those that touch a property; they are listed so that nobody takes a passing
run for more than it says.

**Savestates and movies**

* Three tasks for one file make the duplicate filter erase an index twice, and
  with it an unrelated memory task (`savestates.cpp:527`).  Tasks that it erases
  or a core stop clears are never called back, so `CallbackAtMostOnce` cannot say
  "exactly once".
* A recording stopped while its reset is pending starts anyway (`vcr.cpp:581`).
* A playback that waits for its reset or for the load of its snapshot sets its task
  in the callback, whatever the engine does by then.  A recording begun meanwhile
  ends without being written; `RecordingFlushed` fails in scenarios that mix the two,
  and the theorem about it excludes exactly this step (`PlaybackTakesOver`).
* A seek survives the stop of its movie (`vcr.cpp:1682`), and a warp modify with it: a
  recording begun meanwhile reads inputs beyond its end up to the old target.  TLC finds
  this with two recordings and one unpaused warp modify.
* A savestate can be made while the current sample lies beyond the end of the movie, in
  the frames between a warp modify that shortens it and the load of its seek savestate.
  It claims more samples than it has inputs, and a read-write load copies that many
  (`vcr.cpp:476`); a seek then plays what lay behind the buffer.
* A recording that a savestate turned into playback pops an empty cheat stack
  (`cheats.cpp:272`).  A playback that is refused because its snapshot is missing has
  pushed its layer already, and nothing pops it.  A movie whose `.cht` cannot be read
  (`cheats.cpp:157-161`) and whose warning the user accepts pushes no layer
  (`vcr.cpp:1294-1306`), but its stop pops one (`vcr.cpp:1643`), from an empty stack;
  `CheatLayersBalanced` is about the others.
* The controller's index is added to a counter that already counts controllers
  (`vcr.cpp:722`), so the runs have one controller.
* "Recording will be stopped" but the task stays (`vcr.cpp:968`).
* A reset drops the load a seek waits for; every later frame is skipped
  (`savestates.cpp:696`).
* Cancelling a backward seek truncates the recording (`vcr.cpp:441`);
  `SeekLoadKeepsInputs` excepts seeks that were stopped (`Abandoned`).
* `core_vcr_get_warp_modify_first_difference_frame` compares the status with
  itself (`vcr.cpp:1840`).
* *Long seek*: a seek further than interval times maximum makes no savestates on
  its way, the one of frame 0 included (`vcr.cpp:513`), so a later backward seek
  asks for an empty buffer and the frames it skipped are lost to the movie.
* *Unpaused warp modify*: the seek target equals the current sample and
  `vcr_begin_seek_impl` returns before it rewinds; used inputs are replaced.
* *Warp modify of sample 0*: every seek savestate is erased (`vcr.cpp:1546`), then
  the inputs are replaced and the load of the empty buffer fails.
* *Warp modify after a seek*: the savestate filed under frame n holds sample
  n + 1, which can lie beyond the target of the warp modify.
* *Waiting at the end*: with `wait_at_movie_end`, a seek begun at the last sample
  is never resumed (`vcr.cpp:791`).
* *Repeated read-write loads*: each shortens the movie and leaves the seek savestates
  of the frames it cut off.  The purge looks at the frames before the movie's new end
  only (`vcr.cpp:531`), so a load can leave one more than the last; with a maximum of
  one, a slot that is saved once and loaded twice exceeds `SeekSavestatesBounded`.

**Threads**

* The job of a seek looks its savestate up without the mutex, with `operator[]` of an
  `unordered_map` (`vcr.cpp:1499`, `:1566`): if the savestate was erased since the locked
  search, or there was none, this inserts an empty one while another thread may use the
  map.  `OnlyLookupRaces` says that no other two uses overlap.
* There are three circles of waits; `OnlyKnownCircles` says that there is no other.
  *Windows*: the seek dialog (`Seeker.cpp:35`, `:72`, `:82`) and Lua's movie functions
  (`lua/modules/Movie.h:27`, `:63`, `:69`, `:199`) lock `vcr_mutex` on the thread of a
  window, to which the emulation thread sends messages while it holds that mutex
  (`vcr.cpp:814`, `:1608-1618`); a comment in `PianoRoll.cpp:422-423` avoids the same
  there.  *Recording*: the finding above.  *Slow seek*: a seek without savestates that
  meets a reset keeps `vcr_mutex` at depth one while the ROM restarts (`vcr.cpp:1190`).
* A pause or a frame advance that comes between the resume and the join of a close
  keeps it waiting (`r4300.cpp:2108`); `CloseEnds` allows that.
* A core that stops itself leaves joinable thread handles.
* A frame advance that a reset overtakes lets `frame_advance_outstanding`
  underflow (`pif.cpp:678`).
* A keyed job that throws keeps its key for ever (`ThreadPool.cpp:33`).
* A callback can be called after its unsubscription returned, a broadcast can
  begin during a subscription (`Messenger.cpp:73`), and two subscriptions can pass each
  other's tests (`Messenger.cpp:87-90`) and change the list at once, so that a subscriber
  is lost, doubled or shares its uid, although `Messenger.h:187` and `:196` call the
  functions thread-safe.  Two threads of the piano roll are enough.  `CacheCurrent`
  excepts what follows such an overlap.
* A broadcast of a message without subscribers inserts into the cache without a lock
  (`Messenger.cpp:77`); in the model every message has an entry from the start.
* The answer to an `invoke` is lost when `fast_dispatcher`, which is on by default, is
  switched off while a call waits for its event (`Main.cpp:2363-2369`, `:2490-2517`); the
  caller then waits until it is switched on again (`Stranded`).

**Interrupts and devices**

* An event that is due just before `Count` wraps can be missed for a round
  (`r4300.cpp:248`), and SPECIAL_INT is handled when `Count` is exactly 0.
* A savestate does not hold `SPECIAL_done`, and its queue is rebuilt under the old
  `Count` (`savestates.cpp:470`); COMPARE is entered again with a stale time.
* A write to `Count` does not move `next_vi`; removing an event leaves
  `next_interrupt`.
* Without `is_audio_delay_enabled` the AI's delay is 0, and with both buffers in use
  its event lies in the past (`memory.cpp:2651`); the byte, half word and double reads of its length
  lack the test of the word read.
* The timer interrupt is only taken together with one of the RCP
  (`interrupt.cpp:617`), and a CHECK_INT also when EXL is set; a TLB refill
  overwrites Cause.
* The pool of queue nodes is searched up to its size in bytes
  (`interrupt.cpp:46`).

**Code cache, interpreters, recompiler**

* Savestates hold only a quarter of each page table (`savestates.cpp:94`), and one
  `memset` clears the wrong one (`r4300.cpp:1723`).
* The block of a window decodes up to a quarter page of the next frame
  (`recomp.cpp:2668`, `:2679-2704`).  Stores and transfers to that frame look at the flags
  of that frame's pages only (`r4300.cpp:81-84`, `dma.cpp:176-182`), so the tail stays as
  it was decoded and is run again.
* Stores through kseg1, through a second mapped alias and some transfers do not
  invalidate decoded code.  `core_Index & 0x3F` indexes an array of 32.
* With three frames a hash can vouch for the wrong block (`tlb.cpp:99`, `:175`).  A
  page is decoded in one frame and mapped to a second one with the same bytes, which
  are then replaced and run at their own window; unmapping the page files the hash of
  the new bytes with the old instructions, and mapping it to a frame that holds the
  new bytes revalidates them.  Two frames cannot show this; the proof attempt did.
* The hash of a new block is not initialised; marks of type NOTCOMPILED2
  (`recomp.cpp:2634`) keep words that were replaced.
* MTC0 Status in a delay slot sets BD with the address of the slot
  (`exception.cpp:184`); a nested refill with EXL set changes EPC
  (`exception.cpp:113`); `interp_addr` of an earlier run of the pure interpreter
  decides where the cached one goes on (`exception.cpp:139`).
* After a TLB miss the pure interpreter still extends or merges the register of a load
  (`pure_interp.cpp:2664`, `:2673`, `:2691-2706`), which destroys the base register when it
  is the same; SC clears `llbit` and sets its register (`pure_interp.cpp:3045-3046`,
  `r4300.cpp:1454-1457`).  `Excused` names these.
* MTC0 to Count takes the interrupt that is due before it writes Count and moves the
  program counter (`pure_interp.cpp:1017-1025`, `:1113`, `cop0.cpp:60-63`): the
  instruction is in EPC and is executed again, and the handler's first instruction is
  skipped (`CountInterrupted`).
* A fetch miss in a delay slot executes the handler's first instruction twice; a
  store of a part (SWL and its kin) on an unmapped page raises two exceptions; the
  condition of BC1 is read after the slot; REGIMM and BC1 branches that are not
  taken and likely do not update the count.
* DSLLV and its kin with rd = rs (`gspecial.cpp:363`) and the jump to itself, which
  computes in EAX while EAX may be cached (`gr4300.cpp:215`, `:305`), are the
  `Quirks`.  `needed_registers` is not initialised (`recomp.cpp:2480`), and
  `build_wrapper` emits a load from each address it finds there
  (`regcache.cpp:793-798`), of which the model keeps only that the value is useless.
  DIV and DIVU by zero leave what EAX and EDX held in LO and HI
  (`gspecial.cpp:547-551`, `:565-569`), where the interpreters leave LO and HI alone;
  `genmult` models a divisor other than zero.  SLT compares the low halves as signed.

**Memories**

* Flash RAM is erased and programmed in the file of the SRAM and read from a file
  that nothing writes (`flashram.cpp:103`, `:160`); programming copies RDRAM when
  it executes, not when the transfer was started.
* Save arrays keep another ROM's bytes where a file is short.
* The SummerCart64's SD file is opened with swapped names on load
  (`summercart.cpp:208`), which truncates it; its unlock sequence is not reset by
  0xFFFFFFFF; byte and half-word reads of its registers do not invert the address.
* FPU register pointers are not restored by a savestate (`cop0.cpp:80`); doubles
  in odd registers with FR = 0 use stale pointers.
* `write_pifd` writes both words to one address (`memory.cpp:3534`),
  `write_rsp_memd` calls a read (`memory.cpp:1794`), byte and half-word writes of
  some registers use another register's value, and the frame-buffer protection
  compares page numbers with addresses (`memory.cpp:1160`).

## 5. Proofs

Eight modules prove theorems for every value of the constants: any number of clients,
files, workers, keys, frames, TLB entries, registers, any program, any scenario.  Where a
property is also checked by a run, the run shows it on one instance and the theorem
on all.  The assumptions are the named ASSUMEs of the modules, which TLC evaluates on
each run.

| Module | Theorem | States |
|---|---|---|
| `Savestates_proofs` | `TypeCorrect` | `TypeOK` |
| | `CalledAtMostOnce` | `CallbackAtMostOnce` |
| | `NothingOutlivesCore` | `NoTaskOutlivesCore` |
| | `UndoIsPreLoad` | `UndoHoldsPreLoadState` |
| | `NewestIsAnswered` | `NewestRequestAnswered` |
| `VcrCore_proofs` | `EngineConsistent` | types and bookkeeping of the engine |
| | `HeaderMatchesInputs` | `LengthMatchesInputs` |
| | `RecordingsAreFlushed` | `RecordingFlushed`, unless a playback takes over |
| | `RequestsAreWatched` | a pending reset is a worker's; one seek load at most, while it is waited for |
| | `RequestsAreOnTheirWay` | `NothingWaitsInVain`, unless the core stops with the request queued |
| | `SeekLoadsKeepInputs` | `SeekLoadKeepsInputs`, unless the seek is abandoned |
| | `CheatLayersMatchPlayback` | `CheatLayersBalanced`, unless a task is replaced, a snapshot lacking or a `.cht` unreadable |
| | `InputsComeFromTheMovie` | `InputsInRange` with one controller, unless a savestate is made beyond the movie's end or a warp modify loses its movie |
| | `SeekSavestatesAreFew` | `SeekSavestatesBounded` with one controller and a maximum of at least one, unless a seek savestate lies beyond the movie's end |
| `CoreThreads_proofs` | `LocksDisciplined` | the depth of each mutex along each thread's program |
| | `MutexesProtect` | what a mutex protects is done by its holder; the unlocked lookup of a seek is not among it |
| | `SeekSavestatesUnderMutex` | `OnlyLookupRaces` |
| | `LocksAreReleased` | a thread that is done holds nothing |
| | `HandlesFreeAtLaunch` | `HandlesFree`, unless the core stops itself |
| `FrontEnd_proofs` | `PoolSafe`, `FrontEndImplementsPool`, `FrontEndOneJobPerKey` | `OneJobPerKey`, of the pool and of its use |
| | `FrontEndInvokeIsSynchronous` | `InvokeIsSynchronous` |
| | `FrontEndCacheCurrent` | `CacheCurrent`, for any number of threads that subscribe, unless two subscriptions overlapped |
| `Devices_proofs` | `QueueMatchesDevices` | registers and event queue agree |
| | `OneVerticalInterrupt` | `OneNextVi` |
| | `DevicesBusyUntilEvent` | `BusyUntilEvent` |
| | `InterruptsNotForgotten` | `NoLostInterrupt`; in scenes with savestates without its order |
| `CodeCache_proofs` | `TablesFollowTlb` | `LutFollowsTlb` |
| | `JumpsRunCurrentCode` | `RunsCurrentCode`, for programs that stay `ordinary` |
| `Interpreter_proofs` | `RestsBetweenRounds` | nothing is pending between two rounds |
| | `CauseNamesBranch` | `BdMeansBranch` |
| | `InterpretersArePrecise` | the refinement `PreciseExceptions`, with its two named exceptions |
| `Recompiler_proofs` | `RegistersConsistent` | `CacheConsistent` |

None of these properties is inductive.  The strengthenings, and what they say:

**Savestates.**  `Inv` (theorem `Invariance`) has four parts.  `MutexInv`: a client
past `can_push_work` holds the mutex, and so does the emulation thread throughout
`st_do_work`; with it `st_on_core_stop`, which takes the mutex, can only come after
the insertion.  `IdsInv`: no two queued tasks belong to one request, and a request
that a client is about to insert is not in the queue yet.  `UncalledInv`: a request
that is still to be performed, inserted or made was not called back.  `UndoInv`: the
machine is the batch's until a load succeeds, the duplicate filter never erases the
first task, and the undo task is first in a queue that holds a load.  `NewestInv` adds
that the newest request is first, or second behind the undo task, until the loop has
performed it: an index is only ever a duplicate of a smaller one, and nothing
duplicates the undo task, whatever number of requests for one file is filtered.

**VcrCore.**  `Inv` describes the engine's record field by field.  Its part `BegunOK`
says that once a task, a job or a reset that starts a movie is on its way, the movie
has a path and a current sample, and a savestate of a movie knows its sample:
`core_vcr_unfreeze` writes that sample back, so the inputs it truncates to exist.
There is one lemma per function of `vcr.cpp`, which says how its result relates to its
argument (`Quiet`, `Calm`, `Goes`, `Stopped`, `Unfrozen`, `Flushed`), then one per
step of a thread.  Every scenario is covered, those with misfortunes included, and any
number of controllers.  For `RecordingFlushed` the hypothesis
`[][~PlaybackTakesOver]_vars` is needed: section 4 has the behaviour it leaves out.

`Watched` adds to `Inv` what the engine asked for and has not got yet.  It is stated
relative to `First`, the first savestate task the emulation thread has not performed,
because a task stays in the queue until the whole queue is done.  `ResetAwaited`: a
pending reset has a job or is in progress.  `Lone`: at most one load of a seek savestate
is with a worker or ahead in the queue, and only while `g_seek_savestate_loading` is set;
a second one would find the flag cleared by the first.  Both hold in every
scenario.  `Awaited`, the converse (what is waited for is ahead, and a snapshot that
is to be loaded exists), needs `[][~StopDropsRequest]_vars`: a core that stops clears the
queue without calling back.  `Held`: while a seek savestate is on its way the movie is
recorded under a seek or played back read-only, the two cases in which
`core_vcr_unfreeze` leaves the inputs alone; `SeekAbandoned` is the step that ends this
before the savestate is loaded.  `Layered` counts the cheat layers against the task;
`TaskReplaced` is the load or the late callback that turns a recording into playback or
back, and `Lacking` a movie without the snapshot it starts from or with an unreadable
`.cht`.

`AllGiven` is about where inputs come from.  `Stocked`: the movie, the movie files, the
snapshots, the seek savestates and the savestates of queued tasks hold inputs that a
controller or a file gave, and a savestate of a movie has an input for each sample it
claims (`Sound`), so that `core_vcr_unfreeze` copies nothing else.  `Warping`: the target
of a warp modify lies within its movie; the seek is stopped before the input of the
target is asked for, hence the unchecked read never leaves the inputs.  The two steps
that break this, `FrozenBeyond` and `InputsReplaced`, are excluded; nothing is assumed of
the scenario but that its files hold inputs (`FilesGiven`).  One controller is
assumed, because two lead the counter past the end (`vcr.cpp:722`).

`FewInv` counts, instead of the map alone, its `Room`: frame 0, the frames that have a
seek savestate, those whose savestate is queued and those a worker looks up, which makes
an empty entry.  Every step but a poll leaves the room as it is or smaller (`Fits`): a
savestate that is made late was counted when it was ordered.  A poll makes an order only
with no other queued (`st_do_work` has just emptied the queue) and no load on its way
(`Watched`), and first purges: either the map is within its size, or the earliest frame
after 0 goes, or only the two ends of the movie have savestates.  The last case needs a
maximum of at least one (`RoomGiven`; it is 20 by default) and no savestate beyond the
end (`NoneBeyond`), and with two controllers the second poll would find the first's order
in the queue.

Each exception is a behaviour of section 4, and each lemma says for one function or
step which of these it keeps (`Keeps`, `Serves`, `Eases`, `Aside`, `Supplied`, `Fits`), begins
(`Begins`, `Seeks`) or performs (`Performs`).

**CoreThreads.**  A thread holds the rest of its program as a sequence of steps that
steps may extend.  `LockInv` therefore says that each program *runs* from the depth at
which the thread holds a mutex to 0: a depth can be given to each of its points so that
locks and unlocks count, nothing is unlocked at 0, and what the mutex protects is
reached at a positive depth.  Such programs can be concatenated, so each function of
the source is treated once.  `LifeInv` follows start, close and reset through their
phases under `g_emu_cs`: handles are joined before a launch.  It fails when the core
stops itself (`core_gives_up`), as section 4 says, hence the exception.

**FrontEnd.**  Every step of the front end is a step of each service or leaves it
alone.  `PoolInv`: a job with a key is in one place (accepted, queued, running) and
its key is pending.  `DispatcherInv`: at most one call is on its way, by the thread
that holds the mutex, and the event that wakes it is its own.  `BusInv`: as long as no
two subscriptions overlapped, `g_subscribing` counts the one thread, of any number, that
is inside `subscribe`, and during its subscription the cache follows the list step by
step.

**Devices.**  `QueueOK` counts the events of each type that a register speaks of: one
SPECIAL_INT, one VI_INT at `next_vi`, one AI_INT or PI_INT exactly while the device is
busy, at most one SI_INT.  `AtRest`: `skip_jump` and `delay_slot` are clear between
two instructions, without which `gen_interrupt` would return early.  An interrupt to
be taken has a CHECK_INT in the queue and, unless the queue fell out of step with
`Count`, it is the first event and due at this very `Count` (`CheckFirst`): that is
why no event can be inserted before it, no idle loop skips it and the next look takes
it.  The proof goes from what `InsertAt`, `RemoveAt` and `Tail` do to the places of a
queue, over what `add_interrupt_event_count` and `remove_interrupt_event` do to the
number of events of a type, to one lemma per event and per access.  That
`load_eventqueue_infos` queues every saved event again is shown on the recursive
function, by the least number of events for which it would fail.  The theorems need
no bound on the number of waiting CHECK_INT, which the run has.  A savestate keeps
the CHECK_INT too, but its queue is rebuilt under the `Count` of the machine that
loads it, and there an event may be sorted in front of it: the order is claimed for
scenes without savestates, its presence for all.

**CodeCache.**  `LutInv`: each page's table entries are those of the TLB entry that
covers it, for entries that do not overlap.  `CodeInv` says, while the behaviour is
`ordinary`, of the page at which a frame is run: a window without an invalid-code
flag holds what the frame holds (`WindowDecoded`); so does a mapped page if neither it
nor the frame's windows have one (`PageDecoded`); the hash kept with a mapped page is
that of what was decoded (`HashDecoded`); the window of a frame run at a mapped
page has a mark, so that stores are noticed (`FrameMarked`); and the tail of a window's
block is what the next frame holds (`TailDecoded`), which `RunInto` keeps from being
written.  Proving `HashDecoded` is
what found the behaviour with three frames.

**Interpreter.**  `Rest`: between rounds no delay slot and no jump is pending, the
machine is at exception level exactly in handlers, EPC is in the program and BD
implies that it holds a branch.  A round is an optional step of the architecture for
the fetch and one or two for the instruction, its slot and what they raise; each
operator has a lemma about the machine and one about what `Mips` allows.  The
scars of a round are of the excused instructions only (`ScarsTracked`), and only the write
to Count at which an interrupt is due (`CountHit`), outside of a delay slot, takes the step
that `Mips` does not have.  The
theorems suppose `SwitchBack = FALSE`: the cached interpreter is not entered after the
pure one.

**Recompiler.**  `RInv` adds to `CacheConsistent` that the two halves of a value were
last used together and nothing was used after the current instruction (`Good`): what
frees or touches one half then finds the other.  There is one lemma on the arrays for
each way in which they change (`GoodTouch`, `GoodFree`, `GoodTake`, `GoodDrop`,
`GoodJoin`, `GoodWrite`, `GoodMove`, `GoodForget`), and over these one per function of
`regcache.cpp`.  The argument that a pair is allocated safely is a count: the
register for its high half is the least recently used one, and were it a register of
the same instruction, the halves of `rd`, `rs` and `rt`, six at most, would fill all
seven registers (`SpareRegister`).  It needs that between two requests the instruction
uses nothing but what it names (`BusyIn`), which each request preserves.  MULT asks for
two values more, and never for a pair; DSLLV drops the high half in ECX only after the
count, a low half, was put and kept there (`CountInECX`); a load fills the cache only
after it was emptied.  The theorem holds for all instructions, those excluded
from the run for the code they generate (`Quirks`) too.

### What TLC alone shows

* Liveness (`SeekEnds` and its like): fairness and ENABLED are out of the prover's
  reach.
* `InSync` and `SeekNotExceeded`: they hold in the scenarios of the
  runs, and section 4 lists behaviours outside of these that break them; a theorem would
  have to assume the scenarios.  `OnlyKnownCircles` is checked in the scenes of its run.
* What a whole movie does to the machine or a whole block to the registers, and the
  refinements of `EventCalendar` and `BigEndian`: they rest on induction over data of
  arbitrary length.  No module here uses a RECURSIVE operator.
* `BlockIsRight`, which runs the code of a whole block, for the same reason.
* The properties of `Storage`.

## 6. Plan

Modelled so far, in the order of importance to the promise above: savestates and
movies, the threads around them, events and devices, code cache, interpreters,
recompiler, memories, the services of the front end.  Proved: section 5.  Open, after
the properties that section 5 leaves to TLC: in `Devices`, the order of the queue between
two wraps of `Count`, from which the steps of `EventCalendar` follow.

Left to model: execution of cheats, the piano roll's undo history and optimistic
edits, the encoding manager, the command line's start sequence, and Lua
environments that are destroyed from their own callbacks.

## 7. Not modelled

About half of the lines of the repository are third-party libraries in `lib/`
(JSON, formatting, logging, Lua bindings), which the project takes as they are,
and most of `Views.Win32` draws windows, fills lists and stores settings: there is
no state there that a model checker would reach and a look at the screen would
not.  Hence the modules cover the core and the concurrent parts of the front end
and a modest share of all lines.  Inside the core, what instructions compute (a
64-bit arithmetic and floating point), the encodings of x86 instructions, constant
tables (PIF boot codes, opcodes), the disassembler, the trace log and plugin
loading are left out; `PROJECT.json` gives the reason for each component.
