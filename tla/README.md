# Verification of the NFS Most Wanted ARM Linux port

This directory holds TLA+ models of the runtime that runs the Android game's
ARMv7 libraries on a Linux handheld (`runtime/src`), and of the scripts that
install the game's data (`tools/eapx.py`, `package/nfsmw/prepare_audio.py`).
TLC checks the models on small instances; the TLA+ proof system proves the main
results for every value of the constants. Paths below are relative to the
repository; line numbers are those of the commit the models were written from.

`PROJECT.json` lists components, runs, mutants, the source lines of each
definition, findings, hazards and theorems.

## 1. Inventory of the system

### Processes and flow

The launcher script (`package/Need for Speed Most Wanted.sh`) runs `setup.sh`,
which runs the installer `eapx.py install`; then `prepare_audio.py`; then the
native runtime. The runtime is one Linux process. `main()` maps the guest
libraries, checks providers and the platform, relocates, patches, runs the guest
constructors, starts JNI and plays. During play one thread runs the frame loop of
`nfsmw_jni_run`; guest threads (engine, FMOD mixer, loaders) run beside it and
call the bridge. Everything that outlives the process is files: game data,
installer workspace, markers.

### Components

| Component | State it keeps | Operations | What makes it correct |
|---|---|---|---|
| Mutex, condition, semaphore, rwlock bridge (`compat_bridge.c:480-824`) | a host address in each guest word; host objects on the heap | init, destroy, lock/wait/post..., create on first use | exclusion, no lost wake-up or token, no freed host object reached |
| C++ destructor registry (`compat_bridge.c:355-432`) | `atexit_entries`, `atexit_count`, `atexit_lock` | `__cxa_atexit`, `__cxa_finalize`, `nfsmw_compat_finalize` | each destructor at most once, newest first, none left behind by a pass |
| Process lifecycle (`main.c`, `initializer_trace.c`, `relocation_probe.c`) | images, host handles, flags, exit status | map ... relocate, patch, construct, play; two ways out | guest code only when linked; release on every way out; finalizers mirror initializers |
| Input half of the frame loop (`jni_bridge.c:2060-2420`) | previous buttons, cursor, touch, scroll, idle timer | buttons, sticks, mode switch, idle | well-formed touch stream; released keys seen released |
| Platform probe and runtime (`platform_probe.c`) | SDL library, subsystems, window, context, controller; the runtime structure | probe, start, stop, present | each acquisition given back, in order, on every way out; the game's GL state kept |
| Audio output (`opensl_bridge.c`, `jni_bridge.c:2370-2442`, `platform_probe.c:893-929`) | player callback, context and buffer size, SDL queue, FMOD track | register, pull, queue, destroy | callback and context belong together; bounded queue; no call into a stopped runtime |
| JNI registries (`jni_bridge.c:724-776, 1386-1434`) | method and field tables | look up or append | an id names one method; tables do not overflow |
| JNI objects and dispatch | fake strings, arrays, bitmaps | one handler per method name | conversions only |
| Symbol resolution (`relocation_probe.c`, `symbol_probe.c`) | provider lists | ordered lookup, census | the guest ABI's provider wins; census predicts relocation |
| ELF loader (`elf32_loader.c`) | image, segments | map, describe, relocate, protect | offsets stay inside the image |
| OBB index (`obb_index.c`) | entries of the archive, one buffer for listings | open, close, list, size | the whole archive or nothing; a listing is the directory's children |
| eapx installer transaction (`tools/eapx.py:2461-2983`) | live tree, stage, backup, journal, marker | recover, roll back, adopt, stage, commit | atomic over crashes and exceptions |
| eapx recipes, planning, discovery | none across runs | parse, plan | pure functions |
| Audio asset import (`prepare_audio.py`) | sounds, stage, marker | check, unpack, replace, mark | music only with every sound; no leftover blocks |
| Launcher, driver choice, extraction tool | shim directory, output directory | select drivers, extract, verify | no half result taken for whole |
| Bionic ABI conversions, setjmp, crash trace, patches, packaging tools | - | layout conversions, diagnostics, build steps | no protocol between calls |

Components interact through shared memory (guest words, queue callbacks), calls
(the frame loop calls guest code, guest code calls the bridge from any thread,
destructors call the registry again) and files (the installer's marker decides
whether the next launch looks at the data at all).

### What is hard here

* **Interleaving.** The getters of the four synchronisation bridges read the guest
  word, create a host object and store its address with no lock. Two first uses
  of a statically initialised object can overlap (`compat_bridge.c:547, 626, 710,
  757`). The JNI registries, the OBB index and the audio calls have no lock either
  (`jni_bridge.c:742`, `obb_index.c:288`, `opensl_bridge.c:281`). The destructor
  registry releases its lock around each destructor (409).
* **Shutdown under running threads.** `nfsmw_platform_runtime_stop` and the end of
  JNI run while guest threads still queue sound and list files; nothing joins them.
* **Stale state.** Host addresses are freed and reused while guest words and calls
  in progress hold addresses; the audio pump looks four times at what a guest
  thread registers; keys pressed in one input mode are released in the other; the
  installer's fast path trusts recorded sizes.
* **Crashes.** The device may lose power between any two file operations, also
  inside a rollback and inside `prepare_audio.py`'s replace sequence.
* **Partial failure.** Any stage of `main()` can fail with earlier ones done; an
  exception can strike between the marker and the removal of the journal.
* **Limits.** A full destructor registry, full JNI tables and names longer than
  their fields, semaphores at their maximum, the one audio queue that FMOD and
  OpenSL both fill, sizes past an int, a wrapping 32-bit tick counter, a scroll
  threshold on which two comparisons disagree.

`PROJECT.json` lists each of these under "hazards", at its line, with the
properties that cover it; the one without a property carries the reason.

## 2. Modules

| Module | Models | Composes |
|---|---|---|
| `HostSlots` | the read-create-store protocol that all synchronisation bridges share; history of overlapping first uses (`raced`) | extended by the four bridges |
| `MutexBridge` | `pthread_mutex_*` over `HostSlots` and host mutexes of three types | implements `GuestMutex` |
| `GuestMutex` | abstract: what a pthread mutex promises | |
| `CondBridge` | `pthread_cond_*` with one guest mutex | uses a mutex that excludes, as `MutexBridge` shows |
| `SemBridge` | `sem_*` | |
| `RwBridge` | `pthread_rwlock_*`, with readers counted by the host | |
| `AtExit` | the destructor registry, nested and concurrent passes | |
| `Lifecycle` | `main()` from mapping to exit, each stage's failures | |
| `PlatformRuntime` | probe, start, stop and presentation, one SDL call a step | |
| `AudioOutput` | the frame loop with FMOD and OpenSL sound, and the guest's audio threads | extends `PlatformRuntime` |
| `Session` | the whole process | composes `Lifecycle`, `PlatformRuntime`, `AudioOutput`; implements `Lifecycle` |
| `JniRegistry` | lookups of methods and fields in tables that grow without a lock | |
| `ObbIndex` | opening, closing and listing the archive, sizes of assets | |
| `ElfImage` | one guest library: mapping, page rights, relocation, patches, unmapping | uses `SymbolLookup` |
| `SymbolLookup` | operators: who provides a symbol, in relocation and in the census | |
| `InputLoop` | a frame as stages: input, idle timer, scroll, one edge per button, tick | |
| `AudioImport` | `prepare_audio.py`, each file operation a step | |
| `EapxInstall` | `install_command`: recover, roll back, fast path, adopt, stage, commit | implements `AtomicInstall` |
| `AtomicInstall` | abstract: the data change in one step | |
| `SharedState` | what guest threads share without a lock: the four share no state, so that a behaviour (`side`) is about one | composes `SemBridge`, `RwBridge`, `JniRegistry`, `ObbIndex` |
| other `MC*` | values of the constants for TLC | |
| `*Proofs` | inductive invariants, lemmas, theorems | |

### How state and actions correspond to the code

**HostSlots.** `slot[g]` is the word at guest address `g`: a host address, or a small
word (`raw <= 0xffff`) with the mutex type a static initialiser encodes. `heap` is
what `calloc` returned and `free` did not get back; addresses are reused. A call
is four steps: read the word (`Enter`), `calloc` (`Allocated`, or `NoMemory`),
store the address (`Install`), act on the host object. `raced` is a history
variable: `g` enters it when a call begins to create while another creates for
the same `g`.

**MutexBridge.** One action per entry point and host effect: `BeginInit`,
`BeginLock`, `BeginUnlock`, `BeginDestroy`; `CreateMutex`, `InstallMutex`;
`Acquire`, `Refuse` (EBUSY, EDEADLK), `Unlock` with the host's ownership rule per
type, `Destroy` with EBUSY on a held host mutex. `held[t][g]` counts what the
guest was told. Guests in `Lazy` are used when only statically initialised; the
others go through `pthread_mutex_init` first. `UnlockEmpty` is the bridge's answer
to an unlock of a word without object.

**CondBridge.** Waits hold the guest mutex; the host releases it and blocks in
one step. `WakeUnasked` is both the time-out of `timedwait` and a spurious wake-up:
the clock is not modelled. Guests in `SignalLocked` are signalled with the mutex
held only.

**SemBridge.** `value` is the host semaphore's, `tokens` what the guest counts.
`MaxValue` stands for `SEM_VALUE_MAX`.

**RwBridge.** `writer` and `readers` are the host lock's, `holds` is what the guest was
told. The guest follows POSIX: it unlocks what it has, does not read twice, and
initialises or destroys a lock that nobody holds or is inside of. glibc lets an
unlock of another's lock through, so that `readers` can fall below zero after a
race. Any word that is no host address reads as "none yet": `Words` is `{0}`.

**AtExit.** One action per stretch under `atexit_lock`: `Register`; `Finalize` (take
the count, scan down to the first entry that matches, mark it, release);
`DestructorReturns` (scan on). `passes[t]` is a stack, since destructors may call
`__cxa_finalize`.

**Lifecycle.** `stage` is the place in `main()`; `at` the loop index. A failing step
is its own action with what it leaves behind (an image counted as mapped although
`elf32_describe` failed, a partly relocated one). `started` and `completed` are
`constructors_started` and `constructors_completed`, on which the two ways out
depend (`main.c:158-199`). Relocation of one image is one step, which `ElfImage`
shows in detail.

**PlatformRuntime.** `held` is what SDL gave (library, subsystems, window, context,
controller), `open` the audio devices, `known` the fields of the runtime structure
that other threads read, `plat` the place in probe, start or stop. Every call
that the code checks may fail, and `passed` tells `main()` which tests of the probe
passed. `gl` is the part of the GL state that the presentation reads or writes; the
named assumption `PlatformAssumption` gives it these fields and a Boolean scissor
test.

**AudioOutput.** A step is one access to what the threads share, or one SDL call.
`do[t]` is the audio call thread `t` is in, with the device it opened and whether it
began before the stop was over (`early`); `loop` is the place in the frame loop, `pump` what
`nfsmw_opensl_pump` has loaded and whether the guest changed its player meanwhile
(`touched`). A call through an unloaded library or a null callback ends the
process: `crash` is "overlapped" when such an overlap explains it, else "unexplained".
One guest thread (`Owner`) makes, registers and destroys the player, since the
bridge has one player; every guest thread queues, and asks how much is queued
(`AskQueued`, `AnswerQueued`). Formats, sample data and the interface tables are left
out.

**Session.** Steps of `main()` that call the platform wait until the call returned,
with the outcome it had. Guest threads run from `JNI_OnLoad` until the process
ends, through shutdown, destructors and finalizers. `SessionSpec` implements the
`Spec` of `Lifecycle` with its own variables (`SessionRefinesMain`).

**JniRegistry.** A lookup reads the count on every turn (`Search`), sees room (`Grow`),
reads and stores the count (`Claim`, `Store`) and fills the entry field by field
(`Fill`). `Cut[n]` is what `snprintf` leaves of a name, `CutSignature[s]` of a
signature; a key is found again only if it `Fits`, that is if neither was cut, and two
keys are alike when what is stored of them is equal. A full table aborts the process:
the thread stays where it is. `contended` holds the keys that two threads looked up at
a time, or their alike: static and instance methods of one name and signature
match each other until the last field is stored. `overlapped` holds the tables that two
threads grew at a time.

**ObbIndex.** Paths are sequences of components, shorter than `NAME_LIMIT`; `archive` is
the file, `index` what was read of it, `buffer` the static list that `nfsmw_obb_list`
fills and the bridge copies out of afterwards, `room` its capacity. `list[t]` is the
listing thread `t` makes; `alone` says that no other went on meanwhile and the index
was not closed. A listing may begin after the close, when the index has no entries,
and comes out empty when `realloc` fails (`ListNothing`).

**ElfImage.** `rights[p]` is what `mprotect` made of page `p`, `mem[a]` the word at
address `a`; sums of addresses wrap at `WordSize`, as `uintptr_t` does, so that an
image below its link address has a negative `load_bias`. `stage` and `at` are the
place in `elf32_map`, `elf32_relocate` or the patches, one step per segment and
per relocation. An access checks the rights of its page and leads to `crashed`
when they do not allow it. A file gives only what the loader looks at: segments
with their words, the ranges of its tables, relocations with their symbols; `File`
says what any file looks like. `OnePerWord` is the linker's habit of leaving a word
to one relocation: the loader does not check it, and a word relocated twice is
made from what the first one left. The
three FMOD entries share one `behind` (`guest_set_output`, `guest_set_filesystem`,
`guest_create_sound`). A symbol of `SymbolLookup` is a record of the lists and tables
it is in; earlier images appear as `exporters`. Counters for the log are left out.

**InputLoop.** Guest code runs inside every touch and key call, so a frame is not
one step and the invariants hold at every stage. The stick is given as scroll
steps (`raw / 8192`); 1 is exactly 8192. Cursor position, steering values and
motion events are not modelled; `TouchStreamSound` speaks of the order of events.

**AudioImport, EapxInstall.** File content is the OBB or payload it came from;
`Torn`, `Partial` and `Damaged` are contents that belong to none. Operations take
effect in order, a rename is atomic, deleting or writing a tree is not. A power
failure (`PowerOff`, `PowerLost` in `AudioImport`) can come between any two steps, an
exception (`Raise`, `StepRaises`, followed by the code's rollback) wherever the code
may raise. The user changes OBB or payload, damages or deletes files, and the game writes files of its own. The
installer's lock lets one instance run. Deleting itself does not fail, nor does the
user change the live tree while a journal is open. The shipped recipe
(`nfsmw.eapx.json`) commits one root, `gamefiles`; the instances have two, and the
cases that need two are about the generic installer, which takes any number. In
`AudioImport` the user deletes any sounds, one or several; a file that is changed or
cut short passes the script's `is_file` check and is not modelled.

## 3. Runs

Every run has deadlock checking off where the system may really stop: guest
threads that all wait, a process that exited, a loop that ended.

| Run | Instance | Shows |
|---|---|---|
| `mutex_bridge` | 2 threads, 1 lazy and 1 prepared mutex, 3 host addresses, depth 2; 332,313 states with symmetry | exclusion and agreement with the host unless first uses raced (`ExclusionUnlessRaced`), no freed object reached, the prepared mutex implements `GuestMutex` |
| `cond_bridge` | 3 threads, 2 conditions, 3 addresses; 20,976 states | signals reach waiters (`SignalsReach`) and only their own (`WakesItsOwn`); no races when signalled under the mutex (`LockedNeverRaces`) |
| `shared_state` | semaphores and rwlocks: 3 threads, 1 guest, 2 addresses; registries: 2 threads, 6 keys, 4 lookups; archive: 2 threads, 2 OBBs, 3 requests; 811,350 states | `TokensConserved`, `NoDanglingHost`, liveness `TokenFindsWaiter`; `LocksSound`; `IdsNameTheirMethods`; `ListingsSound` |
| `atexit` | 2 threads, 2 objects, 4 entries, nesting 2; 154,874 states | `StartedOnce`, `NewerFirst`, `PassComplete` |
| `session` | 2 images, 2 devices, 2 guest threads, 2 callbacks, 2 GL states; 1,546,218 states | `main()`: `GuestCodeLinked`, `ReleasedAtExit`, `FinalizersMirror`; platform: `AllReleased`, `GuestGlKept`; sound: `CallsItsClient`, `CrashOnlyOverlapped`, `QueueBounded` |
| `elf_link` | 27 files of two segments, 48 addresses, pages of 4 words, one with a word relocated twice, every place of the image; 3,109 states | crashes only in holes, rights and words as declared (`PagesAsDeclared`, `LinkedAsSpecified`), bridges never bypassed and never resolved into each other (`BridgedNeverRaw`), the census foretells what is unresolved (`CensusForetells`) |
| `input_loop` | 5 buttons, 3 stick positions, tick modulus 4; 2,279,740 states | `TouchStreamSound`, `PointerHeldByInput`, `NoStuckKeyUnlessCaught`, `IdleCursorHides` across the wrap of the ticks |
| `audio_import` | 3 files, 2 OBBs, 3 faults; 108,932 states | `MusicIsComplete`, liveness `MusicReturns` |
| `eapx_sharing` | 2 roots, 2 payloads that share a root, 3 faults; 64,160 states | `ReadyIsInstalled`; what is never lost (`NothingGone`) and what a rollback gives back (`RollbackGivesBack`); liveness `ReadyAgain` |
| `eapx_atomic` | 2 roots, 2 payloads without common content, 3 faults; 22,364 states | `ImplementsAtomicInstall` |
| `eapx_rollback` (violation) | as `eapx_sharing`, 2 faults | an intact root equal to the payload is lost in a rollback |
| `eapx_late_raise` (violation) | as `eapx_atomic`, exceptions after the marker | power failure in a rollback under the marker loses old and new |

### Why the bounds are enough

* Two threads make the shortest first-use race; the third in `cond_bridge` and
  `shared_state` is one that waits beside two that race. One more host address than
  objects in use lets freed addresses be reused while a stale one is held. Two
  guest mutexes, one raced and one not, let a race disturb the other if it could.
  Depth 2 separates recursive from normal mutexes.
* Four registry entries and nesting 2 let a nested pass take entries from an outer
  one while a thread appends; a full registry is reached.
* The five buttons are those the loop treats specially; the others behave like L1.
  The tick modulus 4 with idle limit 2 and delays 1 and 2 wraps within the limit.
* Two images reach the first and the last index in each loop of `main()`; one has no
  initializer and the other no finalizer. `SessionProofs` is about any number.
* Two devices are what two threads need that both open one. Two callbacks let the
  pump load one with the context of the other. FMOD mixes 2 bytes at a time and an
  OpenSL buffer is 1, so that each pull's limit differs from the other's; guests
  queue one buffer on their own account (`MaxPrimed`).
* The registries have room for two methods and one field, so that four lookups fill
  both while two threads grow them; one name and one signature are cut, each with a key
  beside it that equals what is stored, and a static method has an instance method
  beside it.
* The archives have a file that exists under two prefixes, a directory without an
  entry of its own, a size past the int limit (4 stands for 2^31), and an invalid
  entry after a valid one.
* The files of `elf_link` have each kind of provider and relocation, a hole, a bss,
  a shared page, a link address high enough for `load_bias` to wrap, an image that does
  not begin at 0, and each way to be refused; an image at every page shows every wrap.
* Two roots are the least in which one is published and another not; three faults
  interrupt a commit, its rollback, and the recovery of the rollback.

`MaxHold`, `MaxDepth`, `Capacity`, `MaxValue`, `MaxPrimed`, `MaxLookups`, `IntLimit` and
`MaxFaults` are the bounds; `Capacity`, `MaxValue` and `IntLimit` stand for limits the
code has.

### Fairness

Only three runs assume fairness; all others check safety from `Spec`.

* `SemBridge` (in `shared_state`): weak fairness of the steps inside a call. A waiter is served while a
  token is there: the host semaphore is the futex-based one of glibc. New calls
  are never assumed.
* `AudioImport`: weak fairness of the script and of launching. `MusicReturns` says
  that no leftover blocks: the user keeps launching.
* `EapxInstall` (in `eapx_sharing`): weak fairness of the installer and of launching:
  setup runs before every launch. `ReadyAgain` has two exceptions, see below.

Faults are bounded by `MaxFaults` and never fair, so that the liveness properties
speak of what follows when they have stopped.

## 4. What the checks found

Two disagreements have a run of their own:

1. **Rollback with equal content** (`eapx_rollback`). `tools/eapx.py:2536-2538` calls
   the rollback idempotent. A live root equal to the payload is taken for the
   landed payload even when it is the original; if the stage has a copy it is
   deleted (2562), and the backup has nothing to restore. The content is still in the
   stage (`NothingGone`), from which a later launch installs it. `RollbackGivesBack`:
   a rollback that ends has given back every other root. It takes a recipe with
   several roots, which the shipped one is not.
2. **Exception after the marker** (`eapx_late_raise`). When `transaction.discard()`
   (2643) raises, the rollback starts while the marker names the transaction. A
   power failure in it makes `recover()` (2661) delete backup and stage. Without
   power failure the rollback completes and leaves the marker certifying the old
   content; the fast path, which compares sizes, rejects it unless sizes agree.
   `ReadyIsInstalled`, `NothingGone` and `RollbackGivesBack` therefore exclude the case
   (`late`).

Others that were met while modelling:

* **A deletion cut short.** The `remove_path` of 1. (`eapx.py:2562`) is not atomic. After
  a power failure inside it the tree has neither the old nor the new digest, and the
  rollback of every later launch stops at it (2569-2573) with "modified by something
  else during the transaction". Roots later in the plan are back, it and those
  before it are not, and this mixture stays until somebody helps by hand. The game
  is not started over it (`ReadyIsInstalled`), and no content is gone: the
  half-deleted root has its copy in the stage (`NothingGone`). `ReadyAgain`
  holds up to this state, which it names (`Stuck`).
* **First use of a static mutex.** `research/abi-contract.md:93` asks for side tables
  keyed by guest address, one host object per guest object. `compat_mutex_get` (547)
  stores after an unlocked read, so that two threads can enter.
  `ExclusionUnlessRaced` shows that this is the only way to lose exclusion, and
  `LockedNeverRaces` that conditions signalled under their mutex never race.
* The range check of the loader covers holes between segments, where there is no
  page: a table or a relocation there crashes it (`CrashOnlyInGap`).
* On hosts with pages larger than the files' alignment the last segment on a page
  decides about its rights (`PagesAsDeclared`), so that the end of the text may not be
  executable.
* The census does not look where relocation does (`Differ` in `ElfImage`): it takes
  exporters later in link order, does not know aliases, ARM helpers and procedures
  of EGL, and believes the soft-float list. `main()` does not act on it.
* `README.md:84`: "Any input restarts the timer." A right stick at exactly 8192 is
  not counted as activity (`> 8192`, `jni_bridge.c:2115`) but scrolls
  (`8192 / 8192 = 1`). `IdleCursorHides` is about counted input.
* `runtime/README.md:11-12` says a clean return runs destructors and finalizers.
  After a game that returned 0 `main()` calls `_exit(0)` and runs neither
  (`main.c:163`); the comment at `jni_bridge.c:2459` explains why.
  `FinalizersMirror` is about the finalizers that do run.
* **Sound and shutdown.** `runtime_stop` (`platform_probe.c:930-954`) unloads SDL and
  clears the structure while guest audio threads may be inside a call, which then
  goes through nothing. The same holds for `nfsmw_opensl_pump`, which checks the
  callback and loads it again later (`opensl_bridge.c:276-281`), against a guest that
  destroys its player. `CrashOnlyOverlapped` and `CallsItsClient` show that there is no
  other way to it. Two `audio_start` at a time each open a device and the second
  handle overwrites the first; `SDL_Quit` still closes both, which is why `AllReleased`
  holds.
* **Registries.** Two threads that look up a method for the first time at once enter
  it twice or into one entry (`jni_bridge.c:742`). A name of 96 characters or more is
  cut, and so is a signature of 160 or more of a method, 96 or more of a field: such a key is
  never found again and entered at every lookup. `IdsNameTheirMethods`
  says what remains true.
* **Listings** of two threads at once share a buffer (`obb_index.c:288`), so that each
  may return names of the other; `ListingsSound` is about a listing alone. A file
  larger than an int is listed, but its size comes out negative.
* A destructor registered during the last pass is never run: the pass takes the
  count once (`compat_bridge.c:398`). `PassComplete` is about those registered before
  it.
* After the first launch `prepare_audio.py` has unpacked sounds into `gamefiles`; when
  the data are damaged later, `check_foreign_files` refuses a re-import, because
  those files were not planned. `ReadyAgain` excludes it: files of the game's own
  (`foreign`) over data that are not the plan's.
* `prepare_audio.py` looks for the marker and three required files. When another
  sound is gone the game plays on without it, launch after launch, until the OBB
  changes. `MusicIsComplete` names those sounds (`lost \ Required`).
* An import for another OBB that is cut short leaves the old marker over a changed
  target; a user who puts the first OBB back plays with what is left.
  `MusicIsComplete` excludes it, too (`import = "trusted"`).

## 5. What is proved

Every safety and action property that a passing run checks is also a theorem, for any number
of threads, guest objects, addresses, images, buttons, files or faults; TLC remains
the only check of the three liveness properties. Each proof module has an inductive
invariant (`IInv`, with others beside it where a module is about several
components), one lemma per action or group of actions, `Spec => []` of that invariant,
and the theorems below.

| Module | Theorems | Argument |
|---|---|---|
| `MutexBridgeProofs` | `HostAgreement`, `Exclusion`, `NoDangling`, `Answers`, `PreparedExclusion`, `PreparedRefinement` | A host object belongs to at most one guest word or to one call that creates it (a private address); on a guest that never raced owner and depth of the object are the guest's. Exclusion alone is not inductive: without ownership of addresses a freed and reused address could belong to two guests. `Calm` adds that prepared guests never race; the refinement maps each step to a `Take`, `Give` or stutter. `Answers`: a call that returns does so in one step of the host (`OwnReturn`), whose object then agrees with the guest's |
| `CondBridgeProofs` | `NeverRaces`, `NeverDangling`, `SignalsReachWaiters`, `SignalsWakeTheirOwn` | a call that creates for a condition signalled under the mutex owns the mutex from its read to its store, so two cannot overlap. A host condition in use belongs to one guest word or one creating call, so that whoever frees it takes the last way to it (`RefInv`). While first uses of a condition do not overlap, at most one call creates for it and every other holds the host that its word has (`FreshInv`): a signal and the wait it is for then meet on one host object |
| `SharedStateProofs` | `TokensAreConserved`, `WaitsAreAnswered`, `NoHostDangles` | semaphores: ownership of addresses as for the mutex (`CallInv`, `PrivateInv`, `FreshInv`); on a guest that never raced the host's value is the guest's count of tokens (`AgreeInv`), and on every host object no more waits succeed than tokens were given (`PileInv`). `WaitsAreAnswered` is the action property that follows: what a call returns is what the guest's count asks for |
| | `LocksAreSound` | read-write locks: the same ownership; on a lock that never raced the host's `writer` and `readers` are what the guests hold (`RwAgree`) |
| | `IdsAreNamed` | registries: how far each thread's search and entry are; an entry of a table that was never grown twice at a time is filled up to the field its writer is at; an uncontended key has passed every entry before the count it has read (`JniPassedInv`), so that it is entered once. `RegistryAssumption`: names and signatures are not empty, and cutting a cut name changes nothing |
| | `ListingsAreSound` | archive: the index is a prefix of the archive while it is opened and all of it afterwards; a listing that no other overlapped has in the buffer the children of the entries it has scanned, each once. `ArchiveAssumption`: no path twice in an archive and no empty component, which the game's OBB respects and the code does not check |
| `AtExitProofs` | `AtMostOnce`, `ReverseOrder`, `Completeness` | each pass on each stack is sound: all entries between its index and its start that match are inactive, and entries never become active again |
| `InputLoopProofs` | `TouchStream`, `FingerHeld`, `KeysReleased`, `IdleTimer` | the pointer's state and who holds it at each stage, the key sets during the edge loop, and modular arithmetic: elapsed ticks equal the quiet time as long as it is below the limit |
| `SessionProofs` | `LinkedBeforeGuest`, `Released`, `Mirrored`, `StatusHonest` | about `Lifecycle`: what is done at each stage for images below, at and above the index |
| | `SessionMain`, `SessionReleased`, `CrashExplained`, `ClientCalled`, `GlKept` | a session refines `Lifecycle`, so that its theorems carry over. `StageInv` and `HeldInv` tie the place in `main()` to the place in the platform and to what is held there; `SInv`: no sound call that can go astray was begun after the stop, since a cleared runtime refuses (`CallInv`), and what the pump has loaded is what is registered unless `touched` (`PumpInv`) |
| | `QueueStaysBounded` | what a device has queued against what the pull that looks at it may add. The main thread looks at one moment and queues at a later one; in between only the guest's own buffers can be added, and these are counted when a guest thread decides, not when it queues (`Entered`). `DeviceInv`: the device looked at is the one queued on, or that one is empty; `LevelInv` bounds each device; `AllowedInv` is the room left between the look and the queueing |
| `ElfImageProofs` | `PagesComeBack` | `RightsInv` gives the rights of a page at every place of the three loops over segments, by the last segment on it among those already protected (`On`, `Writable`, `Sealed`, `Opened`); on either way out of `elf32_relocate` the last loop has put back what is declared |
| | `CrashesOnlyInGap` | a range that passes `range_in_image` is one of the reservation, for every base and however the sums wrap (`BiasedInside`, `CheckedWithin`); an access denied there is denied by `RightsInv`, which names the segment that does not allow it or says that there is none |
| | `LinksAsSpecified` | `MemInv`: each address holds the word of the last segment copied over it, or what its relocation made of that. No two addresses of the file become one (`BiasedApart`), so that under `OnePerWord` each relocation finds the file's word as addend and is applied once. `CountInv`: what is counted as unresolved is exactly what was left out so far |
| | `BridgesKeepTheHostAway` | the ordered lookup, provider by provider (`ProviderIs`): a bridge that is missing still stands before the host's libraries. `BehindInv`: once a wrapped entry is bound the guest's own function is behind it. Providers are told apart by where they have their symbols: `ElfImageAssumption` has `Home` injective |
| | `CensusIsRight` | census and relocation as two orders over two sets of providers (`CensusIs`, `ProviderIs`), which agree on a name that is not in `Differ` (`CensusAgrees`) |
| `InstallProofs` | `Ready`, `Saved`, `Refinement` | `EapxInstall`: each root of an open transaction is as it was, on its way with its original in the backup, or in place (`RootsInv`); how far commit and rollback are, across any number of crashes (`CommitInv`, `UndoInv`); the marker certifies roots that are whole (`MarkerInv`). None of it survives an exception after the marker, so that all but the types is under `~late`. `Refinement` reads the data as the next recovery will leave them (`data`): the old roots while the journal is open, the new ones from the marker on, so that writing the marker is the abstract install and every other step of a commit, a rollback or a crash a stutter. With plans that differ in every root no root is deleted in part, and `data` is the simpler `Meant`. `Saved`: `StageInv` says what the stage holds while a transaction is open, so that a half-deleted root has its copy there |
| | `GivesBack` | for every plan, without `Separate`: the roots the rollback has behind it are old again, or absent when old and new are equal (`UndoInv`), so that the step that ends it has given back every other |
| | `RunsEnd` | every step of the installer lowers `Remaining`, a number that a launch sets to 11 `NRoots` + 12, over the cardinalities of what is staged and saved: no run retries for ever, whatever crashes and exceptions left. (An exception can raise the number; `MaxFaults` bounds them.) It is the part of `ReadyAgain` that needs no fairness |
| | `CompleteMusic`, `SoundsAreWhole` | `AudioImport`: after a whole import whose marker names the OBB every sound is there but for those taken away since (`lost`); a cut one has no marker that does unless the user put it back |

`TypeCorrect` is stated where a module's `TypeOK` is worth a theorem of its own.

Two consequences of these invariants are stated beside their proofs and have no run:
`LocksAnswerTrue` (`Answers`) and `WaitsAnswerTrue` (`WaitsAreAnswered`).

The assumptions are the named `ASSUME`s of the models, which TLC evaluates in every
run, and nothing else. They give constants their kinds (`Home` above and the two of
`SharedState` say more), and ask no set to be finite.
`Refinement` has one hypothesis more, `Separate`: no exception after the marker, damage
that strikes all roots, and plans that differ in every root. Section 4 shows what
happens without them.

Checked by TLC only: liveness (`TokenFindsWaiter`, `MusicReturns`, `ReadyAgain`), whose
fairness the prover cannot reason about (`ENABLED`); of the last
`RunsEnd` proves that each run is finite. Nothing
is said by induction over data: lists are walked by the models' own steps, one
element a step, so that induction is over behaviours.

### What the proofs changed in the models

* `JniRegistry`: keys were alike only when their names were equal. An attempt to prove
  `IdsNameTheirMethods` showed a key whose name equals the cut of a longer one: both
  find the entry, so that such a key must count as contended too.
* `ElfImage`: `CrashOnlyInGap` failed for a file whose image does not begin at address 0:
  the patches compare their offsets with `mapping_size` alone (`jni_bridge.c:59, 124`),
  so that an offset below the first segment passes and reads before the mapping. The
  game's files begin at 0; `Gap` names the case and a file of the run shows it.
* `ElfImage`: `LinkedAsSpecified` needs that a word has one relocation (`OnePerWord`); and
  the imports the census counts are those of relocations that name a symbol, since it
  skips nameless ones (`symbol_probe.c:305`).
* `SharedState`: a path that occurs twice in an archive has the size of its first entry,
  so that `ListingsSound` needs `ArchiveAssumption`.

## 6. Not modelled

* Conversions without a protocol: Bionic structure layouts, soft-float thunks, stdio
  wrappers, JNI strings and arrays, bitmaps. A model would restate each line.
* Of the platform: the display size, viewport scaling, and what the cursor and the
  captured frame look like. Of the archive: the bytes of the ZIP directory; an entry
  is valid or not. Of the input loop: cursor position, steering, motion events.
* Guest threads as such: creation, join and keys forward to the host one to one; who
  runs is the constant of each model.
* `setjmp`, signals, crash trace: registers and signal masks are below this grain.
* The host's SDL, EGL, ALSA and glibc: external, by the contract the code relies on.
* Unordered writes on file systems without directory fsync: `eapx.py:203` says it is
  not crash safe there.
* Build and packaging tools: no state that outlives a run.

## 7. Plan

What is left, in this order:

1. `PlatformRuntime` against an abstract owner of resources (what is acquired is given
   back once, in reverse order), as a refinement beside `AllReleased`.
2. `AudioOutput` against an abstract bounded queue, from `QueueStaysBounded`.
3. `DriverChoice` (order of drivers, cleanup of the shim directory) and `ExtractTool`.
4. JNI objects: references that guest threads share, once more than one method
   keeps state.

## 8. Running

    tlc -config MutexBridge.cfg MCMutexBridge
    tlc -config Session.cfg MCSession
    tlc -config SharedState.cfg MCSharedState
    tlapm MutexBridgeProofs.tla

The largest run takes about two minutes, the largest proof a few minutes.
