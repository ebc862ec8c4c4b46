# Real Racing 3 port: a verification project

TLA+ models of the launcher, the importer and the loader of this repository, TLC
runs over small instances of them, and TLAPS proofs for instances of any size.
Paths are relative to the repository's root (`PROJECT.json` writes `src/` in
front).

The port runs an Android game, a native library that is not in the repository,
on Linux handhelds. What is in the repository is the Android the game finds
around itself: a launcher that finds a GL driver and starts an importer, an
importer that turns the player's own copy of the game into an installed payload,
a loader that maps the library and resolves its imports, shims for the looper,
EGL, OpenSL ES, JNI and bionic's pthreads, a bridge from SDL's controllers and a
frame loop. The game itself is modelled only as what the shims' interfaces let
it do; such definitions are `external` in the map.

## 1. Inventory

### Components, their state and what makes them correct

| Component (sources) | State | Operations | What is hard; what must hold |
|---|---|---|---|
| Launcher, start and import (`ports/Real Racing 3.sh`) | the files it tests for, which tree is the game's | test, import, play | its test against interrupted imports and a game that writes into its own tree; a whole tree is played, saves stay |
| Launcher, GL search, and GL dispatch (the same script, `thunks/khronos/gles1.cpp`, `src/symtab_glprobe.cpp`) | tier, candidates, links, GLES1 table | four tiers of search, probe, link, unshadow, open, dispatch | three independent searches must end in one driver |
| Importer, discovery and rules (`tools/eapx.py`) | the donors, a cache of unpacked APKs | discover, unpack, group, plan, compare | what is installed follows from the card's contents, not from names or an earlier run |
| Importer, transaction (`tools/eapx.py`) | live roots, stage, backup, journal, marker, lock | recover, fast path, adopt, stage, validate, commit, roll back | killed or unplugged anywhere; the user's originals survive, a switch is all or nothing, "ready" is said of whole payloads only |
| Loader (`loader/`, start-up of `src/main.cpp`) | mapped modules, symbol tables | map, relocate, audit, construct, enter | order of libraries and of symbol sources; nothing runs unbound |
| OpenSL ES shim (`android/opensles.cpp`) | list of players, buffer queues, SDL devices, mixer thread | create, realize, enqueue, clear, play state, destroy, pump | the pump calls the game back in the middle of its walk; device, clock and unlocked calls move meanwhile |
| pthread bridge (`src/symtab_pthread.cpp`, `thunks/libc/pthread.cpp`) | one word per mutex or condvar, host objects on the heap | lock, trylock, unlock, wait, timed wait, signal, destroy | objects made at first use by whichever thread comes first; no lost wakeup |
| Cloudcell deferral and HTTP request (`jni/classes/cloudcell_defer.cpp`, `cc_http_request.cpp`) | queue of answers, running batch, the request objects | post, close, pump | answers run later, may post again, may find their request gone |
| Frame loop and exit request (`src/main.cpp`, `android/app_exit.cpp`, `src/rr3_control.cpp`, `android/platform.cpp`) | the loop's position, SDL's queue, the exit flag | control tick, event drain, exit check, input tick, pump, render | finish() from any thread at any moment; events lost to a full queue or to the engine's own poll |
| Input bridge (`android/input_bridge.cpp`) | mode, cursor, held buttons, triggers, sources of the right stick | buttons, axes, pads added and removed, tick | a control held across a change of mode, a timeout or a removal |
| FMOD pump (`src/rr3_fmod_pump.cpp`) | output handle, `g_running`, a thread | start, process | off by default; ends for good after one failure |
| Semaphore bridge (`src/symtab_sem.cpp`) | one word per semaphore | init, wait, post, destroy | created by `sem_init` alone; destroy against wait |
| Time bridge (`src/symtab_time.cpp`, `src/time_scale.h`, `thunks/libc/time64.cpp`) | scale, start | conversions | widths, deadlines in a scaled clock |
| Control scheme (`src/rr3_control_scheme.cpp`) | profile file, marker file | seed once | one of two files fails |
| Service facades (`jni/classes/cc_services.cpp`, ...) | few | each defers one failure | owners of the callbacks are in the game |
| EGL, assets, paths, fonts, JNI tables, libc and GL thunks, texture decoders, binary patches, logs | little or none | call-by-call translation | data, not protocols |

`PROJECT.json` lists these and the rest (generated, vendored, not linked, build
and emulator tools) with the reason each is or is not modelled, and 40 hazards,
each at the line where it bites.

### How they interact

```
launcher --starts while a file is absent--> importer: donors -> plan -> stage -> payload, marker
launcher --links, environment--> loader --SDL window, GLES1 table--> GL driver
loader --maps, relocates, audits--> game library --imports--> shims
game --saves--> the tree the next import finds
frame loop: control tick -> SDL events -> input bridge -> exit check
            -> input tick -> Cloudcell answers -> render -> frame tick of audio
game threads --post--> Cloudcell queue --next frame, game thread--> callbacks
game threads --finish()--> exit flag + SDL_QUIT --> frame loop
mixer thread (or frame tick) --pump under g_audio_lock--> game's callback --Enqueue-->
every game thread --lock, wait--> pthread bridge
```

## 2. Modules

| Module | Models |
|---|---|
| `EapxResolve` | from the donors on the card to a plan: discovery, bundles, grouping, rules |
| `EapxInstall` | `install_command` and what it calls: one action per durable step of the importer, kills, power cuts, exceptions, the user and port updates between runs |
| `AtomicInstall` | what the importer promises: the payload changes in one certified step |
| `Launcher` | a start of the port; EXTENDS `EapxInstall` and gives it its real scheduler |
| `GlStack` | the launcher's GL search, its links, and whose driver the loader's calls end in |
| `Loader` | the libraries mapped and linked, until the game is entered |
| `OpenSles` | players, the lock, the pump in its five steps, SDL's device and clock |
| `PthreadBridge` | one mutex word and one condvar word of the game, used as a producer/consumer queue |
| `CloudcellDefer` | the queue of answers and the life of a request, between engine threads and the pump |
| `FrameLoop` | the loop and the exit request; EXTENDS `CloudcellDefer` and composes with it |
| `InputBridge` | modes, cursor, finger, triggers, keys and right stick, with pads that come and go |
| `EapxResolveProofs`, `LauncherProofs`, `GlStackProofs`, `LoaderProofs`, `OpenSlesProofs`, `PthreadBridgeProofs`, `FrameLoopProofs`, `InputBridgeProofs` | theorems; `LauncherProofs` holds those about `EapxInstall` as well, which `Launcher` EXTENDS |
| `MC*` | constants for TLC |

Definitions commented "A slip" are plausible mistakes in the definition that
follows them; with one of them in its place the property named in
`PROJECT.json` under `mutants` fails. No specification uses them.

### EapxResolve

A donor is a form (zip, folder, bundle, file, broken), a package and entries; an
entry has a place, the file it would be published as and a content. `Discover`
lists the card and queues what bundles hold, `Unpack` copies one inner APK into
the cache or reuses a copy of the right size, `Resolve` decides. `Collect` is
what one rule takes from a set of candidates, `Resolves` when all rules together
succeed for one ABI, `Plan` one item for each destination, `Groups` the sorting,
`Judge` the comparison. Whether a group resolves depends on the set of its
candidates only and is written so; their order decides, in `First` and
`FirstOf`, which of equal items and which of equal plans is taken. Two files
count as the same when size and CRC agree, because the shipped recipe has no
`validate` entries; a folder has sizes only.
The assumptions on the constants: a donor's inner APKs are files unpacked from a
ZIP (`InnerAssumption`: none is a folder), a content is not the missing checksum
(`DonorAssumption`: `zipfile` gives every member a CRC), there is an ABI
(`AbiAssumption`: the recipe's `abi_order` is checked not to be empty), and a
rule has a list of patterns and one of the two kinds (`RuleAssumption`).

`cache[a]` says how the copy of inner APK `a` reads. `fresh` is the set of copies
no sync has covered: a power cut leaves any of these with its name and size and
any bytes. Such a copy may be no zip any more (`"lost"`), or open by its directory,
at the file's end, and list its members as before while its manifest reads, gives no
package (`"nameless"`) or does not decompress (`"corrupt"`). All of them are reused,
as `expand_bundles` reuses any file of the right size, and the last three are
candidates: `Copy(a, state)` is the candidate that a copy makes, a constant that
`CopyAssumption` ties to the APK it is a copy of. Other damage inside a torn copy
shows when it is extracted, where checksums stop the import (`ExtractFails` in
`EapxInstall`). `CandidatesAs(ds, reads)` is what donors amount to when the copies
read as `reads` says.

Left out: blob rules (the shipped recipe has none), hashes, profiles, hooks, the
limits on entries and ratios.

### EapxInstall and AtomicInstall

A commit root has three places: live, staged, saved (`disk[r]`). A place holds
a content (a digest), nothing, or a torn tree. `MoveTo` is the one rename of
`commit()` and `rollback()`; everything else that touches the disk is a copy or
a removal that a kill may leave halfway (`Halfway`). `mayBe[r]` is the set of
states root `r` may be found in after a power cut: it grows with each rename and
collapses at `sync_parents` and where the code syncs; a stage found as the plan asks
is not written again, and `extract` then syncs nothing. `journal` and
`marker` are written by atomic replacement. `pc` names the step the importer is
at; one journal write or one rename per step, as in `commit()`: *intend, rename,
record*, root after root. `Raise` is an exception inside commit's `try`;
`Kill` and `PowerCut` end the process; `Start` begins a run, whose `Recover`
decides as `recover()` does from journal and marker. `LateFailure`,
`PowerCuts` and `ForceImport` switch parts of the environment.

Abstracted: parsing packages, content rules and hooks (an `\E` over `Packages`,
which `EapxResolve` decides), and the lock (a second installer is refused before
it touches the payload, so there is one). Assumed: rename is atomic; after
`sync_parents` it is durable; power cuts are modelled for file systems where
fsync of a directory works, which the code cannot check; and a root that has been
written is on the card, which `extract`'s one `os.sync()` sees to, unless the run
before was killed between the last file and that call (a hazard without a
property, at `tools/eapx.py:2218`).

`Effective` is the payload recovery would settle on (the journal's `old` while
the transaction is open, else what is live). `Atomic` says that with this
mapping the importer implements `AtomicInstall`, whose steps are to publish, to
adopt, and the user's own tampering: no kill, power cut or exception shows
through.

### Launcher

`stage` is what the launcher is doing, `flat` a hand-made install in the port's
own folder, `tree` which of the two the game plays. `Launch` is the test of three
files: a torn tree may pass it or not. `Import` is any step of `EapxInstall`
under the launcher, and its end is the launcher's verdict. `Save` is the game
writing beside its data; since a rename that is not durable yet may put the same
directory back into the stage, what is written there follows it (`Written`).
`Crash` ends both; `BetweenStarts` is the user and a port update. The root of
the shipped recipe is one, `data/`.

### GlStack

A device (`fw`) is a record: which library each directory has under each name,
its `libGL.so.1`, and whether a compositor, a working probe, links and newer
runtime libraries are there. `Tier0` to `Tier3` are the four blocks of the
search in their order, `ShimBlob`, `ShimWrapper`, `ShimMesa` the three ways the
links are made, `Unshadow` is `gl_mesa_unshadow`: it asks the probe (`VendorProbed`,
which takes one that cannot run for a driver that does not load, so that the copies
come out again), while glvnd's own `dlopen` later answers by the library alone
(`VendorLoads`). `OpenWindow` is SDL, external;
`LoadGles1` is `load_gles1_funcs`, and `Executor` says who executes which kind of
call: names wrapped by the probe table, names both tables have, GLES2 names.
`Unified` names the arrangements in which the code keeps every call on one
driver. In the others (a wrapper set beside a firmware's own `libmali.so.1`,
say) the script means two libraries to share the work, and `OneDriver` says
nothing.

### Loader

`names` is the breadth-first list of what is to be mapped, `need` counts down the
DT_NEEDED entries of the module mapped last, `at` counts down the modules while
they are linked, last loaded first: `Relocate`, `Audit`, `Construct`. `Enter` is
`main()` asking for its entry points. A symbol is looked up in the module, in
the host's tables, then in the other modules in load order (`Provider`). `odd` are a
module's imports behind a relocation type the loader does not know, which it leaves
as they are after a message. Segments and relocation arithmetic are left out. `DependenciesFirst` is stated for
`Graded` sets of libraries, where reverse load order is dependency order; with a
library needed from two depths it is false, which the game, needing one library,
does not meet. (The comment at `loader/so_util.cpp:500-506` leaves `JNI_OnLoad`
to the caller; `main.cpp` does not call it.)

### OpenSles

One byte is one millisecond. The pump holds the recursive lock from beginning to
end, so one record `pump` holds its locals: *visit* a player, *measure* what the
device still holds, *retire* the buffers that were heard, *refill* through the
game's callback (which enqueues one buffer or declines; that it might call
anything else, such as `Destroy`, from inside is not modelled), *next*. `Drain` and `SDL_GetTicks` move between any two of these, as do
the game's calls that take no lock, `SetPlayState` with all three states. Its
`STOPPED` empties the queue: a pump that then pops what it counted (`PumpRetire`) does
what C++ leaves undefined, and so is everything after it (`pump.at = "undefined"`). `raced` remembers the players
that were stopped under a pump since their queue was last emptied otherwise. What the device search of `Realize`
finds is one nondeterministic outcome; statistics and volume are left out.

### PthreadBridge

The words are 0, an initialiser, or the number of a host object. `LockFast`,
`Bootstrap`, `Create` are the double-checked creation of `host_mutex`;
`CondFast`, `CondInit`, `Notify` and `Sleep` the unlocked creation in
`thunks/libc/pthread.cpp`; `CondCreate` the one of the timed wait, under
`g_mutex_bootstrap`. `SignalLocked` says whether the game signals before it
unlocks, which is the game's choice: the run `pthread_locked` is the one,
`pthread_unlocked` the other, and they ask different things. Assumed: publication of a word is acquire/release, as the code's
`__atomic` calls say.

### CloudcellDefer and FrameLoop

A request goes through *posted*, *stored* (`QueueRequest` returned), *completed*
or *deleted*; `building[t]` and `manager` are the engine's mutex held across
the construction. `Swap` and `RunNext` are the two halves of `cloudcell_pump`,
outside the queue's lock. The loop's actions are in the order of the source;
`late` counts frames rendered since the exit flag went up. `Routes` are the calls the
engine ends its activity with; of these, `MainActivity`'s finds nobody and sets no
flag. `ErrorCallback` says whether the library exports one: without it `RunNext`
clears the pending flag and answers nobody, and the request stays open for the
engine. Two remarks on what is external:
`input_bridge.cpp`'s header says the game imports neither AInputQueue nor
ALooper, so `PollAll`, like `ANativeActivity_finish`, models what the shim
exports; and nothing in the repository says that the engine gives a request up
on a thread of its own, so `Cancellers` is the game thread (see 4).

### InputBridge

`s` is the bridge's globals, `told` what the game was told last, `pad` what the
player holds. Each function of the source is an operator from (globals, told) to
(globals, told), so that `set_mouse_mode` calls `trigger_changed` as the code
does. Triggers have three levels (rest, half, full), one d-pad axis and one
stick axis stand for both; `last` and `prev` are whether the cursor's axis was off
centre one and two ticks ago, `told.moving` whether the last motion the game was sent
was a MOVE or the STOP that follows it. A pad is removed only at rest: SDL centres a pad and
reports its buttons up before it reports the removal. A control is worked on one
pad only, since the bridge keeps one state for all.

## 3. Runs

Twelve runs. The passing ones check with TLC's deadlock check on, except `loader`:
loading ends, with the game running or with an error.

| Run | Shows | States |
|---|---|---|
| `eapx_resolve` | Any three of fourteen donors in any order, two libraries in two ABIs and two data layouts, one kill, or one power cut after which unpacked APKs read in any way: `DecidedByCard`, `NamesDoNotMatter`, `OneGame`, `ApkAndDataSuffice` | 263 k |
| `eapx_crash` | Two roots, two recipes, four starting payloads, two kills or power cuts anywhere, exceptions, a root taken away by hand: `OriginalRecoverable`, the refinement `Atomic`, and `RecoveryEnds` | 582 k |
| `launch` | One root under the launcher: two port versions, hand-made trees, two crashes, late exceptions, two changes by the user, a game that saves: `ReadyIsWhole`, `PlaysWhole`, `ImportedOnce`, `SavesKept`, `StartsEnd` | 1.34 M |
| `gl_stack` | Every device of two directories, fourteen layouts each: `OneDriver`, `CompositorFirst`, `FailureExplained`, `RefusedForCause`, `CopiesOnlyIfNeeded`, types | 85 k |
| `gl_dropped` | **violated** `MesaServesAll`: calls of the Mesa tier that no table answers | |
| `loader` | Three libraries and libc, needed under plain names and paths, in trees, diamonds and cycles, with imports behind an unknown relocation: `OnceEach`, `DependenciesFirst`, `KnownBound` | 266 k |
| `opensles` | One player with a device or without, one that comes and goes, played, paused and stopped at any moment, pumps on the thread or the frame tick: `CursorIsLive`, `PopsUnlessStopped`, `QueueCoversDevice`, `Refilled` | 1.22 M |
| `pthread_locked` | Two producers that signal under the mutex, two consumers, one with a deadline, a nested lock, normal and recursive initialisers: `HoldersOwn`, `EveryoneServed` | 61 k |
| `pthread_unlocked` | **violated** `SleepersNamed`: the same threads, but signalling after they unlock: a sleeper on a condvar the word no longer names | |
| `frame_loop` | Three requests, two threads, an event queue of two, an exit from either thread by either route: seven properties from `AnswersOpen` to `RequestLeaves` | 159 k |
| `input_bridge` | Two pads, a trigger, A, a d-pad direction on each, a shoulder and the stick, cursor on or off: `FingerHeld`, `ThrottleFollows`, `SourcesHeld`, `CursorSteered`, `Settles` | 284 k |
| `input_stuck` | **violated** `NothingStuck`: steering held at full lock by nobody | |

### Why the bounds are enough

* *Discovery.* Three donors put two groups and an auxiliary beside one another,
  or two things that disagree and one that decides. The order of the listing is
  every order of the file names. One crash is enough for a stale cache, which
  stays for all runs after it; of a bundle's two APKs each may read in each way. The four properties are also proved without these
  bounds.
* *Importer.* Two roots are the fewest with a transaction half done; a third
  repeats the same steps. Two crashes allow a crash in the recovery from a
  crash. Two transaction ids suffice: only the marker's and the journal's are
  ever compared. Three whole contents give old, new and neither.
  `OriginalRecoverable` is also proved without any of these bounds.
* *Launcher.* One root is what the shipped recipe has. Each whole content has a
  version with saves and one without; damaged trees pass the launcher's test or
  do not. Three transaction ids, since an import may follow a recovered one.
* *GL.* Two directories are the fewest in which a search can stop too early or
  take files from different places; the layouts are the firmwares the script's
  comments describe, and every pair of them is a device.
* *Loader.* Three libraries besides the root's own answer make chains, diamonds
  and cycles. `OnceEach` and `KnownBound` are proved without them.
* *Audio.* One player that reaches the device and one that is unlinked around it
  are what the walk can meet; `MaxPending = 1` beside the callback's own
  enqueues makes the queue empty, partial and full. `Word` leaves
  legal differences apart from wrapped ones.
* *Pthread.* The races need a creator, a second creator and a sleeper; items are
  two where a thread has to come back to a word it created.
* *Frame loop.* Three requests let an answer post another while one waits in the
  batch and one in the queue. The theorems drop these bounds.
* *Input.* Each flag of the bridge has a control that sets it; the two pads
  split them so that one can be removed while the other is held. A button that
  only counts as input (`"other"`) is on neither: it adds states and sets no flag that
  these do not.

### Fairness

* *Importer* (`RecoveryEnds`): weak fairness of the importer's own steps and of
  being run again. The launcher runs it again only while a file it needs is
  absent, so this is a statement about an importer that is run.
* *Launcher* (`StartsEnd`): weak fairness of the importer's steps under a
  launcher that has begun. Nothing makes the player start the port or leave it.
* *Audio*: the mixer thread and the frame tick keep turning, a pump that began
  ends, the game leaves a call. Nothing makes the game call.
* *Pthread*: each thread takes its next step (weak); a mutex that is released
  again and again is had (strong), which the host's mutexes give in practice.
* *Frame loop*: the loop, completions and returns that have begun. Nothing makes
  the engine post, and nothing limits how often it does.
* *Input*: the tick, which the frame loop calls once a frame.
* `EapxResolve`, `GlStack` and `Loader` have safety properties only.

## 4. What is proved

Each theorem holds for every value of the constants that meets the modules' named
assumptions; where it has a hypothesis of its own, the table says so. The runs of
section 3 satisfy all of these hypotheses but two: in `eapx_crash` the user may
take a root away during a transaction, and one root of a transaction may then
hold what it installs already. Every safety property that a passing
run checks is stated by one of them.

| Theorem | States | Hypotheses |
|---|---|---|
| `Typed` | types of `EapxInstall` | |
| `Recoverable` | `OriginalRecoverable` | |
| `AtomicSwitch` | `Atomic`: the importer implements `AtomicInstall` | `~LateFailure`, `ReplacesAll`, `LeftAlone` |
| `AtomicOneRoot` | the same | one root, `~ForceImport`, `~LateFailure`, `LeftAlone` |
| `ReadyImportsOnce` | `ImportedOnce` | |
| `ReadyOverWhole` | `ReadyIsWhole` | `SizesTell` |
| `SavesStay` | `SavesKept` | |
| `PlaysAccepted` | `PlaysWhole` | `ShippedRecipe`, `HandMadeAccepted`, `SavesAccepted`, `SizesTell` |
| `ResolveTyped` | types of `EapxResolve` | |
| `CardDecides`, `NamesNeverMatter`, `OneGamePlans`, `SufficientIsInstalled` | the four properties of `eapx_resolve`: any donors, any recipe, any number of ABIs, kills and power cuts | |
| `StackTyped`, `CallsReachOneDriver`, `MesaUnderCompositor`, `FailuresExplained`, `RefusalsForCause`, `CopiesWhereNeeded` | the six properties of `gl_stack`: any number of directories, any libraries in them | |
| `LoaderTyped` | types of `Loader` | |
| `EachOnce`, `CodeRunsBound` | `OnceEach`, `KnownBound`: any libraries, needed in any way | |
| `NeedsConstructedFirst` | `DependenciesFirst`: any libraries, none of them needed from two distances (`Graded`, in the property itself) | |
| `ShimTyped` | types of `OpenSles` | |
| `CursorLive` | `CursorIsLive`: any number of players, created and destroyed around the pump | |
| `DeviceCovered`, `CountedIsThere` | `QueueCoversDevice`, `PopsUnlessStopped`: the game may stop players at any moment, and only what it stopped under a pump is let off (`raced`, in the properties themselves) | |
| `HoldersOwnIt` | `HoldersOwn`: any number of threads, each type of mutex | |
| `TypeCorrect` | types of `FrameLoop` | |
| `AtMostOneFrameLate` | `OneFrameLate` | |
| `PostsKept`, `AnswersFindOpen`, `AnswersFindWhole` | `NothingLost`, `AnswersOpen`, `AnswersWhole` | requests are given up on the game thread only |
| `FingerIsHeld`, `ThrottleFollowsPlayer`, `SourcesAreHeld`, `CursorIsSteered` | the four invariants of `input_bridge`: any pads, any timeout | |

**Recoverable.** `OriginalRecoverable` alone is not inductive: it says nothing
about a root that is about to be renamed. `IInv` adds `JournalMatchesStep`
(at which steps no journal is on disk, and at which its transaction is the
marker's), `DiskSeen` (the disk is among the states a power cut may leave, and
the only one when a transaction begins), `RootInHand` (the original of the root
being worked on is live before `BackUp` and saved after it) and `RootsAhead`
(roots whose turn has not come are as `begin()` found them). The proof has one
lemma per conjunct, each with one step per action; `HalfwaySafe` says that an
interrupted copy or removal never touches the place the original is in.

**The atomic switch.** `AInv` adds to `IInv` what each root of an open transaction
looks like: it is untouched, set aside or replaced (`RootsLegal`), and so is
every state a power cut may leave it in; `Advanced` and `Retreated` say how far
`commit()` and `rollback()` have come, `PlanAccepted` that what is being installed
was validated, `LiveSettled` that without a transaction a power cut changes
nothing live. `Maps` then takes the steps one by one: `Publish` is the
marker's write, `Adopt` the marker of an adopted tree, `Tamper` the user's; every
other step, and every crash, leaves `Effective` and the certificate as they are.
The hypotheses are needed. An exception after the marker disowns what was published
(`LateFailure`). Two changes by the user during one transaction show as one when
it ends (`LeftAlone` excludes them). `ReplacesAll`, that no root holds its new
payload when a transaction begins, stands between the theorem and section 5's
remark on `rollback()`. TLC finds `Atomic` violated without each of the three.
For one root `ReplacesAll` is derived (`NotAccepted`): a run without
`--no-adopt` imports because the recipe does not accept what is there.

**Discovery.** `Resolving` follows a run through the bundles: while it unpacks, what has
been seen is the readable donors and the copies of the inner APKs dealt with so far
(`Unpacked`, in `Gathering`), read as the cache will have them when the run is through
(`Settled`): a copy that is there already is never written again, and one that is not
will be whole. When nothing is left that is `Candidates(listing)`, which gives
`DecidedByCard`. Its second half, that without torn copies the donors alone decide, holds
because a copy made in this run is whole. The other three properties are consequences of it. `Teams` are the
groups as sets: `GroupMembers` and `TeamHasGroup` match them with `Groups` of any
listing of the same candidates, `DecideIs` then says what is decided by the teams
that resolve (`Fit`) and what their plans are compared by (`Print`). So
`OneGame` is a fact about one team, whose APKs have one key; `ApkAndDataSuffice`
about the only team there is when there is one game: what is offered is taken under
the first ABI (`OfferedIsTaken`), and for each destination a last rule writes it
(`LastingFiles`). `NamesDoNotMatter` is more: the groups that win may differ from
one order to the other, so equal bytes must follow from equal fingerprints. With a
checksum they do; without, both items are from the one folder, and what a rule takes from one
candidate for one file is the same in every team it takes that file from
(`SameCollected`), because each team's preferred pattern is one that matches
there. What `Only` and `FlattenSeq` do to a listing is derived from the
definition of the latter, a recursive function, through its partial results (`Flattens`), with least
counterexamples in the place of induction. TLC found `Gathering` to hold on the
`eapx_resolve` run first.

**The launcher.** `LInv` follows a run's verdict back to its causes: the plan was
validated (`PlanValid`), the installed tree has its sizes (`PlanInPlace`), the
marker names it (`PlanMarked`), and after "ready" there is no journal and the
fast path stands (`ReadyRests`). `SizesTell` says that a tree with the sizes of
an accepted one is accepted: sizes are all that the fast path and the last look
compare. `SavesStay` needs `Clean`: from `check_foreign_files` on neither the live
tree nor what replaces it holds foreign files, and no journal names any as new.
`PlaysAccepted` is the hardest: the launcher tests three names, and may play a
tree whose transaction is open. `TreeSane` says that whatever may be found live
is either accepted or fails the test, and that no root is live and staged at once with
its new payload, which an undo cut off in its `rmtree` would leave torn under
the journal. That is true of one root, the shipped recipe's `data/`; with two, a
root may hold its new payload beforehand. `HandMadeAccepted` and `SavesAccepted`
are about trees the importer did not make: an old tree that passes the test is
good, and saves do not spoil a good one.

**GL.** `GInv` says that each tier's choice is made once, out of the device's
files, and kept: `MesaFirst`, `Found` (what was chosen can be opened, what was not
found is nowhere), `Linked` (what each link leads to), `Drawn` (who owns the
context, whose functions the table has) and `Uncovered` (the firmware's copies are in
front where a probe that runs found them to save tier 0's driver). A search returns the first directory of
a set of numbers, whose existence `Smallest` proves from the well-foundedness of
finite subsets, since induction cannot be cited.

**Sound.** `Base` (a player that was not realized is empty, the pump's cursor is
live or nobody, it works on realized players, an unlocked call is on a player that
exists) gives types and `CursorIsLive`; that the list never holds a player
twice lets `Destroy`'s first match be the only one. `Held` adds, for players not in
`raced`, that the device holds no more than the queue (`Covered`) and that what was
counted as heard can be popped without uncovering it (`DoneIsPlayed`); a stop of three
unlocked steps is followed through them (`DroppedInOrder`). `Sum` is a fold over a sequence:
`SumAppend`, `SumSplit` and the lemmas under them derive its algebra from the
fold's definition.

**Pthread.** `IInv`: there is at most one host mutex, numbered 1, and whoever is about
to take it has its name (`OneHost`); the bootstrap lock is held by the thread
that creates an object (`BootHeld`); who is on a condvar sleeps, on that one alone
(`Sleepers`); the holder owns the host mutex to the depth it has locked, and
nobody else does (`Mutual`). It is proved whether the game signals under its mutex or
not; that the condvar a thread sleeps on stays the one its word names is false without
`SignalLocked`, which nothing in the source grants, and is no theorem.

**Input.** `Coherent` relates the bridge's globals to what the game was told, whatever
the player does; `Follows` relates them to what is held. Each function of the
source has one lemma that it preserves `Typed` and `Coherent` and only ever lets go
(`Calmer`, `Safe`), so that a tick or a removal cannot break `Follows`; the steps
that press a control are then few. The assumption that a control is worked
on one pad only is the model's (section 2).

**The answers.** `NothingLost`, `AnswersOpen` and `AnswersWhole` need
`BuiltInside` (a request under construction belongs to the holder of the
manager's mutex), `WantedHasWorker` (a request still waited for has a worker)
and `InsidePump` (an answer or a batch exists only while the loop runs the
batch, and the game thread builds requests while rendering or in an answer that
has completed its own). The assumption on `Cancellers` is used where an answer has passed its
test and is about to complete: only another thread could close the request
there.

**One frame late** follows from `LateInv`: while `late` is not zero the flag is up and
the loop is nowhere between the exit check and the render.

**Each once.** That no module is mapped twice needs `NamesOnce` (the list of names
never repeats one) and `LoadedBehind` (every mapped module's name lies before
`next`, so that the one loaded next is new). That no constructor runs twice
needs `BuiltBehind`: what has been built is the end of `loaded` beyond `at`, in
reverse. **Code runs bound** needs `AuditedAsBound`: between its relocation and
its constructors a module's imports are bound to what the audit found, since
`loaded` no longer changes. `NeedsConstructedFirst` rests on `Ordered`: there is a
distance for each name met (`Outwards`) that does not decrease along the list nor
along the modules, exceeds the last mapped one's by at most one, stays below the
module's place, and is one at which the library really is (`Level`); and what mapped
libraries need has been met (`Met`), then mapped (`Closed`). Without the bound by one
the list need not go outwards. In a graded set, what a library needs is then one
further, hence mapped later, hence constructed earlier. That the recursive function
`Level` exists is shown by the chains of needs that lead to a library, without
induction (`LevelDistances`). TLC found the conjuncts of `Ordered` to hold on the
`loader` run first.

Only model-checked:

* every liveness property (`RecoveryEnds`, `StartsEnd`, `Refilled`,
  `EveryoneServed`, `EveryPostAnswered`, `FramesGoOn`, `RequestLeaves`, `Settles`): fairness
  and ENABLED are out of the prover's reach;
* `Atomic` with more than one root where the hypotheses of `AtomicSwitch` are not
  met: in the bounds of `eapx_crash`, with one change by the user.

## 5. Findings

Each of the first three has a run that ends in it:

1. `android/input_bridge.cpp:1848`: a button pressed in Normal Mode and let go
   in Mouse Mode is never released for the game (`input_stuck`).
2. `thunks/khronos/gles1.cpp:189`: `load_gles1_funcs` returns before single
   dispatch is looked at when there is no provider library; on a userland with
   EGL and GLES alone the wrapped calls of the Mesa tier are dropped
   (`gl_dropped`).
3. `thunks/libc/pthread.cpp:139`: the condvar's word is tested and filled without the
   lock that `src/symtab_pthread.cpp:714-726` says it needs, and that only the timed
   wait takes. A signaller that has unlocked may overwrite the condvar a waiter sleeps
   on (`pthread_unlocked`). Games that signal under the mutex are not affected.

The other claims of the sources that the code does not keep are stated beside the
properties of the runs. Each has a configuration, which is its run's with the one
property in place of the others (`FrameExit.cfg` also takes one request for three), and in which TLC finds it violated
(`tlc -config OpenSlesStopped.cfg MCOpenSles`):

* `PopsWhatIsThere` (`OpenSlesStopped.cfg`). `android/opensles.cpp:574`: `SetPlayState(STOPPED)`
  takes no lock. It clears a deque that the mixer thread is counting or popping.
  `PopsUnlessStopped` is what does hold.
* `LeavesWhenAsked` (`FrameExit.cfg`). `jni/classes/rr3_MainActivity.cpp:64`: the `finish()`
  by which `android/app_exit.h` says the engine leaves is not registered, and
  `finishActivity()` is ignored. No flag goes up and the loop renders on.
  `RequestLeaves` is what does hold.
* `SavedIfSavable` (`GlHidden.cfg`). `ports/Real Racing 3.sh:510`: `gl_mesa_unshadow` returns
  at once when `GL_MESA_DIR` is unset, which only tier 0 sets. Without a compositor the
  Mesa tier calls it (813) in vain, and a driver that the firmware's copies would make
  load stays hidden. `CopiesOnlyIfNeeded` is what does hold, of tier 0's driver.
* `AnyCombination` (`EapxCombination.cfg`). `tools/eapx.py:2007`: two containers without an APK
  are never put together, though the port's README promises any combination.
  `ApkAndDataSuffice` is what does hold.
* `HintNeverFails` (`EapxCorrupt.cfg`). `tools/eapx.py:1309`: `Archive.package` does not
  expect `zlib.error`. A cached APK torn by a power cut whose manifest does not
  decompress ends every import with a traceback, though `android_package` says that an
  unknown package is "never a reason to fail" (1373-1374).
* `NothingUnbound` (`LoaderOdd.cfg`). `loader/so_util.cpp:650`: an unknown relocation type is a
  message (`fatal_error` prints and returns), its import stays unbound, and the audit,
  which asks the tables, passes it. `KnownBound` is what does hold.

One constant away from a passing run, where TLC finds its property violated:

* `tools/eapx.py:2554`, `ForceImport = TRUE`, `Atomic`: with `--no-adopt`, a payload
  that has lost its marker may be imported over itself. An exception before a
  root's first rename makes `rollback()` take the live root for the new payload, find it
  in the stage already and remove it, with no backup to restore; what is left is the
  stage.
* `tools/eapx.py:2643`, `LateFailure = TRUE`, `Atomic`: see below.

Visible in the models without a property of their own:

* `tools/eapx.py:2643`: an exception after `write_marker` rolls back under a
  published marker. The launcher's properties hold in spite of it.
* `tools/eapx.py:2554` and `2562`: `rollback()` takes a live root for the new
  payload when old and new share its digest, and removes it. With two roots,
  one of them taken away by hand and the same package imported again, an
  exception and a kill during that removal leave a journal no run can resolve;
  `RecoveryEnds` allows for it where the user has been at the tree. The shipped
  recipe has one root, which adoption protects.
* A tree that a power cut left uncommitted, that was played and got saves, equals
  neither digest of its journal: every later import is refused until the journal
  is removed by hand. No save is lost (`SavesKept`).
* A partial hand-made install beside `data/` makes the launcher run the importer
  at every start, which answers by its fast path each time.
* `tools/eapx.py:1969`: an unpacked APK torn by a power cut has the right size and is
  reused for ever. It is left out of every later import, or is a candidate that
  reads as it may; `DecidedByCard` allows for exactly that.
* `tools/eapx.py:2648`: killed after the journal is gone and before the backup is, a
  run leaves the old payload's space taken; later runs return by the fast path
  before anything removes it.
* `src/main.cpp:511`: the comment says the frame after `finish()` is never
  issued; an answer of the pump, which runs after the check, can call it, and
  one frame follows. `OneFrameLate` states, and `AtMostOneFrameLate` proves,
  what does hold.

## 6. Not modelled, and why

Most of the repository's lines are tables and translations, and the models cover
little of them by intention: generated GL loaders and libc tables
(`thunks/khronos/glad*.h`, `thunks/libc/generated`), the JNI tables, call-by-call
conversions of types and layouts, counters and probes about GL calls, fonts,
paths, logs, and the emulator's tools. Their bugs are in data, where a table test
says more than a state machine. Texture decoders are numeric kernels over
images, out of TLC's reach in any useful size. Binary patches mean what the
game's code makes of them. `package/realracing3/eapx.py` is a second copy of the importer.

The two-lock order between `g_audio_lock` and the game's mixer, the game's
shutdown order and the lifetime of service callbacks are decided in a library
that is not here. The hazards that belong to these carry a note.

## 7. Plan

Models, most important first:

1. `ControlScheme`: the profile, its marker and the player's choice over several
   launches, when either file fails; it belongs beside `Launcher`'s `Save`.
2. `FmodPump`: the pump's thread and the two ways it ends for good, for players
   who set `REALRACING3_FMOD_OUTPUT=audiotrack`.
3. `Semaphore`: `sem_destroy` against waiters, and an abstract condvar that
   `PthreadBridge` implements.
4. `time_scale.h` and `time64.cpp` with their widths, against reference
   conversions; which clock a scaled deadline was computed from.

Proofs next: of `AtomicSwitch`, a weaker `LeftAlone` that lets the user change one
root; of `DependenciesFirst`, the weakest condition on the libraries that it needs.
