# TLA+ models of the stereo recorder

The program (`src/Blank`) is a Qt desktop application that captures images from
two USB cameras at the same moment, shows, records and replays them, calibrates
the cameras and measures points in space. This directory holds TLA+ modules for
the parts of it in which order, concurrency or failure matter, the TLC
configurations that check them on small instances, and machine-checked proofs of
most of the invariants for every value of the constants.

## 1. Inventory

| part | state | operations | talks to | what is hard |
|---|---|---|---|---|
| **group pump** `camera_group_pump.*`, `camera_pump.*` | per camera: thread, `stop_event_`, reference count; shared: `semaphore_`, `free_cameras_`, `frame_cache_`, `lock_`, the group's `stop_event_` | `Start`, `Stop`, the two `PumpRunLoop`s, `BeforeFrame`, `OnFrame`, `AfterFrame`, `NotifyNewFrame` | camera SDK; delegate = camera feed | N+1 threads and the UI thread; anonymous tokens; `TerminateThread` after 2 s; failed thread creation |
| **camera feed** `usb_camera_group.*`, `usb_camera.*` | cameras, `cached_frames_`, callback, asynchronous captures | `StartAll`, `StopAll`, `OnFrame`, `GetFrames`, `SetFrameCallback`, `CaptureFrame` | pump; windows on the UI loop | sets posted to the UI loop outlive a change of callback; time-outs |
| **recorder** `RecordWindow.cpp` | `mbPlay`, `mbRecord`, `mbStop`, `mRecordCnt`, `stop_record_waiting_threads_`, buttons, folder | preview, record / pause, stop, folder, close; `RecordFrame`; `SaveImage`, `SaveListFile`, `OnRecorderSaveDone` | feed callback; FILE1-FILE4 | two pipelines of two queues; closures of closed windows; lost frames |
| **working threads** `thread_manager.*`, `working_thread.*`, `main.cpp` | `threads_`, `threads_lock_`, message queues | `Initialize`, `PostTask`, `Shuttingdown` | recorder; end of `main` | joins under a mutex the joined threads need; windows destroyed after the threads |
| **replay** `frame_record.*`, `replayWindow.*` | records of both sides, `mReplayCursor`, slider, timers | open, play / pause, next, before, drag, time-out | the files the recorder left | frame numbers as indices; uninitialised record; timers that are forgotten |
| **main window** `mainwindow.*` | the current window, a pointer per kind, never reset | `show...Window` | every window | windows that are deleted later and preview until then |
| **calibration and measuring windows** `calibrateWindow.*`, `stereoCalWindow.*`, `MeasureMarkersWindows.*` | `mImgs`, slider, the static `COUNT`, numbered files | preview, capture, delete, slide, calibrate | feed, numerics | three copies of the code that differ; label and slider that part; numbers over restarts |
| **manual measuring** `manualWindow.*`, `marker.*` | markers of both sides, static counters | photo, click, detect, rename, delete, calculate | feed, numerics | pairing by names that several sources give |
| **tracking player** `trackingWindow.*` | `mAllTimes`, slider, timers | open, play / pause, next, before, drag | files | slider changes that run handlers; forgotten timers |
| **tracking points** `tracking_point.*` | list, name index, connections | insert, delete, move, connect | nothing yet | three structures kept consistent; an erased iterator |
| **parameters** `paras.*` | gains, exposures, observers | `SetLeftGain`, ..., `AddOb`, `RemoveOb` | cameras, main window | observers told before the store; two groups on one device |
| marker definition window, camera views, numerics, utilities | - | - | - | numeric code and painting |

Frames flow from the camera threads to the group thread, over a posted task to
the UI loop, to the record window, over FILE1/FILE2 to FILE3/FILE4, into two
image lists, and from there into the replay window. The modules cut this path
into pieces: `GroupPump` ends where the delegate is called; `CameraSession` is
about the posted task, the group it keeps alive and the window it is for;
`Recorder` starts where a frame set reaches the window and ends with the lines
of the lists; `ThreadManager` looks at the same posts from the side of the
threads; `Replay` starts with the lists in a folder.

`PROJECT.json` lists the parts with what is left out of each, every hazard with
its line, and the correspondence of definitions to source lines.

## 2. Modules

### GroupPump, FrameRounds

`GroupPump` is one life of a `CameraGroupPump`, from `StartPumping` to
`StopPumping` (`preview()` makes a new `UsbCameraGroup`, and so a new pump,
every time). `cam_pc[c]` says where the thread of camera `c` stands:

| `cam_pc` | the thread is about to |
|---|---|
| `none` | - (never created) |
| `top` | test `NeedStop` at the loop head (`camera_pump.cc:118`) |
| `before` | poll the semaphore in `BeforeFrame` (`camera_group_pump.cc:225`) |
| `token` | test `NeedStop` and start the capture (122-137) |
| `capture` | return from the camera SDK |
| `captured` | test `NeedStop` and lock `lock_` (144-149) |
| `locked` | store the frame and unlock |
| `stored` | test `NeedStop` and increment `free_cameras_` (154-157) |
| `exited` | - (`Release` was called) |

The group thread goes `top` (release tokens), `wait` (compare-and-swap loop),
`swap` (take the cache), `notify` (call the delegate). The UI thread is modelled
step by step through `Start` and `Stop`, with one wait per thread; `killed` and
`group_killed` are the threads `TerminateThread` stopped where they stood.
`held` is auxiliary: the threads that took a token and did not give it back.

A wait of two seconds may run out (`WaitExpires`) when `SlowCapture` says that a
capture can be that slow, or else only when every background thread is polling
or blocked, so that two seconds pass without anything happening. The second
case is not hypothetical: `Stop` sets the stop event of a pump, joins it, and
only at the very end sets the event `BeforeFrame` looks at.

`FrameRounds` is what the pump promises: rounds that are opened, contributed to,
delivered whole and never empty, and nothing after the end. The refinement maps
the group's program counter to the phase, the cache to what was contributed,
and the batch to what was delivered. It deliberately does *not* promise one
frame of every camera.

### Recorder

One step is one handler of the UI thread or one task of a file thread: they
share nothing but the queues. `saveQ` are the queues of FILE1 and FILE2,
`listQ` those of FILE3 and FILE4, `doneQ` the closures posted back to the UI
loop. `enabled` is the set of enabled buttons: the code relies on it (nothing
else keeps the user from changing the folder while recording). A closed window
is `window.open = FALSE`; its weak pointer is dead, but its tasks are still
queued, and another window may be opened. Auxiliary: `session`, `recorded`,
`lost`, `window.since`.

A frame is its recording, its number, its folder and whether its data is null.
Any write, read or conversion may fail and lose that frame for its side, as the
code silently does. Old windows are deleted by Qt's event loop soon after
`setCentralWidget`; the model does it before the user's next action.
`stop_record_waiting_threads_` is uninitialised until the first stop, which is
also its first use: the model says 0.

`FrameArchive` is what recording promises, with no queues, threads, closures or
buttons in it: each frame set taken is, once per side, stored in the order of
capture or lost; a stopped window takes nothing more and says "saved" when all it
took is settled; what earlier windows took may still be on its way. `Recorder`
implements it (`ImplementsArchive`): `taken` is `recorded`, `stored` the lists,
`pending` the lines of the frames in the two queues of a side, and a window is
"saving" while it waits for closures. A frame that is stored changes `list`, one
that is lost changes `lost`; its way from FILE1 to FILE3 is a stutter.

### ThreadManager

The five threads with their queues, `threads_lock_`, what a recording posts, and
the end of the program: `UiEnterShutdown` takes the lock, `UiStopSoon` /
`UiJoin` go down from IO to FILE1, `UiDestroyWindows` is the end of `main`. A
base::Thread that was told to quit leaves its loop when it found its queue empty
(`Idle`), and then ends whatever was posted since (`Exit`): that no task is lost
in this gap is a property, not an assumption. `recording` is an
over-approximation of the recorder: it may start again at once after a stop.
`StepsLeft` counts what a shutdown has still to do: tasks, exits, and the threads
of the loop in `Shuttingdown` that are not joined yet.

### Replay

`LoadList` appends what the `while (!eof())` loop makes of the empty last line: a
record whose `frame_seq` is read uninitialised. `Junk` are the values it can
have: what the same stack slot held for the line before, or any member of
`Garbage`. `open()` takes `mEndIndex` from it. A list may be empty, as
`SaveImage` creates the file before the first image is converted; its one record is
then the uninitialised one. `whole` is auxiliary: the number of frames if the open
folder holds one recording without a frame missing, whatever the extra records
of the two lists hold, and 0 otherwise. `SetSlider` is `QSlider::setValue`: it clamps, and calls
`updateImage`, hence `loadImage`, when the value changes; `overrun` records that
a vector was read past its end, after which the model stops. Cursor and speed
are in half frames (`replay_speed_` is a double, the slider truncates).

### CameraSession

Which window is shown and who owns the cameras. A window lives at an address; the
main window's pointers name addresses and are never reset, so that a pointer to a
deleted window may come to name another one. `setCentralWidget` leaves the
replaced window to a deferred deletion, and until then it goes on previewing. A
`UsbCameraGroup` lives as long as something holds a reference: `mCameras` of a
window, a closure on the UI loop, or the closure the group thread is posting
(`posting`). `Release` is the decrement: the last one runs the destructor, which
waits for the group thread; if that thread still posts, it may add a reference to
an object whose count was already zero. All of that happens only to a group that
`~ManualWindow` let go while it pumped, since it clears `mCameras` before it calls
`preview()`; `orphan` marks these groups, and `wild` the use of freed memory.

What `preview()` does inside the pump is `GroupPump`'s subject; here `StopAll` is
the wait for the group thread to be out of `PostTask`. When Qt deletes a replaced
window is up to Qt, because `main()` runs Chromium's message loop in place of
`QApplication::exec` (`main.cpp:128-130`): the model lets it happen at any time,
or never. What a window paints and the gains are left out; "calibrate" stands
for both kinds of calibrating windows, "replay" for those without cameras.

### CameraGain

`Paras` tells its observers, the cameras of every group that lives, before it
stores a new gain; a group that starts resets its devices and then applies
`para.json`. A camera without an entry in `para.json` (`NoId`) gets the default
gain and is destroyed again, and of two with the same id the later one is kept
(`Kept`), while the stored gain is the one set last (`Latest`). `missed` marks a
device that refused the last change, whose camera `para.json` gives no gain for,
or whose id another device's gain was stored under.

### CaptureGallery

The calibration window of one camera, the stereo one and the measuring one are
near copies of each other; `window` says whose copy runs, and the definitions name
where they differ: the files a capture leaves, the drawing that the measuring
window writes before it looks at what it found, the image shown after a deletion,
and the guard for the empty list. `Reopen` and `Restart` keep the files; only
`Restart` sets the static `COUNT` back.

### ManualMarkers

A marker is its name. Names come from clicks (static counters that outlive the
window), from detectors (counted from 1 at every detection) and from the user.
`autoDetectLights` is a stutter: its groups are only ever compared with groups
that already exist, and none does. Without pictures each of the three detectors
may end the program (`DetectNothing`). `origin` is auxiliary: where the names come from.

### TrackingPlayer

The slider is the cursor, and each change of it runs `updateImage`, also the three
in `open()`, which set minimum, maximum and value after the new index file was
read. `lost` says that `mAllTimes` was read out of bounds, which ends the model;
an index file that counts down always does that. An index file without a complete
line, for which `open()` calls `front()` of an empty vector, is excluded by
`RecordingsAssumption`.

### TrackingPoints

`TrackingPointList` under its public methods. `Delete(name)` reads the name
through an iterator that was just erased: the name is still there; or it is not
and the map keeps its entry (`kept`); or the node holds the name of another point
by now, whose map entry is erased in its place (`torn`); or it cannot be read at
all. The model has a disjunct for each. A name in `torn` may be inserted again
while it is still listed, so `PointsAgree` leaves these names out, and only these.

### MCWindows

`CaptureGallery`, `ManualMarkers`, `TrackingPlayer`, `TrackingPoints` and `CameraGain`
share no state; each behaviour of `MCWindows` runs one of them.

## 3. Runs

| run | instance | checks |
|---|---|---|
| `pump_stop` | 2 cameras, slow captures, failing starts, fairness | `TypeOK`, `LeaksAreTheKilled`, `StopIsFinal`, `RoundCompletes`, `StopReturns` |
| `pump_rounds` | 3 cameras, prompt captures, failing starts | `TokenConservation`, `CollectorAlone`, `OnlyPollersKilled`, `ImplementsRounds` |
| `pump_full_set` | 2 cameras | violation of `FullFrameSet` |
| `pump_stop_leak` | 2 cameras | violation of `ContextsReleased` |
| `recorder` | 2 folders, 2 frame sets, 2 recordings, 2 windows, fairness | `TypeOK`, `SavedMeansDrained`, `WaitingIsClosures`, `OneFolder`, `StopIsAcknowledged`, `StopDrains`, `ImplementsArchive` |
| `recorder_null_frame` | 1 frame set with null data | violation of `NullFrameSurvived` |
| `threads` | 3 tasks per side, fairness | `TypeOK`, `EveryTaskRun`, `JoinedThreadGoesOn`, `ShutdownOutcome`, `QuietShutdownReturns`, `ShutdownAdvances` |
| `threads_late_post` | 2 tasks per side | violation of `PostedToLiveThread` |
| `replay` | 6 folders, 3 speeds, 2 timers, fairness | `TypeOK`, `OverrunExplained`, `TimersExplained`, `PlayWraps` |
| `replay_first_frame` | the same folders, 1 speed | violation of `OpenShowsFirst` |
| `session` | 3 addresses, 2 groups, 3 kinds of windows, 2 posted frame sets, fairness | `TypeOK`, `FramesReachTheLiving`, `PumpsExplained`, `PointerNamesWindow`, `StoppedGroupFreed`, `StoppedGroupDrains` |
| `windows` | 4 captures; 3 names, 3 markers a side; 5 recordings, 2 timers; 3 points; 4 devices, 2 groups, 2 gains | `WindowsTypeOK`, `ListedComplete`, `GalleryOverrun`, `SelectionLag`, `PairingIsABijection`, `PlayerShowsSlider`, `PointsAgree`, `GainInSync` |

**What the passing runs show.** The pump's three-way hand-shake (semaphore,
counter, lock) is sound: rounds do not mix, tokens are neither made nor lost
while the pump runs, `Stop` always returns and leaves nothing running, and with
prompt captures `TerminateThread` only hits threads that poll. "Saved" is said
only after the last line was written, and a window's count of closures is never
disturbed by another window's; the whole of recording implements `FrameArchive`.
Nothing posted to a working thread is dropped at shutdown, and the thread that is
joined can always go on, but for the deadlock below. A complete recording is read
past its records in one case only: the number that was never set in the extra
record of the left list, which becomes the last index, is no index of a record
(`OverrunExplained`). A frame set that is delivered late finds its group alive,
and no recording callback outlives its window; every pump has an owner and a
stopped group is freed, with `~ManualWindow` as the one exception. The files of a
listed image stay there over any sequence of captures, deletions, reopenings and
restarts. The tracking player shows the slider's frame however many timers it
forgot, and the gain the user sees is the camera's.

**What the violations show** (each is a finding in `PROJECT.json`, with the line
of the repository it contradicts):

1. *A frame set may lack a camera.* The tokens of a round are anonymous; a fast
   camera takes two. `NotifyNewFrame` logs the size and delivers the set, and
   `RecordFrame` then drops the whole set (`frames.size() < 2`).
2. *Every stop may leak.* A thread polling in `BeforeFrame` cannot see the pump's
   stop event, is terminated after two seconds and never calls `Release`.
3. *A failed capture ends a recording process.* Its frame has null data, which
   `SaveImage` dereferences.
4. *Leaving while recording posts to dead threads.* `~MainWindow` runs after
   `NotifyWorkingThreadShutdown`.
5. *The first frame is never shown.* Frame numbers start at 1 and are used as
   indices.

`threads` holds a sixth, within a property that passes: `ShutdownOutcome` says that
shutdown returns *or* deadlocks, a file thread waiting for the mutex its joiner
holds. `QuietShutdownReturns` says when it cannot: FILE1 and FILE2 idle. The
run turns TLC's deadlock check off for that reason. `windows` has it off as well,
because a window's model ends where the code reads out of bounds or throws; every
other run has it on.

Five findings more are in the exceptions that passing properties name: a complete
recording is read out of bounds when the uninitialised number that becomes
`mEndIndex` is no index of a record (`OverrunExplained`; with 9 in it, `next()` leaves
the two records of a recording of one frame); `~ManualWindow` leaves its pump running
(`PumpsExplained`); the calibration windows show one image after a deletion and delete another one next (`SelectionLag`); the
copies of `deleteImg` read past the list (`GalleryOverrun`); markers with repeated
names share a partner (`PairingIsABijection`).

**Bounds, and why they suffice.** Two cameras are what `preview()` insists on; the
third shows that nothing depends on two, and the proofs cover any finite number.
The pump model is finite without bounds. In `Recorder` the windows, recordings
and frame sets are bounded by 2: two of each give a closed window whose closures
arrive at the next one, a second recording behind an unfinished first one, and
two frames of which one is lost. `ThreadManager`: three tasks fill a queue
behind a task in progress and a closure. `Replay`: the folders are a complete
recording, one with a single frame, two recordings in one list (the code appends
and starts again at 1), one with a line lost on one side, one with a missing
image, and one with empty lists; garbage values before the first record, at it,
and past every list; half, normal and double speed; two timers, the one in use and the one `open()` forgot. A speed of zero
or less (possible in `para.json`) is left out. `session`: with three addresses a
new window can take the place of a dead one while a third one waits to be deleted;
two groups are the old and the new one; two closures let one overtake a stop and
another an end of a window. `windows`: four captures allow a deletion in the middle
and a number that is used again; the recordings are two of different length that
start at 1, one that starts elsewhere, one with a line missing, and one that counts
down; of the four cameras one is the right one, two share an id, and one has no
entry in `para.json`.

**Symmetry** (the cameras are interchangeable, `CameraSymmetry`) is used where a
run checks an invariant only; temporal properties get the full state space.

**Fairness.** Weak fairness of every camera thread, the group thread, the file
threads and of the UI thread inside `Start`, `Stop`, `Shuttingdown` and for posted
closures: the operating system schedules threads that can run, and a message
loop runs what is queued. A capture does return (the SDK has a time-out of its
own). Timers that run fire. In `session` the UI loop runs posted closures with
strong fairness, since it is not at its loop while a destructor waits, and waits
of the destructor and of `PostTask` end. Nothing is assumed of the user, of frames
arriving, nor of when Qt deletes a window.

**Mutants.** Every property of a passing run has a faulty variant of an action in
the same module (named for the fault, kept in a section of its own) that breaks
it: a missing reset, a barrier one too early, a forgotten signal, a closure that
is dropped, a lock that is not taken, a timer that is kept.

A run is `tlc -config <run>.cfg <module>`, with the module `PROJECT.json` names for
it (`MCGroupPump`, `Recorder`, `ThreadManager`, `MCReplay`, `CameraSession` or
`MCWindows`); the proofs are checked with `tlapm <module>.tla` for each module whose
name ends in `Proofs`, and for `SequenceLemmas`.

## 4. Proofs

### GroupPumpProofs

For every finite, non-empty set of cameras (`PumpAssumption`), and whatever
`SlowCapture` and `StartMayFail` are:

| theorem | says |
|---|---|
| `TypeCorrect` | `Spec => []TypeOK` |
| `TokensConserved` | `Spec => []TokenConservation` |
| `BarrierHolds` | `Spec => []CollectorAlone` |
| `LeaksExplained` | `Spec => []LeaksAreTheKilled` |
| `StopFinal` | `Spec => StopIsFinal` |
| `KilledArePollers` | `Spec => []OnlyPollersKilled` |
| `RoundsImplemented` | `Spec => ImplementsRounds` |

None of these is inductive by itself. The inductive invariant `PumpInv` is the
conjunction of named parts, each preserved by a lemma of its own:

- `Types`: types without the bounds 0..N of the counters, which are consequences;
- `Holders`: which program counters go with holding a token and holding `lock_`;
- `Tokens`: semaphore + holders + `free_cameras_` is N in an open round, 0 else;
- `Refs`: the references of a pump's context in terms of its thread and its owner;
- `UiProgress`: how far `Start` or `Stop` has come, in terms of `todo` and
  `joining`: who can still be running after a join;
- `GroupProgress`: when the group thread can be where it is, given the UI;
- `CacheOfRound`: the cache is empty when no round is open, and not empty when
  all tokens have come back.

`Tokens` needs `Holders` (a camera frees only what it took) and the cardinality of
`held` under adding and removing one element (`CountFacts`, from
`FiniteSetTheorems`). `CollectorAlone` follows: with N tokens counted there are
no holders left. The refinement needs `CacheOfRound` twice: `Deliver` wants a
non-empty set, `Open` an empty one. `StopIsFinal` needs that each thread has
exited or was terminated once it was joined. `KilledArePollers` has an invariant of
its own on top of `PumpInv` and `CollectorAlone`: `Told`, that a thread was told to
stop before it is joined, rules out that the thread waits for `lock_`; and with
`lock_` free and the event set the group thread always gets to its exit.

### RecorderProofs

For every set of folders and every bound on frames, recordings and windows:

| theorem | says |
|---|---|
| `TypeTheorem` | `Spec => []TypeOK` |
| `PreviewTheorem` | a window records only while it previews (`RecordNeedsPreview`) |
| `FolderTheorem` | `Spec => []OneFolder` |
| `AccountingTheorem` | a recorded frame is, on each side, queued, listed or lost (`FrameAccounting`) |
| `OrderTheorem` | the lists are in the order of capture (`ListsInOrder`) |
| `WaitingTheorem` | `Spec => []WaitingIsClosures` |
| `DrainedTheorem` | `Spec => []SavedMeansDrained` |
| `DrainTheorem` | `Spec => StopDrains` |
| `ArchiveTheorem` | `Spec => ImplementsArchive` |

One inductive invariant, `Inv`, carries the invariants among them:

- `Types`: the types without the bounds;
- `ButtonsInv`: which buttons are enabled for which `mbPlay`, `mbRecord`, `mbStop`:
  the code's only guard against, say, a new folder while recording;
- `FolderInv`: the recorded frames are of this recording, in its folder, or of an
  earlier one;
- `ContentInv`: what is queued or listed was recorded, and nothing is missing;
- `OrderInv`: each queue is in the order of capture, and so is the way from one to
  the next and into the list;
- `ClosureInv`: the closures of the open window in the three stages, counted, and
  nothing of that window behind its closure.

`DrainedTheorem` needs the order: the closure was posted after the window's last
frame and the queues do not overtake. `SequenceLemmas` has what is needed of
`Head`, `Tail`, `Append`, concatenation and counting in a sequence.

`TypeTheorem` adds two invariants on top: `Counters`, where `mRecordCnt`
is at most the number of frame sets recorded (each is new, by `FolderInv`) and
`waiting` is not decremented below zero (a closure of the window is on its way, by
`ClosureInv`), and `Origins`, that every closure comes from a window. It needs
`MaxWindows` not to be zero, as the first window is open from the start.

`DrainTheorem` is the safety half of `StopIsAcknowledged`: while a stopped window
waits, `Backlog` (three for each task in FILE1 or FILE2, two for each in FILE3 or
FILE4, one for each closure on the UI loop) falls with every step that is not the
window's end. A number cannot fall for ever, so only fairness is missing. It
needs `ButtonsInv`: nothing is recorded while the window waits.

`ArchiveTheorem` maps every step of `Recorder` to a step of `FrameArchive` or to a
stutter. `ListsInOrder`, `FrameAccounting` and what `SavedMeansDrained` says of the
moment of "saved" are consequences of it that `FrameArchive` states in its own
words, and the proof uses exactly their invariants: `Store` and `Lose` take away
a frame that is pending once, and the one stored is the oldest, by `OrderInv`;
`Acknowledge` needs `ClosureInv`; a new frame comes after all that were taken by
`FolderInv`, and after those of earlier windows by `Fresh` (a window that records
has started a recording of its own), an invariant added for it.

### ThreadManagerProofs

For every number of tasks, `TypeTheorem` (`TypeOK`), `EveryTaskRunTheorem`
(`EveryTaskRun`), `SuccessorThereTheorem` (a task of FILE1 or FILE2 finds the thread
of its successor: `SuccessorThere`), `JoinedTheorem` (`JoinedThreadGoesOn`),
`AdvanceTheorem` (`ShutdownAdvances`) and `DeadlockTheorem` (a thread that waits for
`threads_lock_` while it is joined does so for ever: `DeadlockIsFinal`). The
invariant has `Phase` (who holds the lock, and where the loop of `Shuttingdown` is),
`Life` (a thread is told to quit, quits, dies and is reset, in this order, as far as
the loop has come), `Queued` (the quit task is in the queue until it is run, and the
rest are the tasks accepted and not yet run) and `Sides` (what was posted where).

The last three are what `ShutdownOutcome` rests on: every step of a shutdown makes
`StepsLeft` smaller, the joined thread can take one unless it is dead or waits for
the lock, and the latter is final. What is left to TLC is only that a thread that
can go on does.

### CameraProofs

`SessionTypeTheorem`, `FramesTheorem`, `PumpsTheorem` and `PointersTheorem` hold for
every set of addresses, groups and windows and every number of closures. The
invariant adds to `TypeOK` and `FramesReachTheLiving`: the current window lives, and
the pointer of its kind names it (`CurrentLives`); a previewing window has a group
of its own that lives and is not being destroyed (`PreviewsHold`); a pump that
runs has an owner unless orphaned, a callback is that of the record window which
owns the group, and a dead group neither pumps nor posts (`GroupsHeld`).

`LeaksTheorem` is the other side of `FramesTheorem`: a group lives no longer than
something refers to it (`NoGroupLeaks`). Its invariant, `PostersPump`, is about the
destructor: it waits only for a pump that runs, and a closure that pump has posted
meanwhile cannot be run before the destructor is done. `GroupDrainsTheorem`
(`StoppedGroupDrains`) is the safety half of `StoppedGroupFreed`: the tasks up to the
last closure of a stopped group never become more, and each turn of the UI loop
takes one away. It needs `LeaksTheorem`: a stopped group that lives has a closure.

### WindowProofs, TrackingProofs

`ListedCompleteTheorem`, `GalleryOverrunTheorem` and `SelectionLagTheorem` (any
number of captures), `PairingTheorem` (any number of markers and names),
`PlayerTheorem` (any recordings and timers) and `PointsTheorem` (any set of names). The
three about the gallery share one inductive invariant: that a deletion leaves the
files of the other images needs the numbers to increase, and where the label is
depends on the slider; added is `Ahead`, that an image is not numbered below its
place, so the list is not longer than `count`. `MarkersInv` adds that clicked names
do not exceed their counter, `PlayerInv` that a timer runs while `mbPlay`.
`GainInSyncTheorem` holds for any devices, groups, gains and entries of `para.json`.

These are theorems about each component. `WindowsTypeTheorem` (`WindowsTypeOK`) and
`WindowsTheorem` (the seven others) say the same of `WindowsSpec`, the specification
the run `windows` checks: each of its behaviours is one of one component, whose
variables keep their initial values otherwise (`ComponentsRun`).

### ReplayProofs

For any lists in the folders, any speeds and number of timers: `TypeTheorem`
(`TypeOK`), `OverrunTheorem` (`OverrunExplained`), `SidesTheorem`
(`SidesInStep`) and `TimersTheorem` (`TimersExplained`). The invariant has two parts
besides `TypeOK`. `TimersHeld`: while something is played `mTimer` runs and is not
a forgotten timer, so a pause deletes the right one. `CompleteHeld`: with a complete
recording the two sides hold the same records and one more, and if the number in the
left list's extra record is an index of one, so is every value of the slider's range.
Nothing is assumed of the other list's extra record, nor for `SidesInStep` of either.
The hard step is `open()`: while it sets the slider to its new range Qt clamps the
value, which calls the handler with the new records and a range half of which is
still that of the old recording (`OpenLoadedFacts`).

### Only model-checked

Liveness (`RoundCompletes`, `StopReturns`, `StopIsAcknowledged`, `ShutdownOutcome`,
`QuietShutdownReturns`, `PlayWraps`, `StoppedGroupFreed`): under fairness it is out of
the prover's reach. Every other property of a passing run has its theorem.
The invariants of section 4 that no run lists (`RecordNeedsPreview`,
`FrameAccounting`, `ListsInOrder`, `SuccessorThere`, `DeadlockIsFinal`, `SidesInStep`,
`NoGroupLeaks`) follow from a listed property or support one.

## 5. Not modelled, and why

- The numeric code (`CameraCalibration`, `StereoReconstructor`, `VirtualCamera`,
  `Utilities`, `calibrate()` of the calibration windows, the detectors' image
  processing) is floating-point work: nothing for a model checker.
- `UsbCameras`, `UsbCamera.cpp` and `measure_markers` are not reached by the build.
- `UsbCamera::CaptureFrameAsync` and `UsbCameraGroup::CaptureFrame`: nothing calls them.
- The marker definition window: lists that are reordered and that nothing reads.
- The camera and zoom views, `track_info_list`, layout, painting and formatting;
  time stamps and the frame rate.
- Reading `para.json` beyond the gains it holds; a camera id other than 0 and 1, on
  which the loop of `RecordFrame` would not advance (`RecordWindow.cpp:606`).
- `src/dependencies` is third-party and by far the larger part of the repository
  (the map covers little of it by design); `ThreadManager` models the one loop it needs.

## 6. What could follow

1. A composition of `GroupPump` and `CameraSession`: `StopAll` as the pump's real stop.
2. What of `FrameArchive` is left when `ThreadManager`'s shutdown ends a recording.
3. The safety halves of `StopReturns` and `PlayWraps`, as those of the other three.
