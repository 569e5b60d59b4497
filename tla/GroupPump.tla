------------------------------ MODULE GroupPump ------------------------------
(***************************************************************************)
(* The synchronised capture of src/Blank/camera_group_pump.cc and          *)
(* src/Blank/camera_pump.cc: one life of a CameraGroupPump, from           *)
(* StartPumping to StopPumping.                                            *)
(*                                                                         *)
(*  - one thread per camera (CameraPump::Context::PumpRunLoop): take a     *)
(*    token of the semaphore, query the image, put it into frame_cache_    *)
(*    under lock_, increment free_cameras_, start over;                    *)
(*  - the group thread (CameraGroupPump::Context::PumpRunLoop): release    *)
(*    one token per camera, spin until free_cameras_ equals the number of  *)
(*    cameras, take the whole cache and hand it to the delegate;           *)
(*  - the UI thread, which starts and stops all of them.  Stop waits two   *)
(*    seconds for each thread and then calls TerminateThread.              *)
(*                                                                         *)
(* A NeedStop() test is one step with the statement that follows it: the   *)
(* flag is only ever set, and nothing lies between the two.                *)
(***************************************************************************)
EXTENDS Integers, FiniteSets

CONSTANTS
  Cameras,         \* the ids of UsbCameraGroup::cameras_
  NoThread,        \* "nobody": lock_ is free, the UI waits for no camera
  SlowCapture,     \* TRUE: a capture may outlast the two seconds of a wait
  StartMayFail     \* TRUE: CreateThread and CreateSemaphore may fail

ASSUME PumpAssumption ==
  /\ IsFiniteSet(Cameras)
  /\ Cameras # {}
  /\ NoThread \notin Cameras
  /\ SlowCapture \in BOOLEAN
  /\ StartMayFail \in BOOLEAN

VARIABLES
  cam_pc,        \* where the thread of each CameraPump stands
  cam_stop,      \* CameraPump::Context::stop_event_
  cam_refs,      \* reference count of each CameraPump::Context
  group_pc,      \* where the group thread stands
  group_stop,    \* CameraGroupPump::Context::stop_event_
  semaphore,     \* count of semaphore_
  sem_open,      \* semaphore_ is a live handle
  free_cameras,  \* free_cameras_
  frame_cache,   \* frame_cache_: no frame, one with data, one with null data
  lock,          \* the holder of lock_
  batch,         \* the frame set NotifyNewFrame took last
  killed,        \* camera threads ended by TerminateThread
  group_killed,  \* the group thread was ended by TerminateThread
  ui,            \* where the UI thread stands
  todo,          \* cameras the UI loop over the pumps still has to visit
  joining,       \* the camera whose thread the UI waits for
  held           \* auxiliary: threads that took a token and never gave it back

camVars   == <<cam_pc, cam_stop, cam_refs>>
groupVars == <<group_pc, group_stop, group_killed, batch>>
syncVars  == <<semaphore, sem_open, free_cameras, frame_cache, lock, held>>
uiVars    == <<ui, todo, joining, killed>>
vars      == <<camVars, groupVars, syncVars, uiVars>>

camera_count == Cardinality(Cameras)

Frames == {"none", "data", "null"}
CamPC  == {"none", "top", "before", "token", "capture", "captured", "locked",
           "stored", "exited"}
GroupPC == {"none", "top", "wait", "swap", "notify", "exited"}
UiPC == {"idle", "starting", "thread", "running", "failed",
         "stopping", "joining", "stopped"}

TypeOK ==
  /\ cam_pc \in [Cameras -> CamPC]
  /\ cam_stop \in [Cameras -> BOOLEAN]
  /\ cam_refs \in [Cameras -> 0..2]
  /\ group_pc \in GroupPC
  /\ group_stop \in BOOLEAN
  /\ semaphore \in 0..camera_count
  /\ sem_open \in BOOLEAN
  /\ free_cameras \in 0..camera_count
  /\ frame_cache \in [Cameras -> Frames]
  /\ lock \in Cameras \union {NoThread}
  /\ batch \in [Cameras -> Frames]
  /\ killed \in SUBSET Cameras
  /\ group_killed \in BOOLEAN
  /\ ui \in UiPC
  /\ todo \in SUBSET Cameras
  /\ joining \in Cameras \union {NoThread}
  /\ held \in SUBSET Cameras

NoFrames == [c \in Cameras |-> "none"]
Collected(frames) == {c \in Cameras : frames[c] # "none"}

Init ==
  /\ cam_pc = [c \in Cameras |-> "none"]
  /\ cam_stop = [c \in Cameras |-> FALSE]
  /\ cam_refs = [c \in Cameras |-> 0]
  /\ group_pc = "none"
  /\ group_stop = FALSE
  /\ semaphore = 0
  /\ sem_open = FALSE
  /\ free_cameras = 0
  /\ frame_cache = NoFrames
  /\ lock = NoThread
  /\ batch = NoFrames
  /\ killed = {}
  /\ group_killed = FALSE
  /\ ui = "idle"
  /\ todo = Cameras
  /\ joining = NoThread
  /\ held = {}
-----------------------------------------------------------------------------
\* A terminated thread stays where it was, and takes no step.
CamAt(c, pc) == cam_pc[c] = pc /\ c \notin killed
CamGoto(c, pc) == cam_pc' = [cam_pc EXCEPT ![c] = pc]
GroupAt(pc) == group_pc = pc /\ ~group_killed

\* A wait of two seconds runs out.  Either a capture was slow, or no thread
\* but the UI has anything left to do but poll.
CamIdle(c) ==
  \/ c \in killed
  \/ cam_pc[c] \in {"none", "exited"}
  \/ cam_pc[c] = "before" /\ (~sem_open \/ semaphore = 0) /\ ~group_stop
  \/ cam_pc[c] = "captured" /\ lock # NoThread /\ ~cam_stop[c]
GroupIdle ==
  \/ group_killed
  \/ group_pc \in {"none", "exited"}
  \/ group_pc = "wait" /\ free_cameras # camera_count /\ ~group_stop
  \/ group_pc = "swap" /\ lock # NoThread
WaitExpires == SlowCapture \/ (GroupIdle /\ \A c \in Cameras : CamIdle(c))
-----------------------------------------------------------------------------
(***************************************************************************)
(* Faulty variants of the actions below, one per property: what the runs   *)
(* must notice.  No specification of this module uses them.                *)
(***************************************************************************)
\* BeforeFrame goes on although the poll found no token.
CamTakeTokenUnchecked(c) ==
  /\ CamAt(c, "before")
  /\ semaphore' = semaphore - 1
  /\ held' = held \union {c}
  /\ CamGoto(c, "token")
  /\ UNCHANGED <<cam_stop, cam_refs, groupVars, sem_open, free_cameras,
                 frame_cache, lock, uiVars>>

\* The reference is released only when BeforeFrame ended the loop.
CamExitUnbalanced(c) ==
  /\ \/ /\ \E pc \in {"top", "token", "captured", "stored"} :
              CamAt(c, pc) /\ cam_stop[c]
        /\ UNCHANGED cam_refs
     \/ /\ CamAt(c, "before") /\ group_stop
        /\ cam_refs' = [cam_refs EXCEPT ![c] = @ - 1]
  /\ CamGoto(c, "exited")
  /\ UNCHANGED <<cam_stop, groupVars, syncVars, uiVars>>

\* One token too few.
GroupReleaseTooFew ==
  /\ GroupAt("top")
  /\ ~group_stop
  /\ semaphore' = semaphore + camera_count - 1
  /\ batch' = NoFrames
  /\ group_pc' = "wait"
  /\ UNCHANGED <<camVars, group_stop, group_killed, sem_open, free_cameras,
                 frame_cache, lock, held, uiVars>>

\* A load in the place of the compare-and-swap: the counter is not reset.
GroupCollectNoReset ==
  /\ GroupAt("wait")
  /\ free_cameras >= camera_count
  /\ group_pc' = "swap"
  /\ UNCHANGED <<camVars, group_stop, group_killed, batch, syncVars, uiVars>>

\* The round is closed one camera early.
GroupCollectEarly ==
  /\ GroupAt("wait")
  /\ free_cameras >= camera_count - 1
  /\ free_cameras' = 0
  /\ group_pc' = "swap"
  /\ UNCHANGED <<camVars, group_stop, group_killed, batch, semaphore,
                 sem_open, frame_cache, lock, held, uiVars>>

\* The cache is copied, not swapped: old frames stay in it.
GroupSwapCopies ==
  /\ GroupAt("swap")
  /\ lock = NoThread
  /\ batch' = frame_cache
  /\ group_pc' = "notify"
  /\ UNCHANGED <<camVars, group_stop, group_killed, syncVars, uiVars>>

\* WaitForSingleObject(INFINITE), as UsbCameras does.
UiJoinPumpForEver(c) ==
  /\ joining = c
  /\ cam_pc[c] = "exited"
  /\ todo' = todo \ {c}
  /\ joining' = NoThread
  /\ UNCHANGED <<camVars, groupVars, syncVars, ui, killed>>

\* The group is never told to stop.
UiSignalGroupMissed ==
  /\ ui = "stopping"
  /\ joining = NoThread
  /\ todo = {}
  /\ cam_refs' = [c \in Cameras |-> cam_refs[c] - 1]
  /\ ui' = "joining"
  /\ UNCHANGED <<cam_pc, cam_stop, groupVars, syncVars, todo, joining, killed>>

\* Stop does not wait for the group thread.
UiJoinGroupNoWait ==
  /\ ui = "joining"
  /\ ui' = "stopped"
  /\ UNCHANGED <<camVars, groupVars, syncVars, todo, joining, killed>>
-----------------------------------------------------------------------------
(***************************************************************************)
(* The camera threads.                                                     *)
(***************************************************************************)
\* The loop head: NeedStop, then into BeforeFrame.
CamLoop(c) ==
  /\ CamAt(c, "top")
  /\ ~cam_stop[c]
  /\ CamGoto(c, "before")
  /\ UNCHANGED <<cam_stop, cam_refs, groupVars, syncVars, uiVars>>

\* BeforeFrame: a poll of the semaphore that finds a token.  The first pumps
\* run before the semaphore exists; WaitForSingleObject(NULL) fails and the
\* loop polls on.
CamTakeToken(c) ==
  /\ CamAt(c, "before")
  /\ sem_open
  /\ semaphore > 0
  /\ semaphore' = semaphore - 1
  /\ held' = held \union {c}
  /\ CamGoto(c, "token")
  /\ UNCHANGED <<cam_stop, cam_refs, groupVars, sem_open, free_cameras,
                 frame_cache, lock, uiVars>>

\* WillRead allocates the buffer; CaptureFrameSync is entered.
CamBeginCapture(c) ==
  /\ CamAt(c, "token")
  /\ ~cam_stop[c]
  /\ CamGoto(c, "capture")
  /\ UNCHANGED <<cam_stop, cam_refs, groupVars, syncVars, uiVars>>

\* CameraQueryImage returns, with an image or with an error.
CamEndCapture(c) ==
  /\ CamAt(c, "capture")
  /\ CamGoto(c, "captured")
  /\ UNCHANGED <<cam_stop, cam_refs, groupVars, syncVars, uiVars>>

\* OnFrame takes lock_ ...
CamLock(c) ==
  /\ CamAt(c, "captured")
  /\ ~cam_stop[c]
  /\ lock = NoThread
  /\ lock' = c
  /\ CamGoto(c, "locked")
  /\ UNCHANGED <<cam_stop, cam_refs, groupVars, semaphore, sem_open,
                 free_cameras, frame_cache, held, uiVars>>

\* ... and stores the frame.  A failed capture is stored as well, with null
\* data, over whatever this camera stored before.
CamStore(c) ==
  /\ CamAt(c, "locked")
  /\ \E frame \in Frames \ {"none"} :
       frame_cache' = [frame_cache EXCEPT ![c] = frame]
  /\ lock' = NoThread
  /\ CamGoto(c, "stored")
  /\ UNCHANGED <<cam_stop, cam_refs, groupVars, semaphore, sem_open,
                 free_cameras, held, uiVars>>

\* AfterFrame: this camera is free again.
CamFree(c) ==
  /\ CamAt(c, "stored")
  /\ ~cam_stop[c]
  /\ free_cameras' = free_cameras + 1
  /\ held' = held \ {c}
  /\ CamGoto(c, "top")
  /\ UNCHANGED <<cam_stop, cam_refs, groupVars, semaphore, sem_open,
                 frame_cache, lock, uiVars>>

\* Every way out of the loop: a NeedStop() that finds the pump's own event
\* set, or BeforeFrame that finds the group's.  OnDone does nothing; the
\* reference taken for the thread is released.  A token that was taken is
\* not given back.
CamExit(c) ==
  /\ \/ \E pc \in {"top", "token", "captured", "stored"} :
          CamAt(c, pc) /\ cam_stop[c]
     \/ CamAt(c, "before") /\ group_stop
  /\ cam_refs' = [cam_refs EXCEPT ![c] = @ - 1]
  /\ CamGoto(c, "exited")
  /\ UNCHANGED <<cam_stop, groupVars, syncVars, uiVars>>

CamStep(c) ==
  \/ CamLoop(c)
  \/ CamTakeToken(c)
  \/ CamBeginCapture(c)
  \/ CamEndCapture(c)
  \/ CamLock(c)
  \/ CamStore(c)
  \/ CamFree(c)
  \/ CamExit(c)
-----------------------------------------------------------------------------
(***************************************************************************)
(* The group thread.                                                       *)
(***************************************************************************)
\* ReleaseSemaphore fails, and changes nothing, past the maximum count.
GroupRelease ==
  /\ GroupAt("top")
  /\ ~group_stop
  /\ semaphore' = IF semaphore + camera_count <= camera_count
                    THEN semaphore + camera_count ELSE semaphore
  /\ batch' = NoFrames
  /\ group_pc' = "wait"
  /\ UNCHANGED <<camVars, group_stop, group_killed, sem_open, free_cameras,
                 frame_cache, lock, held, uiVars>>

\* The compare-and-swap that ends the round.
GroupCollect ==
  /\ GroupAt("wait")
  /\ free_cameras = camera_count
  /\ free_cameras' = 0
  /\ group_pc' = "swap"
  /\ UNCHANGED <<camVars, group_stop, group_killed, batch, semaphore,
                 sem_open, frame_cache, lock, held, uiVars>>

\* NotifyNewFrame takes the whole cache under lock_.  A set of the wrong size
\* is logged and delivered all the same.
GroupSwap ==
  /\ GroupAt("swap")
  /\ lock = NoThread
  /\ batch' = frame_cache
  /\ frame_cache' = NoFrames
  /\ group_pc' = "notify"
  /\ UNCHANGED <<camVars, group_stop, group_killed, semaphore, sem_open,
                 free_cameras, lock, held, uiVars>>

\* delegate_->OnFrame posts the set to the loop the group was born on.
GroupNotify ==
  /\ GroupAt("notify")
  /\ group_pc' = "top"
  /\ UNCHANGED <<camVars, group_stop, group_killed, batch, syncVars, uiVars>>

\* The group sees its stop event, at the loop head or while it waits: after a
\* compare-and-swap that failed, and the counter may be full by now.
GroupExit ==
  /\ GroupAt("top") \/ GroupAt("wait")
  /\ group_stop
  /\ group_pc' = "exited"
  /\ UNCHANGED <<camVars, group_stop, group_killed, batch, syncVars, uiVars>>

GroupStep ==
  \/ GroupRelease
  \/ GroupCollect
  \/ GroupSwap
  \/ GroupNotify
  \/ GroupExit
-----------------------------------------------------------------------------
(***************************************************************************)
(* The UI thread: Start.                                                   *)
(***************************************************************************)
UiStart ==
  /\ ui = "idle"
  /\ ui' = "starting"
  /\ UNCHANGED <<camVars, groupVars, syncVars, todo, joining, killed>>

\* CameraPump::Context::Start, whose result the group ignores.
UiStartPump(c) ==
  /\ ui = "starting"
  /\ c \in todo
  /\ \/ /\ CamGoto(c, "top")
        /\ cam_refs' = [cam_refs EXCEPT ![c] = 2]
     \/ /\ StartMayFail
        /\ cam_refs' = [cam_refs EXCEPT ![c] = 1]
        /\ UNCHANGED cam_pc
  /\ cam_stop' = [cam_stop EXCEPT ![c] = FALSE]
  /\ todo' = todo \ {c}
  /\ UNCHANGED <<groupVars, syncVars, ui, joining, killed>>

\* The semaphore is created, and the two counters are reset, after the
\* camera threads run.
UiCreateSemaphore ==
  /\ ui = "starting"
  /\ todo = {}
  /\ \/ /\ sem_open' = TRUE
        /\ semaphore' = 0
        /\ group_stop' = FALSE
        /\ free_cameras' = 0
        /\ ui' = "thread"
     \/ /\ StartMayFail
        /\ ui' = "failed"
        /\ UNCHANGED <<sem_open, semaphore, group_stop, free_cameras>>
  /\ UNCHANGED <<camVars, group_pc, group_killed, batch, frame_cache, lock,
                 held, todo, joining, killed>>

\* When the group thread cannot be created the semaphore is closed; the
\* camera threads stay, polling a handle that no longer exists.
UiCreateThread ==
  /\ ui = "thread"
  /\ \/ /\ group_pc' = "top"
        /\ ui' = "running"
        /\ UNCHANGED sem_open
     \/ /\ StartMayFail
        /\ sem_open' = FALSE
        /\ ui' = "failed"
        /\ UNCHANGED group_pc
  /\ UNCHANGED <<camVars, group_stop, group_killed, batch, semaphore,
                 free_cameras, frame_cache, lock, held, todo, joining, killed>>
-----------------------------------------------------------------------------
(***************************************************************************)
(* The UI thread: Stop.  After a failed start StopPumping does nothing,    *)
(* and Stop runs from ~Context, when the UsbCameraGroup is dropped.        *)
(***************************************************************************)
UiStop ==
  /\ ui \in {"running", "failed"}
  /\ ui' = "stopping"
  /\ todo' = Cameras
  /\ UNCHANGED <<camVars, groupVars, syncVars, joining, killed>>

\* CameraPump::StopPumping, up to the wait.  The pump's own event is set; the
\* group's is not, and BeforeFrame looks only at the group's.
UiStopPump(c) ==
  /\ ui = "stopping"
  /\ joining = NoThread
  /\ c \in todo
  /\ IF cam_pc[c] = "none"
       THEN /\ todo' = todo \ {c}
            /\ UNCHANGED <<cam_stop, joining>>
       ELSE /\ cam_stop' = [cam_stop EXCEPT ![c] = TRUE]
            /\ joining' = c
            /\ UNCHANGED todo
  /\ UNCHANGED <<cam_pc, cam_refs, groupVars, syncVars, ui, killed>>

\* WaitForSingleObject ends: the thread has exited, or the wait expires and
\* TerminateThread stops it where it stands, whatever it holds.
UiJoinPump(c) ==
  /\ joining = c
  /\ \/ cam_pc[c] = "exited" /\ UNCHANGED killed
     \/ cam_pc[c] # "exited" /\ WaitExpires /\ killed' = killed \union {c}
  /\ todo' = todo \ {c}
  /\ joining' = NoThread
  /\ UNCHANGED <<camVars, groupVars, syncVars, ui>>

\* pump_map_.clear() drops the pumps' references; then the group is told.
UiSignalGroup ==
  /\ ui = "stopping"
  /\ joining = NoThread
  /\ todo = {}
  /\ cam_refs' = [c \in Cameras |-> cam_refs[c] - 1]
  /\ group_stop' = TRUE
  /\ ui' = "joining"
  /\ UNCHANGED <<cam_pc, cam_stop, group_pc, group_killed, batch, syncVars,
                 todo, joining, killed>>

UiJoinGroup ==
  /\ ui = "joining"
  /\ \/ group_pc \in {"none", "exited"} /\ UNCHANGED group_killed
     \/ group_pc \notin {"none", "exited"} /\ WaitExpires /\ group_killed' = TRUE
  /\ ui' = "stopped"
  /\ UNCHANGED <<camVars, group_pc, group_stop, batch, syncVars, todo,
                 joining, killed>>

UiStep ==
  \/ \E c \in Cameras : UiStartPump(c) \/ UiStopPump(c) \/ UiJoinPump(c)
  \/ UiCreateSemaphore
  \/ UiCreateThread
  \/ UiSignalGroup
  \/ UiJoinGroup

\* The one state in which nothing is left to do.
Stopped == ui = "stopped" /\ UNCHANGED vars

Next ==
  \/ \E c \in Cameras : CamStep(c)
  \/ GroupStep
  \/ UiStart
  \/ UiStop
  \/ UiStep
  \/ Stopped

Spec == Init /\ [][Next]_vars

\* The scheduler runs every thread that can run; the user need not press a
\* button, so UiStart and UiStop carry no fairness.
Fairness ==
  /\ \A c \in Cameras : WF_vars(CamStep(c))
  /\ WF_vars(GroupStep)
  /\ WF_vars(UiStep)

FairSpec == Spec /\ Fairness
-----------------------------------------------------------------------------
(***************************************************************************)
(* Properties.                                                             *)
(***************************************************************************)
\* A thread between the semaphore and free_cameras_ (PumpRunLoop 122-157).
InFrame(c) == cam_pc[c] \in {"token", "capture", "captured", "locked", "stored"}

(***************************************************************************)
(* While a round is open its tokens are all accounted for: on the          *)
(* semaphore, in the hands of a camera thread (for ever, if the thread was *)
(* told to stop or was terminated in the middle of a frame) or counted in  *)
(* free_cameras_.  Between rounds there is none anywhere.  So              *)
(* ReleaseSemaphore never overruns the maximum count, no round starts on a *)
(* token of the one before, and a round that lost a token never closes.    *)
(***************************************************************************)
TokenConservation ==
  group_pc # "exited" =>
    semaphore + Cardinality(held) + free_cameras =
      IF group_pc = "wait" THEN camera_count ELSE 0

(***************************************************************************)
(* The compare-and-swap is a barrier: from the end of a round to the next  *)
(* release no camera thread captures, stores or is about to store a frame, *)
(* and nobody has lock_.  NotifyNewFrame can never take a frame of the     *)
(* next round, nor wait behind a capture.                                  *)
(***************************************************************************)
CollectorAlone ==
  group_pc \in {"swap", "notify", "top"} =>
    /\ \A c \in Cameras : ~InFrame(c)
    /\ lock = NoThread

(***************************************************************************)
(* Stop releases every CameraPump::Context whose thread it could join, and *)
(* leaks exactly the ones it had to terminate: PumpingThread's Release     *)
(* never ran.                                                              *)
(***************************************************************************)
LeaksAreTheKilled ==
  ui = "stopped" =>
    \A c \in Cameras : cam_refs[c] = (IF c \in killed THEN 1 ELSE 0)

(***************************************************************************)
(* When Stop has returned, nothing of the pump moves any more: no capture, *)
(* no store, no call of the delegate.  (UsbCameraGroup drops the pump and  *)
(* the cameras right after it.)                                            *)
(***************************************************************************)
StopIsFinal ==
  [][ui = "stopped" => UNCHANGED <<camVars, groupVars, syncVars>>]_vars

(***************************************************************************)
(* If captures return well within two seconds, TerminateThread only ever   *)
(* hits a thread that polls the semaphore in BeforeFrame: never one in the *)
(* camera SDK, never one that holds lock_, and never the group thread.     *)
(***************************************************************************)
OnlyPollersKilled ==
  ~SlowCapture =>
    /\ \A c \in killed : cam_pc[c] = "before"
    /\ ~group_killed

(***************************************************************************)
(* As long as one camera thread was created, a round that was opened is    *)
(* delivered, unless the user stops the pump: the cameras that run take    *)
(* the tokens of those that do not.                                        *)
(***************************************************************************)
RoundCompletes ==
  (group_pc = "wait" /\ ui = "running" /\ \E c \in Cameras : cam_pc[c] # "none")
    ~> (group_pc = "notify" \/ ui # "running")

\* Stop returns, whatever the threads are doing when it is called.
StopReturns == (ui = "stopping") ~> (ui = "stopped")

(***************************************************************************)
(* The comment of NotifyNewFrame ("in theory one frame of every camera can *)
(* be had", with the DCHECK_EQ commented out): every set handed to the     *)
(* delegate holds a frame of every camera.                                 *)
(***************************************************************************)
FullFrameSet == group_pc = "notify" => Collected(batch) = Cameras

(***************************************************************************)
(* The comment of CameraPump::Context::Start ("balanced at end of          *)
(* thread"): after Stop, no reference to a pump's context is left.         *)
(***************************************************************************)
ContextsReleased == ui = "stopped" => \A c \in Cameras : cam_refs[c] = 0
-----------------------------------------------------------------------------
(***************************************************************************)
(* The pump implements the frame rounds.                                   *)
(***************************************************************************)
RoundPhase ==
  IF group_killed \/ group_pc = "exited" THEN "over"
  ELSE IF group_pc \in {"wait", "swap"} THEN "open"
  ELSE "closed"

Rounds == INSTANCE FrameRounds WITH
  phase <- RoundPhase, got <- Collected(frame_cache),
  delivered <- Collected(batch)

\* Every step of the threads is a step of FrameRounds, or changes nothing there.
ImplementsRounds == Rounds!RoundsSpec
=============================================================================
