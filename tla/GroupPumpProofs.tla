--------------------------- MODULE GroupPumpProofs ---------------------------
(***************************************************************************)
(* Theorems about GroupPump, for every finite set of cameras, with slow    *)
(* captures and failing CreateThread calls allowed or not.                 *)
(*                                                                         *)
(* None of the safety properties is inductive.  PumpInv is: it adds to     *)
(* them who may hold a token and the lock, what the reference counts are   *)
(* made of, and which threads the UI has dealt with at each of its steps.  *)
(***************************************************************************)
EXTENDS GroupPump, TLAPS, FiniteSetTheorems

\* TypeOK without the upper bounds of the counters, which Tokens implies.
Types ==
  /\ cam_pc \in [Cameras -> CamPC]
  /\ cam_stop \in [Cameras -> BOOLEAN]
  /\ cam_refs \in [Cameras -> Int]
  /\ group_pc \in GroupPC
  /\ group_stop \in BOOLEAN
  /\ semaphore \in Nat
  /\ sem_open \in BOOLEAN
  /\ free_cameras \in Nat
  /\ frame_cache \in [Cameras -> Frames]
  /\ lock \in Cameras \union {NoThread}
  /\ batch \in [Cameras -> Frames]
  /\ killed \in SUBSET Cameras
  /\ group_killed \in BOOLEAN
  /\ ui \in UiPC
  /\ todo \in SUBSET Cameras
  /\ joining \in Cameras \union {NoThread}
  /\ held \in SUBSET Cameras

\* A token is held by the threads inside a frame and by those that left
\* from inside one; lock_ by the thread inside OnFrame.
Holders ==
  \A c \in Cameras :
    /\ InFrame(c) => c \in held
    /\ c \in held => InFrame(c) \/ cam_pc[c] = "exited"
    /\ lock = c <=> cam_pc[c] = "locked"

Tokens ==
  /\ group_pc = "wait" =>
       semaphore + Cardinality(held) + free_cameras = camera_count
  /\ group_pc = "exited" =>
       semaphore + Cardinality(held) + free_cameras <= camera_count
  /\ group_pc \notin {"wait", "exited"} =>
       semaphore = 0 /\ held = {} /\ free_cameras = 0

Ended(c) == cam_pc[c] \in {"none", "exited"}

\* The pump's own reference, until pump_map_ is cleared.
PumpOwned(c) ==
  \/ ui = "starting" /\ c \notin todo
  \/ ui \in {"thread", "running", "failed", "stopping"}

Refs ==
  \A c \in Cameras :
    cam_refs[c] = (IF PumpOwned(c) THEN 1 ELSE 0) + (IF Ended(c) THEN 0 ELSE 1)

UiProgress ==
  /\ ui = "idle" => todo = Cameras
  /\ ui \in {"idle", "starting"} => \A c \in todo : cam_pc[c] = "none"
  /\ joining # NoThread =>
       ui = "stopping" /\ joining \in todo /\ cam_pc[joining] # "none"
  /\ ui = "stopping" => \A c \in Cameras \ todo : Ended(c) \/ c \in killed
  /\ ui \in {"joining", "stopped"} => \A c \in Cameras : Ended(c) \/ c \in killed
  /\ \A c \in killed : ~Ended(c)

GroupProgress ==
  /\ ui \in {"idle", "starting", "thread", "failed"} => group_pc = "none"
  /\ group_stop => ui \in {"joining", "stopped"}
  /\ group_pc = "exited" => group_stop
  /\ group_killed => ui = "stopped"
  /\ ui = "stopped" => group_pc \in {"none", "exited"} \/ group_killed

\* What the cache holds follows the round.
CacheOfRound ==
  /\ group_pc \in {"none", "top", "notify"} => Collected(frame_cache) = {}
  /\ group_pc = "swap" => Collected(frame_cache) # {}
  /\ group_pc = "wait" /\ (free_cameras > 0 \/ \E c \in Cameras : cam_pc[c] = "stored")
       => Collected(frame_cache) # {}

PumpInv ==
  /\ Types
  /\ Holders
  /\ Tokens
  /\ Refs
  /\ UiProgress
  /\ GroupProgress
  /\ CacheOfRound
-----------------------------------------------------------------------------
\* The number of tokens in the hands of the threads.
LEMMA CountFacts ==
  ASSUME NEW S \in SUBSET Cameras
  PROVE  /\ camera_count \in Nat \ {0}
         /\ Cardinality(S) \in Nat
         /\ Cardinality(S) = 0 <=> S = {}
         /\ \A c \in Cameras : c \notin S => Cardinality(S \union {c}) = Cardinality(S) + 1
         /\ \A c \in S : Cardinality(S \ {c}) = Cardinality(S) - 1
<1>1. IsFiniteSet(S) /\ IsFiniteSet(Cameras)
  BY PumpAssumption, FS_Subset
<1>2. Cardinality(S) \in Nat /\ camera_count \in Nat
  BY <1>1, FS_CardinalityType DEF camera_count
<1>3. camera_count # 0
  BY <1>1, PumpAssumption, FS_EmptySet DEF camera_count
<1>4. Cardinality(S) = 0 <=> S = {}
  BY <1>1, FS_EmptySet
<1>5. \A c \in Cameras : c \notin S => Cardinality(S \union {c}) = Cardinality(S) + 1
  BY <1>1, FS_AddElement
<1>6. \A c \in S : Cardinality(S \ {c}) = Cardinality(S) - 1
  BY <1>1, FS_RemoveElement
<1> QED
  BY <1>2, <1>3, <1>4, <1>5, <1>6

LEMMA InitPumpInv == Init => PumpInv
<1> SUFFICES ASSUME Init PROVE PumpInv
  OBVIOUS
<1>1. Types
  <2>1. /\ cam_pc \in [Cameras -> CamPC]
        /\ cam_stop \in [Cameras -> BOOLEAN]
        /\ cam_refs \in [Cameras -> Int]
        /\ frame_cache \in [Cameras -> Frames]
        /\ batch \in [Cameras -> Frames]
    BY DEF Init, CamPC, Frames, NoFrames
  <2>2. sem_open \in BOOLEAN /\ group_stop \in BOOLEAN /\ group_killed \in BOOLEAN
    BY DEF Init
  <2> QED
    BY <2>1, <2>2 DEF Init, Types, GroupPC, UiPC
<1>2. Holders
  BY PumpAssumption DEF Init, Holders, InFrame
<1>3. Tokens
  BY DEF Init, Tokens
<1>4. Refs
  BY DEF Init, Refs, PumpOwned, Ended
<1>5. UiProgress
  BY DEF Init, UiProgress
<1>6. GroupProgress
  BY DEF Init, GroupProgress
<1>7. CacheOfRound
  BY DEF Init, CacheOfRound, Collected, NoFrames
<1> QED
  BY <1>1, <1>2, <1>3, <1>4, <1>5, <1>6, <1>7 DEF PumpInv

LEMMA TypesStep == Types /\ [Next]_vars => Types'
<1> SUFFICES ASSUME Types, [Next]_vars PROVE Types'
  OBVIOUS
<1> USE DEF Types, CamPC, GroupPC, UiPC, camVars, groupVars, syncVars, uiVars,
            CamAt, CamGoto, GroupAt
<1>0. camera_count \in Nat \ {0}
  BY CountFacts
<1>1. ASSUME NEW c \in Cameras, CamStep(c) PROVE Types'
  <2>1. CASE CamLoop(c)
    BY <2>1 DEF CamLoop
  <2>2. CASE CamTakeToken(c)
    BY <2>2 DEF CamTakeToken
  <2>3. CASE CamBeginCapture(c)
    BY <2>3 DEF CamBeginCapture
  <2>4. CASE CamEndCapture(c)
    BY <2>4 DEF CamEndCapture
  <2>5. CASE CamLock(c)
    BY <2>5 DEF CamLock
  <2>6. CASE CamStore(c)
    BY <2>6 DEF CamStore, Frames
  <2>7. CASE CamFree(c)
    BY <2>7 DEF CamFree
  <2>8. CASE CamExit(c)
    BY <2>8 DEF CamExit
  <2> QED
    BY <1>1, <2>1, <2>2, <2>3, <2>4, <2>5, <2>6, <2>7, <2>8 DEF CamStep
<1>2. CASE GroupStep
  <2>1. CASE GroupRelease
    BY <1>0, <2>1 DEF GroupRelease, NoFrames, Frames
  <2>2. CASE GroupCollect
    BY <2>2 DEF GroupCollect
  <2>3. CASE GroupSwap
    BY <2>3 DEF GroupSwap, NoFrames, Frames
  <2>4. CASE GroupNotify
    BY <2>4 DEF GroupNotify
  <2>5. CASE GroupExit
    BY <2>5 DEF GroupExit
  <2> QED
    BY <1>2, <2>1, <2>2, <2>3, <2>4, <2>5 DEF GroupStep
<1>3. CASE UiStart
  BY <1>3 DEF UiStart
<1>4. CASE UiStop
  BY <1>4 DEF UiStop
<1>5. CASE UiStep
  <2>1. ASSUME NEW c \in Cameras, UiStartPump(c) PROVE Types'
    BY <2>1 DEF UiStartPump
  <2>2. ASSUME NEW c \in Cameras, UiStopPump(c) PROVE Types'
    BY <2>2 DEF UiStopPump
  <2>3. ASSUME NEW c \in Cameras, UiJoinPump(c) PROVE Types'
    BY <2>3 DEF UiJoinPump
  <2>4. CASE UiCreateSemaphore
    <3>1. sem_open' \in BOOLEAN /\ group_stop' \in BOOLEAN
      BY <2>4 DEF UiCreateSemaphore
    <3> QED
      BY <2>4, <3>1 DEF UiCreateSemaphore
  <2>5. CASE UiCreateThread
    BY <2>5 DEF UiCreateThread
  <2>6. CASE UiSignalGroup
    BY <2>6 DEF UiSignalGroup
  <2>7. CASE UiJoinGroup
    BY <2>7 DEF UiJoinGroup
  <2> QED
    BY <1>5, <2>1, <2>2, <2>3, <2>4, <2>5, <2>6, <2>7 DEF UiStep
<1>6. CASE UNCHANGED vars
  BY <1>6 DEF vars
<1> QED
  BY <1>1, <1>2, <1>3, <1>4, <1>5, <1>6 DEF Next, Stopped

LEMMA HoldersStep == PumpInv /\ [Next]_vars => Holders'
<1> SUFFICES ASSUME PumpInv, [Next]_vars PROVE Holders'
  OBVIOUS
<1> USE DEF PumpInv, Types, Holders, InFrame, UiProgress, camVars, groupVars, syncVars, uiVars, CamAt, CamGoto, GroupAt
<1>1. ASSUME NEW c \in Cameras, CamStep(c) PROVE Holders'
  <2>1. CASE CamLoop(c)
    BY <2>1 DEF CamLoop
  <2>2. CASE CamTakeToken(c)
    BY <2>2 DEF CamTakeToken
  <2>3. CASE CamBeginCapture(c)
    BY <2>3 DEF CamBeginCapture
  <2>4. CASE CamEndCapture(c)
    BY <2>4 DEF CamEndCapture
  <2>5. CASE CamLock(c)
    BY PumpAssumption, <2>5 DEF CamLock
  <2>6. CASE CamStore(c)
    BY PumpAssumption, <2>6 DEF CamStore
  <2>7. CASE CamFree(c)
    BY <2>7 DEF CamFree
  <2>8. CASE CamExit(c)
    BY <2>8 DEF CamExit
  <2> QED
    BY <1>1, <2>1, <2>2, <2>3, <2>4, <2>5, <2>6, <2>7, <2>8 DEF CamStep
<1>2. CASE GroupStep
  <2>1. CASE GroupRelease
    BY <2>1 DEF GroupRelease
  <2>2. CASE GroupCollect
    BY <2>2 DEF GroupCollect
  <2>3. CASE GroupSwap
    BY <2>3 DEF GroupSwap
  <2>4. CASE GroupNotify
    BY <2>4 DEF GroupNotify
  <2>5. CASE GroupExit
    BY <2>5 DEF GroupExit
  <2> QED
    BY <1>2, <2>1, <2>2, <2>3, <2>4, <2>5 DEF GroupStep
<1>3. CASE UiStart
  BY <1>3 DEF UiStart
<1>4. CASE UiStop
  BY <1>4 DEF UiStop
<1>5. CASE UiStep
  <2>1. ASSUME NEW c \in Cameras, UiStartPump(c) PROVE Holders'
    BY <2>1 DEF UiStartPump
  <2>2. ASSUME NEW c \in Cameras, UiStopPump(c) PROVE Holders'
    BY <2>2 DEF UiStopPump
  <2>3. ASSUME NEW c \in Cameras, UiJoinPump(c) PROVE Holders'
    BY PumpAssumption, <2>3 DEF UiJoinPump
  <2>4. CASE UiCreateSemaphore
    BY <2>4 DEF UiCreateSemaphore
  <2>5. CASE UiCreateThread
    BY <2>5 DEF UiCreateThread
  <2>6. CASE UiSignalGroup
    BY <2>6 DEF UiSignalGroup
  <2>7. CASE UiJoinGroup
    BY <2>7 DEF UiJoinGroup
  <2> QED
    BY <1>5, <2>1, <2>2, <2>3, <2>4, <2>5, <2>6, <2>7 DEF UiStep
<1>6. CASE UNCHANGED vars
  BY <1>6 DEF vars
<1> QED
  BY <1>1, <1>2, <1>3, <1>4, <1>5, <1>6 DEF Next, Stopped

LEMMA RefsStep == PumpInv /\ [Next]_vars => Refs'
<1> SUFFICES ASSUME PumpInv, [Next]_vars PROVE Refs'
  OBVIOUS
<1> USE DEF PumpInv, Types, Refs, PumpOwned, Ended, UiProgress, CamPC, UiPC, camVars, groupVars, syncVars, uiVars, CamAt, CamGoto, GroupAt
<1>1. ASSUME NEW c \in Cameras, CamStep(c) PROVE Refs'
  <2>1. CASE CamLoop(c)
    BY <2>1 DEF CamLoop
  <2>2. CASE CamTakeToken(c)
    BY <2>2 DEF CamTakeToken
  <2>3. CASE CamBeginCapture(c)
    BY <2>3 DEF CamBeginCapture
  <2>4. CASE CamEndCapture(c)
    BY <2>4 DEF CamEndCapture
  <2>5. CASE CamLock(c)
    BY PumpAssumption, <2>5 DEF CamLock
  <2>6. CASE CamStore(c)
    BY PumpAssumption, <2>6 DEF CamStore
  <2>7. CASE CamFree(c)
    BY <2>7 DEF CamFree
  <2>8. CASE CamExit(c)
    BY <2>8 DEF CamExit
  <2> QED
    BY <1>1, <2>1, <2>2, <2>3, <2>4, <2>5, <2>6, <2>7, <2>8 DEF CamStep
<1>2. CASE GroupStep
  <2>1. CASE GroupRelease
    BY <2>1 DEF GroupRelease
  <2>2. CASE GroupCollect
    BY <2>2 DEF GroupCollect
  <2>3. CASE GroupSwap
    BY <2>3 DEF GroupSwap
  <2>4. CASE GroupNotify
    BY <2>4 DEF GroupNotify
  <2>5. CASE GroupExit
    BY <2>5 DEF GroupExit
  <2> QED
    BY <1>2, <2>1, <2>2, <2>3, <2>4, <2>5 DEF GroupStep
<1>3. CASE UiStart
  BY <1>3 DEF UiStart
<1>4. CASE UiStop
  BY <1>4 DEF UiStop
<1>5. CASE UiStep
  <2>1. ASSUME NEW c \in Cameras, UiStartPump(c) PROVE Refs'
    BY <2>1 DEF UiStartPump
  <2>2. ASSUME NEW c \in Cameras, UiStopPump(c) PROVE Refs'
    BY <2>2 DEF UiStopPump
  <2>3. ASSUME NEW c \in Cameras, UiJoinPump(c) PROVE Refs'
    BY PumpAssumption, <2>3 DEF UiJoinPump
  <2>4. CASE UiCreateSemaphore
    BY <2>4 DEF UiCreateSemaphore
  <2>5. CASE UiCreateThread
    BY <2>5 DEF UiCreateThread
  <2>6. CASE UiSignalGroup
    BY <2>6 DEF UiSignalGroup
  <2>7. CASE UiJoinGroup
    BY <2>7 DEF UiJoinGroup
  <2> QED
    BY <1>5, <2>1, <2>2, <2>3, <2>4, <2>5, <2>6, <2>7 DEF UiStep
<1>6. CASE UNCHANGED vars
  BY <1>6 DEF vars
<1> QED
  BY <1>1, <1>2, <1>3, <1>4, <1>5, <1>6 DEF Next, Stopped

LEMMA UiProgressStep == PumpInv /\ [Next]_vars => UiProgress'
<1> SUFFICES ASSUME PumpInv, [Next]_vars PROVE UiProgress'
  OBVIOUS
<1> USE DEF PumpInv, Types, UiProgress, Ended, camVars, groupVars, syncVars, uiVars, CamAt, CamGoto, GroupAt
<1>1. ASSUME NEW c \in Cameras, CamStep(c) PROVE UiProgress'
  <2>1. CASE CamLoop(c)
    BY <2>1 DEF CamLoop
  <2>2. CASE CamTakeToken(c)
    BY <2>2 DEF CamTakeToken
  <2>3. CASE CamBeginCapture(c)
    BY <2>3 DEF CamBeginCapture
  <2>4. CASE CamEndCapture(c)
    BY <2>4 DEF CamEndCapture
  <2>5. CASE CamLock(c)
    BY PumpAssumption, <2>5 DEF CamLock
  <2>6. CASE CamStore(c)
    BY PumpAssumption, <2>6 DEF CamStore
  <2>7. CASE CamFree(c)
    BY <2>7 DEF CamFree
  <2>8. CASE CamExit(c)
    BY <2>8 DEF CamExit
  <2> QED
    BY <1>1, <2>1, <2>2, <2>3, <2>4, <2>5, <2>6, <2>7, <2>8 DEF CamStep
<1>2. CASE GroupStep
  <2>1. CASE GroupRelease
    BY <2>1 DEF GroupRelease
  <2>2. CASE GroupCollect
    BY <2>2 DEF GroupCollect
  <2>3. CASE GroupSwap
    BY <2>3 DEF GroupSwap
  <2>4. CASE GroupNotify
    BY <2>4 DEF GroupNotify
  <2>5. CASE GroupExit
    BY <2>5 DEF GroupExit
  <2> QED
    BY <1>2, <2>1, <2>2, <2>3, <2>4, <2>5 DEF GroupStep
<1>3. CASE UiStart
  BY <1>3 DEF UiStart
<1>4. CASE UiStop
  BY <1>4 DEF UiStop
<1>5. CASE UiStep
  <2>1. ASSUME NEW c \in Cameras, UiStartPump(c) PROVE UiProgress'
    BY <2>1 DEF UiStartPump
  <2>2. ASSUME NEW c \in Cameras, UiStopPump(c) PROVE UiProgress'
    BY <2>2 DEF UiStopPump
  <2>3. ASSUME NEW c \in Cameras, UiJoinPump(c) PROVE UiProgress'
    BY PumpAssumption, <2>3 DEF UiJoinPump
  <2>4. CASE UiCreateSemaphore
    BY <2>4 DEF UiCreateSemaphore
  <2>5. CASE UiCreateThread
    BY <2>5 DEF UiCreateThread
  <2>6. CASE UiSignalGroup
    BY <2>6 DEF UiSignalGroup
  <2>7. CASE UiJoinGroup
    BY <2>7 DEF UiJoinGroup
  <2> QED
    BY <1>5, <2>1, <2>2, <2>3, <2>4, <2>5, <2>6, <2>7 DEF UiStep
<1>6. CASE UNCHANGED vars
  BY <1>6 DEF vars
<1> QED
  BY <1>1, <1>2, <1>3, <1>4, <1>5, <1>6 DEF Next, Stopped

LEMMA GroupProgressStep == PumpInv /\ [Next]_vars => GroupProgress'
<1> SUFFICES ASSUME PumpInv, [Next]_vars PROVE GroupProgress'
  OBVIOUS
<1> USE DEF PumpInv, Types, GroupProgress, camVars, groupVars, syncVars, uiVars, CamAt, CamGoto, GroupAt
<1>1. ASSUME NEW c \in Cameras, CamStep(c) PROVE GroupProgress'
  <2>1. CASE CamLoop(c)
    BY <2>1 DEF CamLoop
  <2>2. CASE CamTakeToken(c)
    BY <2>2 DEF CamTakeToken
  <2>3. CASE CamBeginCapture(c)
    BY <2>3 DEF CamBeginCapture
  <2>4. CASE CamEndCapture(c)
    BY <2>4 DEF CamEndCapture
  <2>5. CASE CamLock(c)
    BY PumpAssumption, <2>5 DEF CamLock
  <2>6. CASE CamStore(c)
    BY PumpAssumption, <2>6 DEF CamStore
  <2>7. CASE CamFree(c)
    BY <2>7 DEF CamFree
  <2>8. CASE CamExit(c)
    BY <2>8 DEF CamExit
  <2> QED
    BY <1>1, <2>1, <2>2, <2>3, <2>4, <2>5, <2>6, <2>7, <2>8 DEF CamStep
<1>2. CASE GroupStep
  <2>1. CASE GroupRelease
    BY <2>1 DEF GroupRelease
  <2>2. CASE GroupCollect
    BY <2>2 DEF GroupCollect
  <2>3. CASE GroupSwap
    BY <2>3 DEF GroupSwap
  <2>4. CASE GroupNotify
    BY <2>4 DEF GroupNotify
  <2>5. CASE GroupExit
    BY <2>5 DEF GroupExit
  <2> QED
    BY <1>2, <2>1, <2>2, <2>3, <2>4, <2>5 DEF GroupStep
<1>3. CASE UiStart
  BY <1>3 DEF UiStart
<1>4. CASE UiStop
  BY <1>4 DEF UiStop
<1>5. CASE UiStep
  <2>1. ASSUME NEW c \in Cameras, UiStartPump(c) PROVE GroupProgress'
    BY <2>1 DEF UiStartPump
  <2>2. ASSUME NEW c \in Cameras, UiStopPump(c) PROVE GroupProgress'
    BY <2>2 DEF UiStopPump
  <2>3. ASSUME NEW c \in Cameras, UiJoinPump(c) PROVE GroupProgress'
    BY PumpAssumption, <2>3 DEF UiJoinPump
  <2>4. CASE UiCreateSemaphore
    BY <2>4 DEF UiCreateSemaphore
  <2>5. CASE UiCreateThread
    BY <2>5 DEF UiCreateThread
  <2>6. CASE UiSignalGroup
    BY <2>6 DEF UiSignalGroup
  <2>7. CASE UiJoinGroup
    BY <2>7 DEF UiJoinGroup
  <2> QED
    BY <1>5, <2>1, <2>2, <2>3, <2>4, <2>5, <2>6, <2>7 DEF UiStep
<1>6. CASE UNCHANGED vars
  BY <1>6 DEF vars
<1> QED
  BY <1>1, <1>2, <1>3, <1>4, <1>5, <1>6 DEF Next, Stopped

LEMMA CacheStep == PumpInv /\ [Next]_vars => CacheOfRound'
<1> SUFFICES ASSUME PumpInv, [Next]_vars PROVE CacheOfRound'
  OBVIOUS
<1> USE DEF PumpInv, Types, CacheOfRound, Collected, NoFrames, Frames, Tokens, GroupProgress, UiProgress, camVars, groupVars, syncVars, uiVars, CamAt, CamGoto, GroupAt
<1>0. camera_count \in Nat \ {0}
  BY CountFacts
<1>1. ASSUME NEW c \in Cameras, CamStep(c) PROVE CacheOfRound'
  <2>1. CASE CamLoop(c)
    BY <2>1 DEF CamLoop
  <2>2. CASE CamTakeToken(c)
    BY <2>2 DEF CamTakeToken
  <2>3. CASE CamBeginCapture(c)
    BY <2>3 DEF CamBeginCapture
  <2>4. CASE CamEndCapture(c)
    BY <2>4 DEF CamEndCapture
  <2>5. CASE CamLock(c)
    BY PumpAssumption, <2>5 DEF CamLock
  <2>6. CASE CamStore(c)
    <3>1. group_pc \in {"wait", "exited"}
      BY <2>6 DEF CamStore, Holders, InFrame
    <3>2. frame_cache'[c] # "none"
      BY <2>6 DEF CamStore
    <3> QED
      BY <2>6, <3>1, <3>2 DEF CamStore
  <2>7. CASE CamFree(c)
    BY <2>7 DEF CamFree
  <2>8. CASE CamExit(c)
    BY <2>8 DEF CamExit
  <2> QED
    BY <1>1, <2>1, <2>2, <2>3, <2>4, <2>5, <2>6, <2>7, <2>8 DEF CamStep
<1>2. CASE GroupStep
  <2>1. CASE GroupRelease
    <3>1. free_cameras = 0 /\ \A c \in Cameras : cam_pc[c] # "stored"
      BY <2>1 DEF GroupRelease, Holders, InFrame
    <3> QED
      BY <2>1, <3>1 DEF GroupRelease
  <2>2. CASE GroupCollect
    BY <1>0, <2>2 DEF GroupCollect
  <2>3. CASE GroupSwap
    BY <2>3 DEF GroupSwap
  <2>4. CASE GroupNotify
    BY <2>4 DEF GroupNotify
  <2>5. CASE GroupExit
    BY <2>5 DEF GroupExit
  <2> QED
    BY <1>2, <2>1, <2>2, <2>3, <2>4, <2>5 DEF GroupStep
<1>3. CASE UiStart
  BY <1>3 DEF UiStart
<1>4. CASE UiStop
  BY <1>4 DEF UiStop
<1>5. CASE UiStep
  <2>1. ASSUME NEW c \in Cameras, UiStartPump(c) PROVE CacheOfRound'
    BY <2>1 DEF UiStartPump
  <2>2. ASSUME NEW c \in Cameras, UiStopPump(c) PROVE CacheOfRound'
    BY <2>2 DEF UiStopPump
  <2>3. ASSUME NEW c \in Cameras, UiJoinPump(c) PROVE CacheOfRound'
    BY PumpAssumption, <2>3 DEF UiJoinPump
  <2>4. CASE UiCreateSemaphore
    BY <2>4 DEF UiCreateSemaphore
  <2>5. CASE UiCreateThread
    BY <2>5 DEF UiCreateThread
  <2>6. CASE UiSignalGroup
    BY <2>6 DEF UiSignalGroup
  <2>7. CASE UiJoinGroup
    BY <2>7 DEF UiJoinGroup
  <2> QED
    BY <1>5, <2>1, <2>2, <2>3, <2>4, <2>5, <2>6, <2>7 DEF UiStep
<1>6. CASE UNCHANGED vars
  BY <1>6 DEF vars
<1> QED
  BY <1>1, <1>2, <1>3, <1>4, <1>5, <1>6 DEF Next, Stopped

LEMMA TokensStep == PumpInv /\ [Next]_vars => Tokens'
<1> SUFFICES ASSUME PumpInv, [Next]_vars PROVE Tokens'
  OBVIOUS
<1> USE DEF PumpInv, Types, Tokens, Holders, InFrame, GroupProgress, camVars, groupVars, syncVars, uiVars, CamAt, CamGoto, GroupAt
<1>0. /\ camera_count \in Nat \ {0}
      /\ Cardinality(held) \in Nat
      /\ Cardinality(held) = 0 <=> held = {}
      /\ \A c \in Cameras : c \notin held => Cardinality(held \union {c}) = Cardinality(held) + 1
      /\ \A c \in held : Cardinality(held \ {c}) = Cardinality(held) - 1
  BY CountFacts
<1>1. ASSUME NEW c \in Cameras, CamStep(c) PROVE Tokens'
  <2>1. CASE CamLoop(c)
    BY <2>1 DEF CamLoop
  <2>2. CASE CamTakeToken(c)
    <3>1. c \notin held
      BY <2>2 DEF CamTakeToken
    <3>2. Cardinality(held') = Cardinality(held) + 1
      BY <1>0, <2>2, <3>1 DEF CamTakeToken
    <3> QED
      BY <1>0, <2>2, <3>2 DEF CamTakeToken
  <2>3. CASE CamBeginCapture(c)
    BY <2>3 DEF CamBeginCapture
  <2>4. CASE CamEndCapture(c)
    BY <2>4 DEF CamEndCapture
  <2>5. CASE CamLock(c)
    BY PumpAssumption, <2>5 DEF CamLock
  <2>6. CASE CamStore(c)
    BY PumpAssumption, <2>6 DEF CamStore
  <2>7. CASE CamFree(c)
    <3>1. c \in held
      BY <2>7 DEF CamFree
    <3>2. Cardinality(held') = Cardinality(held) - 1
      BY <1>0, <2>7, <3>1 DEF CamFree
    <3> QED
      BY <1>0, <2>7, <3>1, <3>2 DEF CamFree
  <2>8. CASE CamExit(c)
    BY <2>8 DEF CamExit
  <2> QED
    BY <1>1, <2>1, <2>2, <2>3, <2>4, <2>5, <2>6, <2>7, <2>8 DEF CamStep
<1>2. CASE GroupStep
  <2>1. CASE GroupRelease
    BY <1>0, <2>1 DEF GroupRelease
  <2>2. CASE GroupCollect
    BY <1>0, <2>2 DEF GroupCollect
  <2>3. CASE GroupSwap
    BY <2>3 DEF GroupSwap
  <2>4. CASE GroupNotify
    BY <2>4 DEF GroupNotify
  <2>5. CASE GroupExit
    BY <1>0, <2>5 DEF GroupExit
  <2> QED
    BY <1>2, <2>1, <2>2, <2>3, <2>4, <2>5 DEF GroupStep
<1>3. CASE UiStart
  BY <1>3 DEF UiStart
<1>4. CASE UiStop
  BY <1>4 DEF UiStop
<1>5. CASE UiStep
  <2>1. ASSUME NEW c \in Cameras, UiStartPump(c) PROVE Tokens'
    BY <2>1 DEF UiStartPump
  <2>2. ASSUME NEW c \in Cameras, UiStopPump(c) PROVE Tokens'
    BY <2>2 DEF UiStopPump
  <2>3. ASSUME NEW c \in Cameras, UiJoinPump(c) PROVE Tokens'
    BY PumpAssumption, <2>3 DEF UiJoinPump
  <2>4. CASE UiCreateSemaphore
    BY <2>4 DEF UiCreateSemaphore
  <2>5. CASE UiCreateThread
    BY <2>5 DEF UiCreateThread
  <2>6. CASE UiSignalGroup
    BY <2>6 DEF UiSignalGroup
  <2>7. CASE UiJoinGroup
    BY <2>7 DEF UiJoinGroup
  <2> QED
    BY <1>5, <2>1, <2>2, <2>3, <2>4, <2>5, <2>6, <2>7 DEF UiStep
<1>6. CASE UNCHANGED vars
  BY <1>6 DEF vars
<1> QED
  BY <1>1, <1>2, <1>3, <1>4, <1>5, <1>6 DEF Next, Stopped

LEMMA PumpInvariant == Spec => []PumpInv
<1>1. PumpInv /\ [Next]_vars => PumpInv'
  <2>1. PumpInv => Types
    BY DEF PumpInv
  <2> QED
    BY <2>1, TypesStep, HoldersStep, TokensStep, RefsStep, UiProgressStep,
       GroupProgressStep, CacheStep DEF PumpInv
<1> QED
  BY InitPumpInv, <1>1, PTL DEF Spec
-----------------------------------------------------------------------------
(***************************************************************************)
(* The counters of the code stay within the number of cameras and the      *)
(* reference counts within 0..2: ReleaseSemaphore is never asked to exceed *)
(* the maximum count, Release is never called on a count of zero.          *)
(***************************************************************************)
THEOREM TypeCorrect == Spec => []TypeOK
<1>1. PumpInv => TypeOK
  <2> SUFFICES ASSUME PumpInv PROVE TypeOK
    OBVIOUS
  <2>1. /\ camera_count \in Nat
        /\ Cardinality(held) \in Nat
    BY CountFacts DEF PumpInv, Types
  <2>2. semaphore \in 0..camera_count /\ free_cameras \in 0..camera_count
    BY <2>1 DEF PumpInv, Types, Tokens
  <2>3. cam_refs \in [Cameras -> 0..2]
    <3>1. \A c \in Cameras : cam_refs[c] \in 0..2
      BY DEF PumpInv, Refs
    <3> QED
      BY <3>1 DEF PumpInv, Types
  <2> QED
    BY <2>2, <2>3 DEF PumpInv, Types, TypeOK
<1> QED
  BY <1>1, PumpInvariant, PTL

(***************************************************************************)
(* BeforeFrame, AfterFrame, ReleaseSemaphore and the compare-and-swap      *)
(* conserve the tokens of a round, for any number of cameras.              *)
(***************************************************************************)
THEOREM TokensConserved == Spec => []TokenConservation
<1>1. PumpInv => TokenConservation
  <2> SUFFICES ASSUME PumpInv PROVE TokenConservation
    OBVIOUS
  <2>1. Cardinality({}) = 0
    BY FS_EmptySet
  <2> QED
    BY <2>1 DEF PumpInv, Types, GroupPC, Tokens, TokenConservation
<1> QED
  BY <1>1, PumpInvariant, PTL

(***************************************************************************)
(* The spin on free_cameras_ is a barrier: NotifyNewFrame runs while no    *)
(* camera is in a frame and nobody has lock_.                              *)
(***************************************************************************)
THEOREM BarrierHolds == Spec => []CollectorAlone
<1>1. PumpInv => CollectorAlone
  <2> SUFFICES ASSUME PumpInv, group_pc \in {"swap", "notify", "top"}
               PROVE  (\A c \in Cameras : ~InFrame(c)) /\ lock = NoThread
    BY DEF CollectorAlone
  <2>1. held = {}
    BY DEF PumpInv, Tokens
  <2>2. \A c \in Cameras : ~InFrame(c)
    BY <2>1 DEF PumpInv, Holders
  <2>3. \A c \in Cameras : cam_pc[c] # "locked"
    BY <2>2 DEF InFrame
  <2> QED
    BY <2>2, <2>3 DEF PumpInv, Holders, Types
<1> QED
  BY <1>1, PumpInvariant, PTL

(***************************************************************************)
(* Stop leaks the context of a camera if and only if it had to terminate   *)
(* that camera's thread.                                                   *)
(***************************************************************************)
THEOREM LeaksExplained == Spec => []LeaksAreTheKilled
<1>1. PumpInv => LeaksAreTheKilled
  BY DEF PumpInv, Refs, PumpOwned, UiProgress, LeaksAreTheKilled
<1> QED
  BY <1>1, PumpInvariant, PTL

(***************************************************************************)
(* After Stop has returned no thread of the pump takes a step: each one    *)
(* has exited, was never created or was terminated.                        *)
(***************************************************************************)
THEOREM StopFinal == Spec => StopIsFinal
<1>1. PumpInv /\ [Next]_vars
        => [ui = "stopped" => UNCHANGED <<camVars, groupVars, syncVars>>]_vars
  <2> SUFFICES ASSUME PumpInv, Next, ui = "stopped"
               PROVE  UNCHANGED <<camVars, groupVars, syncVars>>
    OBVIOUS
  <2>1. \A c \in Cameras : ~CamStep(c)
    BY DEF PumpInv, UiProgress, Ended, CamStep, CamAt, CamLoop, CamTakeToken,
           CamBeginCapture, CamEndCapture, CamLock, CamStore, CamFree, CamExit
  <2>2. ~GroupStep
    BY DEF PumpInv, GroupProgress, GroupStep, GroupAt, GroupRelease,
           GroupCollect, GroupSwap, GroupNotify, GroupExit
  <2>3. ~UiStart /\ ~UiStop
    BY DEF UiStart, UiStop
  <2>4. \A c \in Cameras : ~UiStartPump(c) /\ ~UiStopPump(c) /\ ~UiJoinPump(c)
    BY PumpAssumption DEF PumpInv, UiProgress, UiStartPump, UiStopPump, UiJoinPump
  <2>5. ~UiStep
    BY <2>4 DEF UiStep, UiCreateSemaphore, UiCreateThread, UiSignalGroup, UiJoinGroup
  <2>6. UNCHANGED vars
    BY <2>1, <2>2, <2>3, <2>5 DEF Next, Stopped
  <2> QED
    BY <2>6 DEF vars
<1> QED
  BY <1>1, PumpInvariant, PTL DEF Spec, StopIsFinal
-----------------------------------------------------------------------------
(***************************************************************************)
(* Who TerminateThread can hit when no capture is slow.  PumpInv does not  *)
(* say: it also takes that a thread is told to stop before it is joined,   *)
(* the group's too.                                                        *)
(***************************************************************************)
Told ==
  /\ joining # NoThread => cam_stop[joining]
  /\ ui = "joining" => group_stop

PollersInv == Told /\ OnlyPollersKilled

\* CameraPump::Context::Stop and the group's Stop set the event before they
\* wait, and nobody resets it.
LEMMA ToldStep == PumpInv /\ Told /\ [Next]_vars => Told'
<1> SUFFICES ASSUME PumpInv, Told, [Next]_vars PROVE Told'
  OBVIOUS
<1> USE DEF PumpInv, Types, Told, UiProgress, GroupProgress, camVars, groupVars,
            syncVars, uiVars
<1>1. ASSUME NEW c \in Cameras, CamStep(c) PROVE Told'
  BY <1>1 DEF CamStep, CamLoop, CamTakeToken, CamBeginCapture, CamEndCapture,
              CamLock, CamStore, CamFree, CamExit
<1>2. CASE GroupStep
  BY <1>2 DEF GroupStep, GroupRelease, GroupCollect, GroupSwap, GroupNotify,
              GroupExit
<1>3. CASE UiStart \/ UiStop
  BY <1>3 DEF UiStart, UiStop
<1>4. CASE UiStep
  <2>1. ASSUME NEW c \in Cameras, UiStartPump(c) PROVE Told'
    BY <2>1 DEF UiStartPump
  <2>2. ASSUME NEW c \in Cameras, UiStopPump(c) PROVE Told'
    BY <2>2 DEF UiStopPump
  <2>3. ASSUME NEW c \in Cameras, UiJoinPump(c) PROVE Told'
    BY <2>3 DEF UiJoinPump
  <2>4. CASE UiCreateSemaphore \/ UiCreateThread
    BY <2>4 DEF UiCreateSemaphore, UiCreateThread
  <2>5. CASE UiSignalGroup \/ UiJoinGroup
    BY <2>5 DEF UiSignalGroup, UiJoinGroup
  <2> QED
    BY <1>4, <2>1, <2>2, <2>3, <2>4, <2>5 DEF UiStep
<1>5. CASE UNCHANGED vars
  BY <1>5 DEF vars
<1> QED
  BY <1>1, <1>2, <1>3, <1>4, <1>5 DEF Next, Stopped

\* A terminated thread takes no step, and only the two joins terminate one.
LEMMA KilledStep ==
  PumpInv /\ CollectorAlone /\ PollersInv /\ [Next]_vars => OnlyPollersKilled'
<1> SUFFICES ASSUME PumpInv, CollectorAlone, PollersInv, [Next]_vars, ~SlowCapture
             PROVE  (\A k \in killed' : cam_pc'[k] = "before") /\ ~group_killed'
  BY DEF OnlyPollersKilled
<1> USE DEF PumpInv, Types, PollersInv, Told, OnlyPollersKilled, UiProgress,
            GroupProgress, camVars, groupVars, syncVars, uiVars, CamAt, CamGoto
<1> DEFINE Goal == (\A k \in killed' : cam_pc'[k] = "before") /\ ~group_killed'
<1>1. ASSUME NEW c \in Cameras, CamStep(c) PROVE Goal
  BY <1>1 DEF CamStep, CamLoop, CamTakeToken, CamBeginCapture, CamEndCapture,
              CamLock, CamStore, CamFree, CamExit
<1>2. CASE GroupStep
  BY <1>2 DEF GroupStep, GroupRelease, GroupCollect, GroupSwap, GroupNotify,
              GroupExit
<1>3. CASE UiStart \/ UiStop
  BY <1>3 DEF UiStart, UiStop
<1>4. CASE UiStep
  <2>1. ASSUME NEW c \in Cameras, UiStartPump(c) PROVE Goal
    BY <2>1 DEF UiStartPump, Ended
  <2>2. ASSUME NEW c \in Cameras, UiStopPump(c) PROVE Goal
    BY <2>2 DEF UiStopPump
  <2>3. ASSUME NEW c \in Cameras, UiJoinPump(c) PROVE Goal
    <3>1. c \notin killed /\ cam_pc[c] # "exited" /\ WaitExpires
            => cam_pc[c] = "before"
      BY PumpAssumption, <2>3 DEF UiJoinPump, WaitExpires, CamIdle
    <3> QED
      BY <2>3, <3>1 DEF UiJoinPump
  <2>4. CASE UiCreateSemaphore \/ UiCreateThread \/ UiSignalGroup
    BY <2>4 DEF UiCreateSemaphore, UiCreateThread, UiSignalGroup
  <2>5. CASE UiJoinGroup
    <3>1. group_pc \notin {"none", "exited"} => ~GroupIdle
      BY <2>5 DEF UiJoinGroup, GroupIdle, CollectorAlone
    <3> QED
      BY <2>5, <3>1 DEF UiJoinGroup, WaitExpires
  <2> QED
    BY <1>4, <2>1, <2>2, <2>3, <2>4, <2>5 DEF UiStep
<1>5. CASE UNCHANGED vars
  BY <1>5 DEF vars
<1> QED
  BY <1>1, <1>2, <1>3, <1>4, <1>5 DEF Next, Stopped

(***************************************************************************)
(* With prompt captures, CameraPump::Context::Stop terminates only threads *)
(* that poll for a token in BeforeFrame, and the group thread is always    *)
(* joined, for any number of cameras.                                      *)
(***************************************************************************)
THEOREM KilledArePollers == Spec => []OnlyPollersKilled
<1>1. Init => PollersInv
  BY DEF Init, PollersInv, Told, OnlyPollersKilled
<1>2. PumpInv /\ CollectorAlone /\ PollersInv /\ [Next]_vars => PollersInv'
  BY ToldStep, KilledStep DEF PollersInv
<1>3. PollersInv => OnlyPollersKilled
  BY DEF PollersInv
<1> QED
  BY <1>1, <1>2, <1>3, PumpInvariant, BarrierHolds, PTL DEF Spec
-----------------------------------------------------------------------------
(***************************************************************************)
(* The threads implement the frame rounds: a frame is stored only while a  *)
(* round is open, a delivery hands over what this round stored, and at     *)
(* least one frame.                                                        *)
(***************************************************************************)
THEOREM RoundsImplemented == Spec => ImplementsRounds
<1>1. Init => Rounds!RoundsInit
  BY DEF Init, Rounds!RoundsInit, RoundPhase, Collected, NoFrames
<1>2. PumpInv /\ [Next]_vars => [Rounds!RoundsNext]_(Rounds!rvars)
  <2> SUFFICES ASSUME PumpInv, [Next]_vars
               PROVE  Rounds!RoundsNext \/ UNCHANGED Rounds!rvars
    OBVIOUS
  <2> USE DEF PumpInv, RoundPhase, Rounds!rvars, camVars, groupVars, syncVars,
              uiVars, CamAt, CamGoto, GroupAt
  <2>1. ASSUME NEW c \in Cameras, CamStore(c)
        PROVE  Rounds!Contribute(c)
    <3>1. group_pc \in {"wait", "exited"}
      BY <2>1 DEF CamStore, Holders, InFrame, Tokens
    <3>2. ui \notin {"joining", "stopped"}
      BY <2>1 DEF CamStore, UiProgress, Ended
    <3>3. group_pc = "wait" /\ ~group_killed
      BY <3>1, <3>2 DEF GroupProgress
    <3>4. Collected(frame_cache') = Collected(frame_cache) \union {c}
      BY <2>1 DEF CamStore, Collected, Types
    <3> QED
      BY <2>1, <3>3, <3>4 DEF CamStore, Rounds!Contribute
  <2>2. ASSUME NEW c \in Cameras, CamStep(c), ~CamStore(c)
        PROVE  UNCHANGED Rounds!rvars
    BY <2>2 DEF CamStep, CamLoop, CamTakeToken, CamBeginCapture, CamEndCapture,
                CamLock, CamFree, CamExit
  <2>3. CASE GroupRelease
    <3>1. Collected(NoFrames) = {} /\ Collected(frame_cache) = {}
      BY <2>3 DEF GroupRelease, CacheOfRound, Collected, NoFrames
    <3> QED
      BY <2>3, <3>1 DEF GroupRelease, Rounds!RoundsNext, Rounds!Open
  <2>4. CASE GroupSwap
    <3>1. Collected(NoFrames) = {} /\ Collected(frame_cache) # {}
      BY <2>4 DEF GroupSwap, CacheOfRound, Collected, NoFrames
    <3> QED
      BY <2>4, <3>1 DEF GroupSwap, Rounds!RoundsNext, Rounds!Deliver
  <2>5. CASE GroupExit
    BY <2>5 DEF GroupExit, Rounds!RoundsNext, Rounds!Finish
  <2>6. CASE GroupCollect \/ GroupNotify
    BY <2>6 DEF GroupCollect, GroupNotify
  <2>7. CASE UiJoinGroup
    BY <2>7 DEF UiJoinGroup, Types, GroupPC, Rounds!RoundsNext, Rounds!Finish
  <2>8. CASE UiStart \/ UiStop
    BY <2>8 DEF UiStart, UiStop
  <2>9. CASE UiStep /\ ~UiJoinGroup
    BY <2>9 DEF UiStep, UiStartPump, UiStopPump, UiJoinPump, UiCreateSemaphore,
                UiCreateThread, UiSignalGroup, GroupProgress
  <2>10. CASE UNCHANGED vars
    BY <2>10 DEF vars
  <2> QED
    BY <2>1, <2>2, <2>3, <2>4, <2>5, <2>6, <2>7, <2>8, <2>9, <2>10
       DEF Next, GroupStep, Stopped, Rounds!RoundsNext
<1> QED
  BY <1>1, <1>2, PumpInvariant, PTL DEF Spec, ImplementsRounds, Rounds!RoundsSpec
=============================================================================
