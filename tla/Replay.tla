-------------------------------- MODULE Replay ------------------------------
(***************************************************************************)
(* Replaying a recording: LoadRecordedFrames of src/Blank/frame_record.cc  *)
(* and the player of src/Blank/replayWindow.cpp.  The player keeps its     *)
(* place three times: in mReplayCursor, in the slider, and in the timers   *)
(* that move both; and it uses the frame numbers of the left image list    *)
(* as indices into the records of both sides.                              *)
(*                                                                         *)
(* All handlers run on the UI thread: each is one step, including the      *)
(* updateImage calls the slider makes from inside it.                      *)
(***************************************************************************)
EXTENDS Integers, Sequences, SequencesExt

CONSTANTS
  Folders,      \* the folders the user may open: records [left, right, ok]
                \* with the frame numbers of the two image lists, and whether
                \* both lists and every image they name are there
  Garbage,      \* what an uninitialised frame_seq may hold, converted to int
  Speeds,       \* what para.json may set Paras::replay_speed_ to, in half frames
  MaxTimers     \* bound: play pressed with another timer still running

ASSUME ReplayAssumption ==
  /\ \A f \in Folders : /\ f.left \in Seq(Nat) /\ f.right \in Seq(Nat)
                        /\ f.ok \in BOOLEAN
  /\ Garbage \subseteq Int /\ Garbage # {}
  /\ Speeds \subseteq Nat \ {0}
  /\ MaxTimers \in Nat

Sides == {"left", "right"}

VARIABLES
  frames,      \* frames_: the frame numbers of the records of each side
  mStartIndex, mEndIndex,
  speed,       \* Paras::replay_speed_, read once by main()
  cursor,      \* mReplayCursor, in half frames
  slider,      \* [min, max, value]
  enabled,     \* of the buttons play, next and before, and the slider
  mbOpen, mbPlay,
  timers,      \* the QTimers that run
  mTimer,      \* the one play() created last
  shown,       \* the index of the two images on the screen
  overrun,     \* a record was read past the end of its vector
  whole,       \* auxiliary: the number of frames, if one recording filled the
               \* open folder and no frame of it is missing; 0 otherwise
  leaked       \* auxiliary: timers open() forgot

vars == <<frames, mStartIndex, mEndIndex, speed, cursor, slider, enabled, mbOpen,
          mbPlay, timers, mTimer, shown, overrun, whole, leaked>>

Controls == {"play", "next", "before", "slider"}
NoTimer == 0

\* The places of the player are ints; as long as no record was missing, none
\* of them is negative, whatever the list ended with.
TypeOK ==
  /\ \A s \in Sides : frames[s] \in Seq(Int)
  /\ {mStartIndex, mEndIndex, cursor, shown} \subseteq Int
  /\ slider \in [min : Int, max : Int, value : Int]
  /\ slider.value \in slider.min..slider.max
  /\ ~overrun => {mStartIndex, mEndIndex, cursor, shown, slider.min} \subseteq Nat
  /\ speed \in Speeds
  /\ enabled \subseteq Controls
  /\ {mbOpen, mbPlay, overrun} \subseteq BOOLEAN
  /\ whole \in Nat
  /\ timers \subseteq 1..MaxTimers
  /\ mTimer \in 0..MaxTimers
  /\ leaked \subseteq timers

Init ==
  /\ frames = [s \in Sides |-> <<>>]
  /\ mStartIndex = 0 /\ mEndIndex = 0
  /\ speed \in Speeds
  /\ cursor = 0
  /\ slider = [min |-> 1, max |-> 3, value |-> 2]
  /\ enabled = {}
  /\ mbOpen = FALSE /\ mbPlay = FALSE
  /\ timers = {}
  /\ mTimer = NoTimer
  /\ shown = 0
  /\ overrun = FALSE
  /\ whole = 0
  /\ leaked = {}

\* frames_[0][v] and frames_[1][v] exist.
InRange(fs, v) == 0 <= v /\ \A s \in Sides : v < Len(fs[s])

\* setValue and setRange: the value is clamped.
Clamp(lo, hi, v) == Max({lo, Min({hi, v})})

\* mSlider->setValue(v): updateImage, and so loadImage, when the value changes.
SetSlider(v) ==
  LET w == Clamp(slider.min, slider.max, v) IN
    /\ slider' = [slider EXCEPT !.value = w]
    /\ shown' = IF w = slider.value THEN shown ELSE w
    /\ overrun' = (w # slider.value /\ ~InRange(frames, w))

\* A folder one recording filled, without a frame missing: RecordFrame counts
\* from one.
IsComplete(f) ==
  /\ f.left = f.right
  /\ f.left = [i \in 1..Len(f.left) |-> i]
-----------------------------------------------------------------------------
(***************************************************************************)
(* Faulty variants: what the run must notice.                              *)
(***************************************************************************)
\* The step back does not wrap.
StepBackNoWrap ==
  /\ cursor' = cursor - speed
  /\ SetSlider(cursor' \div 2)

\* The cursor stops at the end.
StepForwardStops ==
  /\ cursor' = IF cursor + speed > 2 * mEndIndex THEN cursor ELSE cursor + speed
  /\ SetSlider(cursor' \div 2)

\* The pause button leaves its timer running.
PauseKeepsTimer ==
  /\ mbPlay' = FALSE
  /\ enabled' = enabled \union {"next", "before"}
  /\ UNCHANGED <<timers, mTimer>>

\* A record for the empty last line only when it is the only line.
LoadListExact(s, list, junk) == IF list = <<>> THEN <<junk>> ELSE list
-----------------------------------------------------------------------------
(***************************************************************************)
(* The handlers.                                                           *)
(***************************************************************************)
\* One record per line of an image list, and one for what getline reads after
\* the last newline (of an empty list too): its frame_seq is never set.  It may
\* hold what the same place on the stack held for the line before.
LoadList(s, list, junk) == Append(list, junk)
Junk(list) == {list[i] : i \in {Len(list)} \ {0}} \union Garbage

\* An image is missing: the lists are read up to its line.  Or a list is.
PartlyLoaded(f) ==
  {[left |-> <<>>, right |-> <<>>]}
    \union
  {[left |-> SubSeq(f.left, 1, n), right |-> <<>>] : n \in 0..(Len(f.left) - 1)}
    \union
  {[left |-> LoadList("left", f.left, j), right |-> SubSeq(f.right, 1, m)] :
     j \in Junk(f.left), m \in 0..(Len(f.right) - 1)}

\* open() after LoadRecordedFrames returned true.  setMinimum, setMaximum and
\* setValue each clamp the value and may call updateImage.
OpenLoaded(records) ==
  LET start == Head(records)
      end   == Last(records)
      min   == Min({start, end})
      v1    == Clamp(start, Max({start, slider.max}), slider.value)
      v2    == Clamp(min, end, v1)
      v3    == Clamp(min, end, start)
  IN
    /\ mStartIndex' = start
    /\ mEndIndex' = end
    /\ cursor' = 2 * start
    /\ slider' = [min |-> min, max |-> end, value |-> v3]
    /\ shown' = start
    /\ overrun' = \E v \in ({v1, v2, v3} \ {slider.value}) \union {start} : ~InRange(frames', v)

\* open(): nothing stops a timer that runs.  When the folder cannot be read
\* the old records are gone (or half replaced), and all the rest stays.
Open ==
  /\ ~overrun
  /\ \E f \in Folders :
       IF f.ok
         THEN \E jl \in Junk(f.left), jr \in Junk(f.right) :
                LET l == LoadList("left", f.left, jl)
                    r == LoadList("right", f.right, jr)
                IN
                  /\ frames' = [s \in Sides |-> IF s = "left" THEN l ELSE r]
                  /\ OpenLoaded(l)
                  /\ mbOpen' = TRUE
                  /\ mbPlay' = FALSE
                  /\ enabled' = Controls
                  /\ whole' = IF IsComplete(f) THEN Len(f.left) ELSE 0
                  /\ leaked' = IF mbPlay THEN leaked \union {mTimer} ELSE leaked
         ELSE /\ frames' \in PartlyLoaded(f)
              /\ whole' = 0
              /\ UNCHANGED <<mStartIndex, mEndIndex, cursor, slider, enabled,
                             mbOpen, mbPlay, shown, overrun, leaked>>
  /\ UNCHANGED <<speed, timers, mTimer>>

\* play() with mbPlay false: a new timer.
Resume ==
  \E t \in (1..MaxTimers) \ timers :
    /\ timers' = timers \union {t}
    /\ mTimer' = t
    /\ mbPlay' = TRUE
    /\ enabled' = enabled \ {"next", "before"}

\* play() with mbPlay true.
Pause ==
  /\ mbPlay' = FALSE
  /\ timers' = timers \ {mTimer}
  /\ enabled' = enabled \union {"next", "before"}
  /\ UNCHANGED mTimer

Play ==
  /\ ~overrun
  /\ "play" \in enabled
  /\ IF mbPlay THEN Pause ELSE Resume
  /\ UNCHANGED <<frames, mStartIndex, mEndIndex, speed, cursor, slider,
                 mbOpen, shown, overrun, whole, leaked>>

\* next().
StepForward ==
  /\ cursor' = IF cursor + speed > 2 * mEndIndex THEN 2 * mStartIndex ELSE cursor + speed
  /\ SetSlider(cursor' \div 2)

\* before().
StepBack ==
  /\ cursor' = IF cursor - speed < 2 * mStartIndex THEN 2 * mEndIndex ELSE cursor - speed
  /\ SetSlider(cursor' \div 2)

\* playVedio(), at the timeout of a timer.
Timeout(t) ==
  /\ ~overrun
  /\ t \in timers
  /\ StepForward
  /\ UNCHANGED <<frames, mStartIndex, mEndIndex, speed, enabled, mbOpen,
                 mbPlay, timers, mTimer, whole, leaked>>

PressNext ==
  /\ ~overrun
  /\ "next" \in enabled
  /\ StepForward
  /\ UNCHANGED <<frames, mStartIndex, mEndIndex, speed, enabled, mbOpen,
                 mbPlay, timers, mTimer, whole, leaked>>

PressBefore ==
  /\ ~overrun
  /\ "before" \in enabled
  /\ StepBack
  /\ UNCHANGED <<frames, mStartIndex, mEndIndex, speed, enabled, mbOpen,
                 mbPlay, timers, mTimer, whole, leaked>>

\* The user drags the slider: mReplayCursor does not follow.
Drag ==
  /\ ~overrun
  /\ "slider" \in enabled
  /\ \E v \in slider.min..slider.max : v # slider.value /\ SetSlider(v)
  /\ UNCHANGED <<frames, mStartIndex, mEndIndex, speed, cursor, enabled,
                 mbOpen, mbPlay, timers, mTimer, whole, leaked>>

Stopped == overrun /\ UNCHANGED vars

Next ==
  \/ Open \/ Play \/ PressNext \/ PressBefore \/ Drag
  \/ \E t \in 1..MaxTimers : Timeout(t)
  \/ Stopped

Spec == Init /\ [][Next]_vars

\* A timer that runs fires.  The user owes nothing.
FairSpec == Spec /\ \A t \in 1..MaxTimers : WF_vars(Timeout(t))
-----------------------------------------------------------------------------
(***************************************************************************)
(* Properties.                                                             *)
(***************************************************************************)
(***************************************************************************)
(* The comment of loadImage, "load the picture the index points at": with  *)
(* one complete recording open, a handler reads past the records of a side *)
(* in one case only: the number nobody gave the record of the empty        *)
(* last line of the left list, which open() takes for mEndIndex, is no     *)
(* index of a record.  The number in the right list does no harm, nor do   *)
(* the speed, the timers, the slider, the folder opened before, or the     *)
(* frame numbers counting from one and the records from zero.              *)
(***************************************************************************)
OverrunExplained == whole > 0 /\ mEndIndex \in 0..whole => ~overrun

(***************************************************************************)
(* The two images on the screen, when there are any, were taken together.  *)
(* (The record of the empty last line has no image.)                       *)
(***************************************************************************)
SidesInStep ==
  shown \in 0..(whole - 1) =>
    frames["left"][shown + 1] = frames["right"][shown + 1]

(***************************************************************************)
(* The timers that run are the one of mTimer while mbPlay, and those       *)
(* open() lost: pausing deletes a timer that runs, and never twice.        *)
(***************************************************************************)
TimersExplained ==
  timers = leaked \union (IF mbPlay THEN {mTimer} ELSE {})

(***************************************************************************)
(* While playing, the beginning comes round again, unless the user pauses  *)
(* or the player died: dragging the slider does not keep it from wrapping. *)
(***************************************************************************)
PlayWraps == []<>(~mbPlay \/ overrun \/ cursor = 2 * mStartIndex)

(***************************************************************************)
(* The comment of open(), "load the first frame": the images it shows are  *)
(* those of the first record.                                              *)
(***************************************************************************)
OpenShowsFirst == [][Open /\ whole' > 0 => shown' = 0]_vars
=============================================================================
