---------------------------- MODULE TrackingPlayer --------------------------
(***************************************************************************)
(* The player of the tracking window (trackingWindow.cpp): its slider is   *)
(* the cursor, every change of it runs updateImage, and a timer moves it   *)
(* on.  A recording is an index file of the format it reads, "index time"  *)
(* per line, and two folders of pictures.                                  *)
(***************************************************************************)
EXTENDS Integers

CONSTANTS
  Recordings,   \* what open() may be given, see RecordingsAssumption
  MaxTimers     \* bound: timers that run

\* The first and the last index, and how many lines open() has read; id tells
\* recordings of the same length apart.  For a file without a complete line
\* the code calls front() of an empty vector: such files are left out.
ASSUME RecordingsAssumption ==
  /\ \A r \in Recordings :
       r.first \in Nat /\ r.last \in Nat /\ r.lines \in Nat \ {0}
  /\ MaxTimers \in Nat

NoRecording == [id |-> "none", first |-> 1, last |-> 3, lines |-> 0]

VARIABLES
  recording,    \* mStartIndex, mEndIndex, mAllTimes and the folders
  cursor,       \* mSlider: its minimum, maximum and value
  mbPlay,
  timers,       \* how many timers call playVedio
  painted,      \* the picture and the time on screen: <<recording, index>>
  lost          \* mAllTimes was read out of its bounds

playerVars == <<recording, cursor, mbPlay, timers, painted, lost>>

PlayerTypeOK ==
  /\ recording \in Recordings \union {NoRecording}
  /\ cursor \in [min : Nat, max : Nat, value : Nat]
  /\ mbPlay \in BOOLEAN
  /\ timers \in 0..MaxTimers
  /\ lost \in BOOLEAN

PlayerInit ==
  /\ recording = NoRecording
  /\ cursor = [min |-> 1, max |-> 3, value |-> 2]
  /\ mbPlay = FALSE
  /\ timers = 0
  /\ painted = <<"none", 0>>
  /\ lost = FALSE

\* mAllTimes has an entry for the slider at v.
HasTime(r, v) == v - r.first \in 0..(r.lines - 1)

\* The slider moves to v, which runs updateImage.
MoveTo(v) ==
  /\ cursor' = [cursor EXCEPT !.value = v]
  /\ painted' = <<recording.id, v>>
  /\ lost' = ~HasTime(recording, v)

-----------------------------------------------------------------------------
\* Mutant: the slider keeps its minimum.
RangeKeepsMinimum(r) ==
  [min |-> cursor.min, max |-> r.last, value |-> r.first]
RangeOf(r) ==
  LET low == IF r.first <= r.last THEN r.first ELSE r.last
  IN [min |-> low, max |-> r.last, value |-> low]

\* open: the new times are read before the slider gets its minimum, maximum
\* and value, each of which may move it and run updateImage; at the end the
\* first picture is loaded.  A last index below the first one becomes minimum
\* and maximum.  Timers go on.
OpenRecording ==
  /\ \E r \in Recordings :
       LET up   == IF cursor.value < r.first THEN r.first ELSE cursor.value
           down == IF up > r.last THEN r.last ELSE up
           seen == {r.first} \union ({down} \ {up})
       IN /\ recording' = r
          /\ cursor' = RangeOf(r)
          /\ painted' = <<r.id, r.first>>
          /\ lost' = (\E v \in seen : ~HasTime(r, v))
  /\ mbPlay' = FALSE
  /\ UNCHANGED timers

Opened == recording # NoRecording

\* play(): a timer is started, or the newest one is stopped and deleted.
Play ==
  /\ Opened
  /\ \/ ~mbPlay /\ timers < MaxTimers /\ timers' = timers + 1
     \/ mbPlay /\ timers' = timers - 1
  /\ mbPlay' = ~mbPlay
  /\ UNCHANGED <<recording, cursor, painted, lost>>

\* next(), pressed while paused or called by a timer.
After(v)  == IF v + 1 > recording.last THEN recording.first ELSE v + 1
Before(v) == IF v - 1 < recording.first THEN recording.last ELSE v - 1

StepOn ==
  /\ Opened
  /\ ~mbPlay \/ timers > 0
  /\ After(cursor.value) # cursor.value
  /\ MoveTo(After(cursor.value))
  /\ UNCHANGED <<recording, mbPlay, timers>>

StepBack ==
  /\ Opened /\ ~mbPlay
  /\ Before(cursor.value) # cursor.value
  /\ MoveTo(Before(cursor.value))
  /\ UNCHANGED <<recording, mbPlay, timers>>

DragSlider ==
  /\ Opened
  /\ \E v \in (cursor.min..cursor.max) \ {cursor.value} : MoveTo(v)
  /\ UNCHANGED <<recording, mbPlay, timers>>

PlayerNext ==
  /\ ~lost
  /\ OpenRecording \/ Play \/ StepOn \/ StepBack \/ DragSlider

PlayerSpec == PlayerInit /\ [][PlayerNext]_playerVars

-----------------------------------------------------------------------------
\* The screen shows the frame of the open recording that the slider selects,
\* whatever was open before and however many timers go on; a time is read out
\* of bounds only for an index file that skips an index or counts down.
PlayerShowsSlider ==
  /\ Opened /\ ~lost =>
       /\ painted = <<recording.id, cursor.value>>
       /\ cursor.min = recording.first /\ cursor.max = recording.last
       /\ cursor.value \in cursor.min..cursor.max
       /\ HasTime(recording, cursor.value)
  /\ lost => \/ recording.lines <= recording.last - recording.first
             \/ recording.last < recording.first
=============================================================================
