------------------------------- MODULE Recorder ------------------------------
(***************************************************************************)
(* Recording, src/Blank/RecordWindow.cpp: the buttons of the record        *)
(* window, the frame sets that reach it, and the four file threads that    *)
(* turn each frame into a file and a line of the image list of its side.   *)
(*                                                                         *)
(*  UI thread    RecordFrame posts one SaveImage per side                  *)
(*  FILE1/FILE2  SaveImage writes the raw image, posts SaveListFile        *)
(*  FILE3/FILE4  SaveListFile converts it and appends a line to the list   *)
(*                                                                         *)
(* stopRecordVedio sends a closure down both pipelines behind the last     *)
(* frame; when it has come back from both the window says "saved" and      *)
(* gives its buttons back.  A window that is closed in between leaves the  *)
(* pipelines running, and another one may be opened.                       *)
(*                                                                         *)
(* A handler of the UI thread and a task of a file thread are one step:    *)
(* the threads share only the queues.                                      *)
(***************************************************************************)
EXTENDS Integers, Sequences, FiniteSets, SequencesExt

CONSTANTS
  Folders,       \* what the user may choose as ImagesFoler
  NullFrames,    \* TRUE: a frame may carry null data (its capture failed)
  MaxFrames,     \* bound: frame sets recorded in all
  MaxSessions,   \* bound: recordings started
  MaxWindows     \* bound: record windows opened

ASSUME RecorderAssumption ==
  /\ Folders # {}
  /\ NullFrames \in BOOLEAN
  /\ MaxFrames \in Nat /\ MaxSessions \in Nat
  /\ MaxWindows \in Nat \ {0}    \* the first window is open from the start

\* Camera id 0 is the left one, FILE1 and FILE3 are its threads; id 1, FILE2
\* and FILE4 are the right one's.
Sides == {"left", "right"}

VARIABLES
  window,       \* the RecordWindow: [id, open], and `since`, auxiliary: the
                \* recordings that were started before it was opened
  mbPlay, mbRecord, mbStop, mRecordCnt,
  waiting,      \* stop_record_waiting_threads_
  enabled,      \* the buttons that are enabled
  folder,       \* Paras::ImagesFoler
  saveQ,        \* message queues of FILE1 and FILE2
  listQ,        \* message queues of FILE3 and FILE4
  doneQ,        \* OnRecorderSaveDone closures posted back to the UI loop
  list,         \* lines of the image list of each side, over all folders
  crashed,      \* a null frame was dereferenced
  session,      \* auxiliary: recordings started so far
  recorded,     \* auxiliary: the frame sets counted by mRecordCnt
  lost          \* auxiliary: frames dropped by a failed read, write or convert

uiVars   == <<window, mbPlay, mbRecord, mbStop, mRecordCnt, waiting, enabled, folder>>
fileVars == <<saveQ, listQ, list, crashed, lost>>
vars     == <<uiVars, fileVars, doneQ, session, recorded>>

Buttons == {"play", "record", "stop", "folder"}

\* A frame on its way through a pipeline, and the closure that follows the
\* last frame of a recording.
Frame(s, n, f, null) == [kind |-> "frame", session |-> s, seq |-> n, folder |-> f, null |-> null]
Closure(w)           == [kind |-> "done", window |-> w]
Line(t)              == [session |-> t.session, seq |-> t.seq, folder |-> t.folder]

TypeOK ==
  /\ window \in [id : 1..MaxWindows, open : BOOLEAN, since : 0..MaxSessions]
  /\ {mbPlay, mbRecord, mbStop, crashed} \subseteq BOOLEAN
  /\ mRecordCnt \in 0..MaxFrames
  /\ waiting \in 0..2
  /\ enabled \subseteq Buttons
  /\ folder \in Folders
  /\ session \in 0..MaxSessions
  /\ \A s \in Sides :
       /\ \A t \in ToSet(saveQ[s]) \union ToSet(listQ[s]) :
            \/ t.kind = "done" /\ t.window \in 1..MaxWindows
            \/ t.kind = "frame" /\ Line(t) \in recorded
       /\ ToSet(list[s]) \subseteq recorded
  /\ \A i \in 1..Len(doneQ) : doneQ[i] \in 1..MaxWindows

FreshWindow(id) ==
  /\ window' = [id |-> id, open |-> TRUE, since |-> session]
  /\ mbPlay' = FALSE
  /\ mbRecord' = FALSE
  /\ mbStop' = TRUE
  /\ enabled' = {"play", "folder"}

Init ==
  /\ window = [id |-> 1, open |-> TRUE, since |-> 0]
  /\ mbPlay = FALSE
  /\ mbRecord = FALSE
  /\ mbStop = TRUE
  /\ mRecordCnt = 0
  /\ waiting = 0
  /\ enabled = {"play", "folder"}
  /\ folder \in Folders
  /\ saveQ = [s \in Sides |-> <<>>]
  /\ listQ = [s \in Sides |-> <<>>]
  /\ doneQ = <<>>
  /\ list = [s \in Sides |-> <<>>]
  /\ crashed = FALSE
  /\ session = 0
  /\ recorded = {}
  /\ lost = {}

\* The user can press a button of an open window that is enabled.
Press(b) == ~crashed /\ window.open /\ b \in enabled
-----------------------------------------------------------------------------
(***************************************************************************)
(* Faulty variants, one per property: what the run must notice.            *)
(***************************************************************************)
\* A closure that reaches FILE3 or FILE4 is not sent on to the UI loop.
SaveListFileDropsClosure(s) ==
  /\ listQ[s] # <<>>
  /\ listQ' = [listQ EXCEPT ![s] = Tail(@)]
  /\ IF Head(listQ[s]).kind = "done"
       THEN UNCHANGED list
       ELSE list' = [list EXCEPT ![s] = Append(@, Line(Head(listQ[s])))]
  /\ UNCHANGED <<uiVars, saveQ, crashed, lost, doneQ, session, recorded>>

\* The list is rewritten from its first line whenever FILE3 appends.
SaveListFileTruncates(s) ==
  /\ listQ[s] # <<>>
  /\ Head(listQ[s]).kind = "frame"
  /\ listQ' = [listQ EXCEPT ![s] = Tail(@)]
  /\ list' = [list EXCEPT ![s] = <<Line(Head(listQ[s]))>>]
  /\ UNCHANGED <<uiVars, saveQ, crashed, lost, doneQ, session, recorded>>

\* stopRecordVedio leaves mbRecord as it is.
StopRecordingKeepsRecord ==
  /\ mbStop' = TRUE
  /\ waiting' = 2
  /\ saveQ' = [s \in Sides |-> Append(saveQ[s], Closure(window.id))]
  /\ UNCHANGED mbRecord

\* The folder button stays enabled during a recording.
PressRecordKeepsFolder ==
  /\ Press("record")
  /\ mbRecord' = ~mbRecord
  /\ IF ~mbRecord /\ mbStop
       THEN /\ session < MaxSessions
            /\ session' = session + 1
            /\ mbStop' = FALSE
            /\ mRecordCnt' = 0
            /\ enabled' = (enabled \union {"stop"}) \ {"play"}
       ELSE UNCHANGED <<session, mbStop, mRecordCnt, enabled>>
  /\ UNCHANGED <<window, mbPlay, waiting, folder, fileVars, doneQ, recorded>>

\* The record button comes back with the first of the two closures.
SaveDoneEarly ==
  /\ doneQ # <<>>
  /\ doneQ' = Tail(doneQ)
  /\ waiting' = waiting - 1
  /\ enabled' = enabled \union {"play", "record", "folder"}
  /\ UNCHANGED <<window, mbPlay, mbRecord, mbStop, mRecordCnt, folder,
                 fileVars, session, recorded>>

\* The closure is bound to the window itself, not to a weak pointer.
SaveDoneUnguarded ==
  /\ doneQ # <<>>
  /\ doneQ' = Tail(doneQ)
  /\ waiting' = waiting - 1
  /\ enabled' = enabled \union {"play", "record", "folder"}
  /\ UNCHANGED <<window, mbPlay, mbRecord, mbStop, mRecordCnt, folder,
                 fileVars, session, recorded>>
-----------------------------------------------------------------------------
(***************************************************************************)
(* The UI thread.                                                          *)
(***************************************************************************)
\* preview() with no preview on: the cameras are found and started.  (When
\* they are not, nothing changes but the caption of the button.)
StartPreview ==
  /\ Press("play")
  /\ ~mbPlay
  /\ mbPlay' = TRUE
  /\ enabled' = enabled \union {"record"}
  /\ UNCHANGED <<window, mbRecord, mbStop, mRecordCnt, waiting, folder,
                 fileVars, doneQ, session, recorded>>

StopPreview ==
  /\ Press("play")
  /\ mbPlay
  /\ mbPlay' = FALSE
  /\ enabled' = enabled \ {"record"}
  /\ UNCHANGED <<window, mbRecord, mbStop, mRecordCnt, waiting, folder,
                 fileVars, doneQ, session, recorded>>

\* selectSaveFolder.
SelectFolder ==
  /\ Press("folder")
  /\ \E f \in Folders \ {folder} : folder' = f
  /\ UNCHANGED <<window, mbPlay, mbRecord, mbStop, mRecordCnt, waiting,
                 enabled, fileVars, doneQ, session, recorded>>

\* recordVedio: the first press starts a recording, each press after it
\* pauses or resumes it.
PressRecord ==
  /\ Press("record")
  /\ mbRecord' = ~mbRecord
  /\ IF ~mbRecord /\ mbStop
       THEN /\ session < MaxSessions
            /\ session' = session + 1
            /\ mbStop' = FALSE
            /\ mRecordCnt' = 0
            /\ enabled' = (enabled \union {"stop"}) \ {"play", "folder"}
       ELSE UNCHANGED <<session, mbStop, mRecordCnt, enabled>>
  /\ UNCHANGED <<window, mbPlay, waiting, folder, fileVars, doneQ, recorded>>

\* stopRecordVedio.
StopRecording ==
  /\ mbStop' = TRUE
  /\ mbRecord' = FALSE
  /\ waiting' = 2
  /\ saveQ' = [s \in Sides |-> Append(saveQ[s], Closure(window.id))]

PressStop ==
  /\ Press("stop")
  /\ StopRecording
  /\ enabled' = enabled \ {"stop", "record"}
  /\ UNCHANGED <<window, mbPlay, mRecordCnt, folder, listQ, list, crashed,
                 lost, doneQ, session, recorded>>

\* RecordFrame: a set that lacks a camera is dropped, before it is counted.
RecordFrame ==
  /\ ~crashed
  /\ mbPlay /\ mbRecord
  /\ Cardinality(recorded) < MaxFrames
  /\ mRecordCnt' = mRecordCnt + 1
  /\ recorded' = recorded \union
       {[session |-> session, seq |-> mRecordCnt + 1, folder |-> folder]}
  /\ \E null \in [Sides -> IF NullFrames THEN BOOLEAN ELSE {FALSE}] :
       saveQ' = [s \in Sides |-> Append(saveQ[s],
                   Frame(session, mRecordCnt + 1, folder, null[s]))]
  /\ UNCHANGED <<window, mbPlay, mbRecord, mbStop, waiting, enabled, folder,
                 listQ, list, crashed, lost, doneQ, session>>

\* OnRecorderSaveDone, bound to a weak pointer: the closure of a window that
\* is gone does nothing.
SaveDone ==
  /\ ~crashed
  /\ doneQ # <<>>
  /\ doneQ' = Tail(doneQ)
  /\ IF window.open /\ Head(doneQ) = window.id
       THEN /\ waiting' = waiting - 1
            /\ enabled' = IF waiting = 1
                            THEN enabled \union {"play", "record", "folder"}
                            ELSE enabled
       ELSE UNCHANGED <<waiting, enabled>>
  /\ UNCHANGED <<window, mbPlay, mbRecord, mbStop, mRecordCnt, folder,
                 fileVars, session, recorded>>

\* ~RecordWindow: closeRecordWindow stops a recording, then the preview.
CloseWindow ==
  /\ ~crashed
  /\ window.open
  /\ window' = [window EXCEPT !.open = FALSE]
  /\ mbPlay' = FALSE
  /\ IF mbStop THEN UNCHANGED <<mbStop, mbRecord, waiting, saveQ>> ELSE StopRecording
  /\ UNCHANGED <<mRecordCnt, enabled, folder, listQ, list, crashed, lost,
                 doneQ, session, recorded>>

OpenWindow ==
  /\ ~crashed
  /\ ~window.open
  /\ window.id < MaxWindows
  /\ FreshWindow(window.id + 1)
  /\ waiting' = 0
  /\ mRecordCnt' = 0
  /\ UNCHANGED <<folder, fileVars, doneQ, session, recorded>>
-----------------------------------------------------------------------------
(***************************************************************************)
(* The file threads.                                                       *)
(***************************************************************************)
\* SaveImage on FILE1 or FILE2; RunInFileThread for the closure.  A short
\* write is logged and the frame forgotten.  frame.data is not tested.
SaveImage(s) ==
  /\ ~crashed
  /\ saveQ[s] # <<>>
  /\ LET task == Head(saveQ[s]) IN
       /\ saveQ' = [saveQ EXCEPT ![s] = Tail(@)]
       /\ IF task.kind = "frame" /\ task.null
            THEN crashed' = TRUE /\ UNCHANGED <<listQ, lost>>
            ELSE /\ \/ listQ' = [listQ EXCEPT ![s] = Append(@, task)] /\ UNCHANGED lost
                    \/ /\ task.kind = "frame"
                       /\ lost' = lost \union {<<s, Line(task)>>}
                       /\ UNCHANGED listQ
                 /\ UNCHANGED crashed
  /\ UNCHANGED <<uiVars, list, doneQ, session, recorded>>

\* SaveListFile on FILE3 or FILE4; RunInFileThread2 for the closure.  Every
\* failure returns without a word.
SaveListFile(s) ==
  /\ ~crashed
  /\ listQ[s] # <<>>
  /\ LET task == Head(listQ[s]) IN
       /\ listQ' = [listQ EXCEPT ![s] = Tail(@)]
       /\ IF task.kind = "done"
            THEN doneQ' = Append(doneQ, task.window) /\ UNCHANGED <<list, lost>>
            ELSE /\ \/ list' = [list EXCEPT ![s] = Append(@, Line(task))] /\ UNCHANGED lost
                    \/ lost' = lost \union {<<s, Line(task)>>} /\ UNCHANGED list
                 /\ UNCHANGED doneQ
  /\ UNCHANGED <<uiVars, saveQ, crashed, session, recorded>>

\* The process is gone, or nobody opens another window.
Stopped == (crashed \/ ~window.open) /\ UNCHANGED vars

Next ==
  \/ StartPreview \/ StopPreview \/ SelectFolder
  \/ PressRecord \/ PressStop
  \/ RecordFrame \/ SaveDone
  \/ CloseWindow \/ OpenWindow
  \/ \E s \in Sides : SaveImage(s) \/ SaveListFile(s)
  \/ Stopped

Spec == Init /\ [][Next]_vars

\* The file threads and the UI loop run what is queued.  The user and the
\* cameras owe nothing.
FairSpec ==
  /\ Spec
  /\ \A s \in Sides : WF_vars(SaveImage(s)) /\ WF_vars(SaveListFile(s))
  /\ WF_vars(SaveDone)
-----------------------------------------------------------------------------
(***************************************************************************)
(* Properties.                                                             *)
(***************************************************************************)
Queued(s)   == ToSet(saveQ[s]) \union ToSet(listQ[s])
QueuedFrames(s) == {t \in Queued(s) : t.kind = "frame"}
Count(q, x)     == Cardinality({i \in DOMAIN q : q[i] = x})

(***************************************************************************)
(* "Saved" is said, and the buttons come back, only when nothing this      *)
(* window recorded is left in any of the four file threads: the closures   *)
(* travel FILE1 to FILE3 and FILE2 to FILE4 behind the frames.             *)
(***************************************************************************)
SavedMeansDrained ==
  window.open /\ mbStop /\ {"play", "record"} \subseteq enabled =>
    \A s \in Sides : \A t \in Queued(s) :
      \/ t.kind = "frame" /\ t.session <= window.since
      \/ t.kind = "done" /\ t.window # window.id

(***************************************************************************)
(* stop_record_waiting_threads_ is the number of closures of this window   *)
(* still on their way, wherever they are: it reaches zero exactly when     *)
(* the second one is back, and closures of closed windows never count.     *)
(***************************************************************************)
WaitingIsClosures ==
  window.open /\ ~crashed =>
    LET closures(q) == Count(q, Closure(window.id)) IN
      waiting = closures(saveQ["left"]) + closures(saveQ["right"])
              + closures(listQ["left"]) + closures(listQ["right"])
              + Count(doneQ, window.id)

(***************************************************************************)
(* Every frame set that mRecordCnt counted is, on each side, in a queue,   *)
(* in the image list, or lost to a failure of the file system: pausing,    *)
(* stopping and closing the window lose nothing.                           *)
(***************************************************************************)
FrameAccounting ==
  ~crashed => \A s \in Sides :
    recorded = ToSet(list[s]) \union {Line(t) : t \in QueuedFrames(s)}
                 \union {l \in recorded : <<s, l>> \in lost}

(***************************************************************************)
(* The image list of a side is in the order of capture, without            *)
(* repetitions, over pauses, recordings and windows: replay depends on it. *)
(***************************************************************************)
Earlier(a, b) == a.session < b.session \/ (a.session = b.session /\ a.seq < b.seq)
ListsInOrder ==
  \A s \in Sides : \A i, j \in 1..Len(list[s]) :
    i < j => Earlier(list[s][i], list[s][j])

(***************************************************************************)
(* One recording goes to one folder: the folder cannot be changed before   *)
(* its last frame was counted.                                             *)
(***************************************************************************)
OneFolder ==
  \A a, b \in recorded : a.session = b.session => a.folder = b.folder

(***************************************************************************)
(* A recording can only be started while the preview runs, although the    *)
(* record button is given back by a closure that comes late.               *)
(***************************************************************************)
RecordNeedsPreview == window.open /\ "record" \in enabled => mbPlay

(***************************************************************************)
(* After stop, the window gets its buttons back, unless it is closed or    *)
(* the process dies.                                                       *)
(***************************************************************************)
StopIsAcknowledged ==
  (waiting > 0) ~> (waiting = 0 \/ ~window.open \/ crashed)

(***************************************************************************)
(* While a stopped window waits, every step but its end brings "saved"     *)
(* nearer: no button can be pressed, no frame arrives, and a file thread   *)
(* hands on no more than it takes.                                         *)
(***************************************************************************)
Backlog ==
  3 * (Len(saveQ["left"]) + Len(saveQ["right"]))
    + 2 * (Len(listQ["left"]) + Len(listQ["right"])) + Len(doneQ)
StopDrains ==
  [][window.open /\ waiting > 0 =>
       crashed' \/ ~window'.open \/ Backlog' < Backlog]_vars

(***************************************************************************)
(* The promise of FrameArchive: its pending frames are those in the queues *)
(* of a side, and an open window is saving while it waits for closures.    *)
(***************************************************************************)
Archive == INSTANCE FrameArchive WITH
  Lines   <- [session : 1..MaxSessions, seq : 1..MaxFrames, folder : Folders],
  taken   <- recorded,
  pending <- [s \in Sides |-> {Line(t) : t \in QueuedFrames(s)}],
  stored  <- list,
  phase   <- IF ~window.open THEN "closed" ELSE IF waiting > 0 THEN "saving" ELSE "open",
  since   <- window.since,
  died    <- crashed

\* Every step of the window and of the file threads is a step of FrameArchive,
\* or changes nothing there.
ImplementsArchive == Archive!ArchiveSpec

(***************************************************************************)
(* The comment of CameraPumpDelegate::OnFrame ("data is the frame's data,  *)
(* valid when not null"): a frame without data is survived.                *)
(***************************************************************************)
NullFrameSurvived == ~crashed
=============================================================================
