--------------------------- MODULE RecorderProofs ---------------------------
(***************************************************************************)
(* Proofs about Recorder, for any number of frames, recordings, windows    *)
(* and folders: the buttons, the order and the completeness of the image   *)
(* lists, and what "saved" means.                                          *)
(***************************************************************************)
EXTENDS Recorder, SequenceLemmas

Lines    == [session : Nat, seq : Nat, folder : Folders]
Frames   == [kind : {"frame"}, session : Nat, seq : Nat, folder : Folders, null : BOOLEAN]
Closures == [kind : {"done"}, window : Nat]
FileTask == Frames \union Closures

\* TypeOK without the bounds, and with the queues as sequences.
Scalars ==
  /\ window \in [id : Nat, open : BOOLEAN, since : Nat]
  /\ mbPlay \in BOOLEAN /\ mbRecord \in BOOLEAN /\ mbStop \in BOOLEAN
  /\ crashed \in BOOLEAN
  /\ mRecordCnt \in Nat
  /\ waiting \in Int
  /\ enabled \subseteq Buttons
  /\ folder \in Folders
  /\ session \in Nat
  /\ recorded \subseteq Lines

Queues ==
  /\ saveQ \in [Sides -> Seq(FileTask)]
  /\ listQ \in [Sides -> Seq(FileTask)]
  /\ list \in [Sides -> Seq(Lines)]
  /\ doneQ \in Seq(Nat)

Types == Scalars /\ Queues

\* Which buttons are enabled when.
ButtonsInv ==
  /\ mbPlay => window.open
  /\ mbRecord => ~mbStop
  /\ ~mbStop => /\ window.open /\ mbPlay /\ waiting <= 0
                /\ "play" \notin enabled /\ "folder" \notin enabled
  /\ window.open /\ "record" \in enabled => mbPlay
  /\ window.open /\ "stop" \in enabled => ~mbStop
  /\ window.open /\ waiting > 0 => mbStop /\ mbPlay /\ enabled = {}

\* The frames of the recording that goes on, and of those before it.
FolderInv ==
  /\ \A a \in recorded : a.session <= session
  /\ ~mbStop => \A a \in recorded : a.session = session =>
                  a.folder = folder /\ a.seq <= mRecordCnt
  /\ OneFolder

Known(t) ==
  /\ t.kind = "frame" => Line(t) \in recorded
  /\ t.kind = "done" => t.window <= window.id

\* What is in the queues and lists, and that it is all there.
ContentInv ==
  /\ \A s \in Sides : \A t \in Queued(s) : Known(t)
  /\ \A s \in Sides : ToSet(list[s]) \subseteq recorded
  /\ \A d \in ToSet(doneQ) : d <= window.id
  /\ FrameAccounting

\* The order of capture, in each queue and from one to the next.
Before(t, u) == t.kind = "frame" /\ u.kind = "frame" => Earlier(Line(t), Line(u))
Sorted(q)    == \A i, j \in DOMAIN q : i < j => Before(q[i], q[j])

OrderInv ==
  \A s \in Sides :
    /\ Sorted(saveQ[s]) /\ Sorted(listQ[s])
    /\ \A t \in ToSet(listQ[s]), u \in ToSet(saveQ[s]) : Before(t, u)
    /\ \A x \in ToSet(list[s]), t \in Queued(s) :
         t.kind = "frame" => Earlier(x, Line(t))
    /\ \A i, j \in DOMAIN list[s] : i < j => Earlier(list[s][i], list[s][j])

\* What window w has put into the pipeline of a side (sq its first queue, lq
\* its second), its closure last; stopped: w is not recording.
Own(w, t)     == (t.kind = "frame" /\ t.session > w.since) \/ t = Closure(w.id)
Behind(w, q)  == \A i, j \in DOMAIN q : q[i] = Closure(w.id) /\ i < j => ~Own(w, q[j])
InSide(w, sq, lq) == Times(sq, Closure(w.id)) + Times(lq, Closure(w.id))

ClosureLast(w, stopped, sq, lq) ==
  /\ InSide(w, sq, lq) <= 1
  /\ Behind(w, sq) /\ Behind(w, lq)
  /\ Closure(w.id) \in ToSet(lq) => \A t \in ToSet(sq) : ~Own(w, t)
  /\ stopped /\ Closure(w.id) \notin ToSet(sq) \union ToSet(lq) =>
       \A t \in ToSet(sq) \union ToSet(lq) : ~Own(w, t)

Mine == Closure(window.id)
OnTheWay == InSide(window, saveQ["left"], listQ["left"])
              + InSide(window, saveQ["right"], listQ["right"]) + Times(doneQ, window.id)

ClosureInv ==
  window.open =>
    /\ waiting = OnTheWay
    /\ \A s \in Sides : ClosureLast(window, mbStop, saveQ[s], listQ[s])

Inv == Types /\ ButtonsInv /\ FolderInv /\ ContentInv /\ OrderInv /\ ClosureInv

-----------------------------------------------------------------------------
\* Records.
LEMMA RecordFacts ==
  /\ \A w \in Nat : Closure(w) \in FileTask /\ Closure(w).kind = "done" /\ Closure(w).window = w
  /\ \A s, n \in Nat : \A f \in Folders : \A b \in BOOLEAN :
       /\ Frame(s, n, f, b) \in FileTask /\ Frame(s, n, f, b).kind = "frame"
       /\ Line(Frame(s, n, f, b)) = [session |-> s, seq |-> n, folder |-> f]
       /\ Frame(s, n, f, b).session = s
  /\ \A t \in FileTask : /\ t.kind \in {"frame", "done"}
                         /\ t.kind = "frame" => Line(t) \in Lines /\ Line(t).session = t.session
                         /\ t.kind = "done" => t.window \in Nat /\ t = Closure(t.window)
<1>1. \A w \in Nat : Closure(w) \in FileTask /\ Closure(w).kind = "done" /\ Closure(w).window = w
  BY DEF Closure, FileTask, Closures
<1>2. \A s, n \in Nat : \A f \in Folders : \A b \in BOOLEAN :
        /\ Frame(s, n, f, b) \in FileTask /\ Frame(s, n, f, b).kind = "frame"
        /\ Line(Frame(s, n, f, b)) = [session |-> s, seq |-> n, folder |-> f]
        /\ Frame(s, n, f, b).session = s
  BY DEF Frame, FileTask, Frames, Line
<1>3. ASSUME NEW t \in FileTask
      PROVE  /\ t.kind \in {"frame", "done"}
             /\ t.kind = "frame" => Line(t) \in Lines /\ Line(t).session = t.session
             /\ t.kind = "done" => t.window \in Nat /\ t = Closure(t.window)
  <2>1. CASE t \in Frames  BY <2>1 DEF Frames, Lines, Line
  <2>2. CASE t \in Closures  BY <2>2 DEF Closures, Closure
  <2> QED BY <2>1, <2>2 DEF FileTask
<1> QED BY <1>1, <1>2, <1>3

\* The closure of the window is no frame.
LEMMA MineFacts ==
  ASSUME Types
  PROVE  Mine \in FileTask /\ Mine.kind = "done" /\ Mine.window = window.id
BY RecordFacts DEF Types, Scalars, Mine

LEMMA SideQueues ==
  ASSUME Types, NEW s \in Sides
  PROVE  /\ saveQ[s] \in Seq(FileTask) /\ listQ[s] \in Seq(FileTask) /\ list[s] \in Seq(Lines)
         /\ Queued(s) = ToSet(saveQ[s]) \union ToSet(listQ[s])
BY DEF Types, Queues, Queued

\* No closure of the window is on its way while it records.
LEMMA NoClosure ==
  ASSUME Types, ClosureInv, window.open, waiting <= 0
  PROVE  /\ Times(doneQ, window.id) = 0
         /\ \A s \in Sides : /\ Times(saveQ[s], Mine) = 0 /\ Times(listQ[s], Mine) = 0
                             /\ Mine \notin Queued(s)
<1>1. \A s \in Sides : Times(saveQ[s], Mine) \in Nat /\ Times(listQ[s], Mine) \in Nat
  BY SideQueues, TimesFacts
<1>2. Times(doneQ, window.id) \in Nat
  <2>1. doneQ \in Seq(Nat)  BY DEF Types, Queues
  <2> QED BY <2>1, TimesFacts
<1>3. /\ "left" \in Sides /\ "right" \in Sides /\ \A s \in Sides : s = "left" \/ s = "right"
  BY DEF Sides
<1>4. /\ waiting = Times(saveQ["left"], Mine) + Times(listQ["left"], Mine)
               + (Times(saveQ["right"], Mine) + Times(listQ["right"], Mine))
               + Times(doneQ, window.id)
  BY DEF ClosureInv, OnTheWay, InSide, Mine
<1>5. Times(doneQ, window.id) = 0
      /\ \A s \in Sides : Times(saveQ[s], Mine) = 0 /\ Times(listQ[s], Mine) = 0
  <2> DEFINE a == Times(saveQ["left"], Mine)
             b == Times(saveQ["right"], Mine)
             c == Times(listQ["left"], Mine)
             d == Times(listQ["right"], Mine)
             e == Times(doneQ, window.id)
  <2>1. a \in Nat /\ b \in Nat /\ c \in Nat /\ d \in Nat /\ e \in Nat /\ a + b + c + d + e <= 0
    BY <1>1, <1>2, <1>3, <1>4
  <2>2. a = 0 /\ b = 0 /\ c = 0 /\ d = 0 /\ e = 0
    <3> HIDE DEF a, b, c, d, e
    <3> QED BY <2>1
  <2> QED BY <2>2, <1>3
<1>6. \A s \in Sides : Mine \notin Queued(s)
  BY <1>5, SideQueues, TimesFacts
<1> QED BY <1>5, <1>6

-----------------------------------------------------------------------------
(***************************************************************************)
(* Buttons and folder.                                                     *)
(***************************************************************************)
LEMMA TypesNext == Types /\ [Next]_vars => Types'
<1> SUFFICES ASSUME Types, [Next]_vars PROVE Types'
  OBVIOUS
<1> USE DEF Types, Scalars, Queues
<1>1. CASE UNCHANGED vars  BY <1>1 DEF vars, uiVars, fileVars
<1>2. CASE StartPreview
  BY <1>2 DEF StartPreview, Press, fileVars, Buttons
<1>3. CASE StopPreview
  BY <1>3 DEF StopPreview, Press, fileVars
<1>4. CASE SelectFolder
  BY <1>4 DEF SelectFolder, Press, fileVars
<1>5. CASE PressRecord
  <2>1. /\ mbRecord' = ~mbRecord
        /\ UNCHANGED <<window, mbPlay, waiting, folder, saveQ, listQ, list, crashed,
                       doneQ, recorded>>
    BY <1>5 DEF PressRecord, fileVars
  <2>2. /\ mbRecord' \in BOOLEAN /\ mbStop' \in BOOLEAN /\ session' \in Nat
        /\ mRecordCnt' \in Nat /\ enabled' \subseteq Buttons
    <3>1. CASE ~mbRecord /\ mbStop
      <4>1. /\ session' = session + 1 /\ mbStop' = FALSE /\ mRecordCnt' = 0
            /\ enabled' = (enabled \union {"stop"}) \ {"play", "folder"}
        BY <1>5, <3>1 DEF PressRecord
      <4>2. enabled' \subseteq Buttons  BY <4>1 DEF Buttons
      <4>3. mbRecord' \in BOOLEAN  BY <2>1
      <4>4. session' \in Nat /\ mRecordCnt' \in Nat  BY <4>1
      <4>5. mbStop' \in BOOLEAN  BY <4>1
      <4> QED BY <4>2, <4>3, <4>4, <4>5
    <3>2. CASE ~(~mbRecord /\ mbStop)
      <4>1. UNCHANGED <<session, mbStop, mRecordCnt, enabled>>
        BY <1>5, <3>2 DEF PressRecord
      <4> QED BY <2>1, <4>1
    <3> QED BY <3>1, <3>2
  <2> QED BY <2>1, <2>2
<1> DEFINE Stopping == saveQ' = [s \in Sides |-> Append(saveQ[s], Closure(window.id))]
<1>6. Stopping => saveQ' \in [Sides -> Seq(FileTask)]
  <2>1. Closure(window.id) \in FileTask  BY RecordFacts
  <2>2. \A s \in Sides : Append(saveQ[s], Closure(window.id)) \in Seq(FileTask)
    BY <2>1
  <2> QED BY <2>2
<1> HIDE DEF Stopping
<1>7. CASE PressStop
  <2>1. Stopping  BY <1>7 DEF PressStop, StopRecording, Stopping
  <2>2. /\ mbStop' = TRUE /\ mbRecord' = FALSE /\ waiting' = 2
        /\ enabled' = enabled \ {"stop", "record"}
        /\ UNCHANGED <<window, mbPlay, mRecordCnt, folder, listQ, list, crashed,
                       doneQ, session, recorded>>
    BY <1>7 DEF PressStop, StopRecording
  <2>3. enabled' \subseteq Buttons  BY <2>2
  <2>6. mbStop' \in BOOLEAN /\ mbRecord' \in BOOLEAN  BY <2>2
  <2>7. waiting' \in Int  BY <2>2
  <2>4. Scalars'  BY <2>2, <2>3, <2>6, <2>7
  <2>5. Queues'  BY <2>1, <2>2, <1>6
  <2> QED BY <2>4, <2>5
<1>8. CASE RecordFrame
  <2>1. PICK null \in [Sides -> IF NullFrames THEN BOOLEAN ELSE {FALSE}] :
          saveQ' = [s \in Sides |-> Append(saveQ[s],
                      Frame(session, mRecordCnt + 1, folder, null[s]))]
    BY <1>8 DEF RecordFrame
  <2>2. \A s \in Sides : null[s] \in BOOLEAN  OBVIOUS
  <2>3. \A s \in Sides : Frame(session, mRecordCnt + 1, folder, null[s]) \in FileTask
    BY <2>2, RecordFacts
  <2>4. saveQ' \in [Sides -> Seq(FileTask)]  BY <2>1, <2>3
  <2>5. /\ mRecordCnt' = mRecordCnt + 1
        /\ recorded' = recorded \union
             {[session |-> session, seq |-> mRecordCnt + 1, folder |-> folder]}
        /\ UNCHANGED <<window, mbPlay, mbRecord, mbStop, waiting, enabled, folder,
                       listQ, list, crashed, doneQ, session>>
    BY <1>8 DEF RecordFrame
  <2>6. recorded' \subseteq Lines  BY <2>5 DEF Lines
  <2> QED BY <2>4, <2>5, <2>6
<1>9. CASE SaveDone
  <2>1. /\ doneQ # <<>> /\ doneQ' = Tail(doneQ)
        /\ UNCHANGED <<window, mbPlay, mbRecord, mbStop, mRecordCnt, folder, saveQ,
                       listQ, list, crashed, session, recorded>>
    BY <1>9 DEF SaveDone, fileVars
  <2>2. doneQ' \in Seq(Nat)  BY <2>1
  <2>3. waiting' \in Int /\ enabled' \subseteq Buttons
    <3>1. \/ UNCHANGED <<waiting, enabled>>
          \/ /\ waiting' = waiting - 1
             /\ \/ enabled' = enabled
                \/ enabled' = enabled \union {"play", "record", "folder"}
      BY <1>9 DEF SaveDone
    <3>2. {"play", "record", "folder"} \subseteq Buttons  BY DEF Buttons
    <3>3. enabled' \subseteq Buttons  BY <3>1, <3>2
    <3>4. waiting' \in Int  BY <3>1
    <3> QED BY <3>3, <3>4
  <2> QED BY <2>1, <2>2, <2>3
<1>10. CASE CloseWindow
  <2>1. saveQ' \in [Sides -> Seq(FileTask)] /\ mbStop' \in BOOLEAN /\ mbRecord' \in BOOLEAN
        /\ waiting' \in Int
    <3>1. CASE mbStop  BY <3>1, <1>10 DEF CloseWindow
    <3>2. CASE ~mbStop
      <4>1. Stopping  BY <3>2, <1>10 DEF CloseWindow, StopRecording, Stopping
      <4>2. mbStop' = TRUE /\ mbRecord' = FALSE /\ waiting' = 2
        BY <3>2, <1>10 DEF CloseWindow, StopRecording
      <4>3. saveQ' \in [Sides -> Seq(FileTask)]  BY <4>1, <1>6
      <4>4. mbStop' \in BOOLEAN /\ mbRecord' \in BOOLEAN  BY <4>2
      <4>5. waiting' \in Int  BY <4>2
      <4> QED BY <4>3, <4>4, <4>5
    <3> QED BY <3>1, <3>2
  <2>2. window' \in [id : Nat, open : BOOLEAN, since : Nat]
    BY <1>10 DEF CloseWindow
  <2> QED BY <2>1, <2>2, <1>10 DEF CloseWindow
<1>11. CASE OpenWindow
  <2>1. /\ window' = [id |-> window.id + 1, open |-> TRUE, since |-> session]
        /\ mbPlay' = FALSE /\ mbRecord' = FALSE /\ mbStop' = TRUE
        /\ enabled' = {"play", "folder"} /\ waiting' = 0 /\ mRecordCnt' = 0
        /\ UNCHANGED <<folder, saveQ, listQ, list, crashed, doneQ, session, recorded>>
    BY <1>11 DEF OpenWindow, FreshWindow, fileVars
  <2>2. window' \in [id : Nat, open : BOOLEAN, since : Nat]  BY <2>1
  <2>3. enabled' \subseteq Buttons  BY <2>1 DEF Buttons
  <2>6. mbPlay' \in BOOLEAN /\ mbRecord' \in BOOLEAN /\ mbStop' \in BOOLEAN  BY <2>1
  <2>7. waiting' \in Int /\ mRecordCnt' \in Nat  BY <2>1
  <2>4. Scalars'  BY <2>1, <2>2, <2>3, <2>6, <2>7
  <2>5. Queues'  BY <2>1
  <2> QED BY <2>4, <2>5
<1>12. ASSUME NEW s \in Sides, SaveImage(s) PROVE Types'
  <2> DEFINE task == Head(saveQ[s])
  <2>1. /\ saveQ[s] # <<>> /\ saveQ' = [saveQ EXCEPT ![s] = Tail(@)]
        /\ UNCHANGED <<window, mbPlay, mbRecord, mbStop, mRecordCnt, waiting, enabled,
                       folder, list, doneQ, session, recorded>>
    BY <1>12 DEF SaveImage, uiVars
  <2>2. Tail(saveQ[s]) \in Seq(FileTask) /\ task \in FileTask
    BY <2>1, TailFacts
  <2>3. saveQ' \in [Sides -> Seq(FileTask)]  BY <2>1, <2>2
  <2>4. listQ' = listQ \/ listQ' = [listQ EXCEPT ![s] = Append(@, task)]
    BY <1>12 DEF SaveImage
  <2>5. crashed' \in BOOLEAN  BY <1>12 DEF SaveImage
  <2> HIDE DEF task
  <2>6. Append(listQ[s], task) \in Seq(FileTask)  BY <2>2
  <2>7. listQ' \in [Sides -> Seq(FileTask)]  BY <2>4, <2>6
  <2> QED BY <2>1, <2>3, <2>5, <2>7
<1>13. ASSUME NEW s \in Sides, SaveListFile(s) PROVE Types'
  <2> DEFINE task == Head(listQ[s])
  <2>1. /\ listQ[s] # <<>> /\ listQ' = [listQ EXCEPT ![s] = Tail(@)]
        /\ UNCHANGED <<window, mbPlay, mbRecord, mbStop, mRecordCnt, waiting, enabled,
                       folder, saveQ, crashed, session, recorded>>
    BY <1>13 DEF SaveListFile, uiVars
  <2>2. Tail(listQ[s]) \in Seq(FileTask) /\ task \in FileTask
    BY <2>1, TailFacts
  <2>3. listQ' \in [Sides -> Seq(FileTask)]  BY <2>1, <2>2
  <2>4. \/ task.kind = "done" /\ doneQ' = Append(doneQ, task.window) /\ list' = list
        \/ task.kind # "done" /\ doneQ' = doneQ
           /\ (list' = list \/ list' = [list EXCEPT ![s] = Append(@, Line(task))])
    BY <1>13 DEF SaveListFile
  <2> HIDE DEF task
  <2>5. task.kind # "done" => Line(task) \in Lines  BY <2>2, RecordFacts
  <2>6. task.kind = "done" => task.window \in Nat  BY <2>2, RecordFacts
  <2>7. list' \in [Sides -> Seq(Lines)] /\ doneQ' \in Seq(Nat)
    <3>1. CASE task.kind = "done"
      <4>1. doneQ' = Append(doneQ, task.window) /\ list' = list  BY <3>1, <2>4
      <4>2. doneQ \in Seq(Nat) /\ task.window \in Nat  BY <3>1, <2>6
      <4>3. Append(doneQ, task.window) \in Seq(Nat)  BY <4>2, AppendFacts
      <4> QED BY <4>1, <4>3
    <3>2. CASE task.kind # "done"
      <4>1. Append(list[s], Line(task)) \in Seq(Lines)  BY <3>2, <2>5
      <4> QED BY <3>2, <4>1, <2>4
    <3> QED BY <3>1, <3>2
  <2> QED BY <2>1, <2>3, <2>7
<1>14. CASE Stopped  BY <1>1, <1>14 DEF Stopped
<1> QED BY <1>1, <1>2, <1>3, <1>4, <1>5, <1>7, <1>8, <1>9, <1>10, <1>11, <1>12, <1>13,
           <1>14 DEF Next

LEMMA ButtonsNext == Types /\ ButtonsInv /\ [Next]_vars => ButtonsInv'
<1> SUFFICES ASSUME Types, ButtonsInv, [Next]_vars PROVE ButtonsInv'
  OBVIOUS
<1>0. /\ waiting \in Int /\ enabled \subseteq Buttons
      /\ window \in [id : Nat, open : BOOLEAN, since : Nat]
      /\ mbPlay \in BOOLEAN /\ mbRecord \in BOOLEAN /\ mbStop \in BOOLEAN
  BY DEF Types, Scalars
<1> USE DEF ButtonsInv
<1>1. CASE UNCHANGED <<window, mbPlay, mbRecord, mbStop, waiting, enabled>>
  BY <1>1
<1>2. CASE StartPreview  BY <1>2 DEF StartPreview, Press
<1>3. CASE StopPreview  BY <1>3 DEF StopPreview, Press
<1>4. CASE PressRecord
  <2>1. CASE ~mbRecord /\ mbStop
    <3>1. "record" \in enabled /\ window.open /\ mbPlay
      BY <1>4 DEF PressRecord, Press
    <3>2. ~(waiting > 0)  BY <3>1
    <3>3. waiting <= 0  BY <3>2, <1>0
    <3>4. /\ mbStop' = FALSE /\ enabled' = (enabled \union {"stop"}) \ {"play", "folder"}
          /\ UNCHANGED <<window, mbPlay, waiting>>
      BY <1>4, <2>1 DEF PressRecord
    <3> QED BY <3>1, <3>2, <3>3, <3>4
  <2>2. CASE ~(~mbRecord /\ mbStop)
    <3>1. mbRecord' = ~mbRecord /\ UNCHANGED <<window, mbPlay, mbStop, waiting, enabled>>
      BY <1>4, <2>2 DEF PressRecord
    <3>2. ~mbStop  BY <2>2, <1>0
    <3> QED BY <3>1, <3>2
  <2> QED BY <2>1, <2>2
<1>5. CASE PressStop
  <2>1. window.open /\ ~mbStop /\ mbPlay  BY <1>5 DEF PressStop, Press
  <2>2. /\ mbStop' = TRUE /\ mbRecord' = FALSE /\ waiting' = 2
        /\ enabled' = enabled \ {"stop", "record"} /\ UNCHANGED <<window, mbPlay>>
    BY <1>5 DEF PressStop, StopRecording
  <2>3. enabled' = {}  BY <2>1, <2>2, <1>0 DEF Buttons
  <2> QED BY <2>1, <2>2, <2>3
<1>6. CASE SaveDone
  <2>1. UNCHANGED <<window, mbPlay, mbRecord, mbStop>>  BY <1>6 DEF SaveDone
  <2>2. CASE waiting' = waiting - 1 /\ waiting = 1
             /\ enabled' = enabled \union {"play", "record", "folder"}
    <3>1. ~(waiting' > 0) /\ waiting > 0  BY <2>2
    <3>2. window.open => mbStop /\ mbPlay /\ enabled = {}  BY <3>1
    <3>3. ~mbStop => window.open  OBVIOUS
    <3> QED BY <2>1, <2>2, <3>1, <3>2, <3>3
  <2>3. CASE waiting' = waiting - 1 /\ enabled' = enabled
    <3>1. (waiting' > 0 => waiting > 0) /\ (waiting <= 0 => waiting' <= 0)
      BY <2>3, <1>0
    <3> QED BY <2>1, <2>3, <3>1
  <2>4. CASE UNCHANGED <<waiting, enabled>>  BY <2>1, <2>4
  <2> QED BY <1>6, <2>2, <2>3, <2>4 DEF SaveDone
<1>7. CASE CloseWindow
  <2>1. ~window'.open /\ ~mbPlay' /\ enabled' = enabled
    BY <1>7, <1>0 DEF CloseWindow
  <2>2. mbStop' /\ ~mbRecord'
    BY <1>7 DEF CloseWindow, StopRecording
  <2> QED BY <2>1, <2>2
<1>8. CASE OpenWindow
  <2>1. ~(waiting' > 0) /\ waiting' = 0  BY <1>8 DEF OpenWindow
  <2>2. /\ window'.open /\ mbPlay' = FALSE /\ mbRecord' = FALSE /\ mbStop' = TRUE
        /\ enabled' = {"play", "folder"}
    BY <1>8 DEF OpenWindow, FreshWindow
  <2> QED BY <2>1, <2>2
<1>9. CASE SelectFolder \/ RecordFrame \/ UNCHANGED vars \/ Stopped
           \/ \E s \in Sides : SaveImage(s) \/ SaveListFile(s)
  BY <1>9, <1>1 DEF SelectFolder, RecordFrame, vars, uiVars, Stopped, SaveImage,
                    SaveListFile
<1> QED BY <1>2, <1>3, <1>4, <1>5, <1>6, <1>7, <1>8, <1>9 DEF Next

LEMMA FolderNext == Types /\ ButtonsInv /\ FolderInv /\ [Next]_vars => FolderInv'
<1> SUFFICES ASSUME Types, ButtonsInv, FolderInv, [Next]_vars PROVE FolderInv'
  OBVIOUS
<1>0. /\ session \in Nat /\ mRecordCnt \in Nat
      /\ \A a \in recorded : a.session \in Nat /\ a.seq \in Nat
  BY DEF Types, Scalars, Lines
<1>1. CASE UNCHANGED <<folder, recorded, session, mRecordCnt, mbStop>>
  BY <1>1 DEF FolderInv, OneFolder
<1>2. ASSUME mbStop', UNCHANGED <<recorded, session>> PROVE FolderInv'
  BY <1>2 DEF FolderInv, OneFolder
<1>3. CASE PressRecord
  <2>1. CASE ~mbRecord /\ mbStop
    <3>1. session' = session + 1 /\ recorded' = recorded
      BY <1>3, <2>1 DEF PressRecord
    <3>2. \A a \in recorded' : a.session <= session' /\ a.session # session'
      BY <3>1, <1>0 DEF FolderInv
    <3> QED BY <3>1, <3>2 DEF FolderInv, OneFolder
  <2>2. CASE ~(~mbRecord /\ mbStop)
    BY <1>3, <2>2, <1>1 DEF PressRecord
  <2> QED BY <2>1, <2>2
<1>4. CASE RecordFrame
  <2> DEFINE a == [session |-> session, seq |-> mRecordCnt + 1, folder |-> folder]
  <2>1. ~mbStop  BY <1>4 DEF RecordFrame, ButtonsInv
  <2>2. /\ recorded' = recorded \union {a} /\ mRecordCnt' = mRecordCnt + 1
        /\ UNCHANGED <<session, folder, mbStop>>
    BY <1>4 DEF RecordFrame
  <2>3. /\ a.session = session /\ a.folder = folder /\ a.seq = mRecordCnt + 1
    OBVIOUS
  <2>4. \A x \in recorded : x.session <= session
                            /\ (x.session = session => x.folder = folder /\ x.seq <= mRecordCnt)
    BY <2>1 DEF FolderInv
  <2> HIDE DEF a
  <2>5. \A x \in recorded' : x.session <= session /\ (x.session = session =>
                              x.folder = folder /\ x.seq <= mRecordCnt + 1)
    BY <2>2, <2>3, <2>4, <1>0
  <2>6. \A x, y \in recorded' : x.session = y.session => x.folder = y.folder
    BY <2>2, <2>3, <2>4 DEF FolderInv, OneFolder
  <2> QED BY <2>2, <2>5, <2>6 DEF FolderInv, OneFolder
<1>5. CASE SelectFolder
  BY <1>5, <1>2 DEF SelectFolder, Press, ButtonsInv
<1>6. CASE PressStop \/ CloseWindow \/ OpenWindow
  BY <1>6, <1>2 DEF PressStop, CloseWindow, OpenWindow, StopRecording, FreshWindow
<1>7. CASE StartPreview \/ StopPreview \/ SaveDone \/ UNCHANGED vars \/ Stopped
           \/ \E s \in Sides : SaveImage(s) \/ SaveListFile(s)
  BY <1>7, <1>1 DEF StartPreview, StopPreview, SaveDone, vars, uiVars, Stopped, SaveImage,
                    SaveListFile
<1> QED BY <1>3, <1>4, <1>5, <1>6, <1>7 DEF Next

-----------------------------------------------------------------------------
(***************************************************************************)
(* How the pipelines move.                                                 *)
(***************************************************************************)
\* The UI thread posts one task to each side.
Posting(x) == /\ saveQ' = [s \in Sides |-> Append(saveQ[s], x[s])]
              /\ listQ' = listQ /\ list' = list /\ doneQ' = doneQ
              /\ crashed' = crashed /\ lost' = lost

LEMMA PostingFacts ==
  ASSUME Types, NEW x \in [Sides -> FileTask], Posting(x), NEW s \in Sides
  PROVE  /\ saveQ'[s] = Append(saveQ[s], x[s])
         /\ Queued(s)' = Queued(s) \union {x[s]}
<1>1. saveQ'[s] = Append(saveQ[s], x[s]) /\ listQ'[s] = listQ[s]
  BY DEF Posting, Types, Queues
<1>2. ToSet(Append(saveQ[s], x[s])) = ToSet(saveQ[s]) \union {x[s]}
  <2>1. saveQ[s] \in Seq(FileTask) /\ x[s] \in FileTask  BY SideQueues
  <2> QED BY <2>1, AppendFacts
<1> QED BY <1>1, <1>2 DEF Queued

LEMMA StopPosts ==
  ASSUME Types, PressStop \/ (CloseWindow /\ ~mbStop)
  PROVE  /\ [s \in Sides |-> Mine] \in [Sides -> FileTask]
         /\ Posting([s \in Sides |-> Mine])
         /\ mbStop' = TRUE /\ waiting' = 2
         /\ recorded' = recorded /\ session' = session
         /\ window'.id = window.id /\ window'.since = window.since
<1>1. window \in [id : Nat, open : BOOLEAN, since : Nat]  BY DEF Types, Scalars
<1>2. saveQ' = [s \in Sides |-> Append(saveQ[s], Mine)]
  BY DEF PressStop, CloseWindow, StopRecording, Mine
<1>3. window'.id = window.id /\ window'.since = window.since
  BY <1>1 DEF PressStop, CloseWindow
<1>4. UNCHANGED <<listQ, list, doneQ, crashed, lost, recorded, session>>
      /\ mbStop' = TRUE /\ waiting' = 2
  BY DEF PressStop, CloseWindow, StopRecording
<1>5. \A s \in Sides : [z \in Sides |-> Mine][s] = Mine  OBVIOUS
<1>6. Posting([s \in Sides |-> Mine])  BY <1>2, <1>4, <1>5 DEF Posting
<1> QED BY <1>3, <1>4, <1>6, MineFacts

LEMMA FramePosts ==
  ASSUME Types, RecordFrame
  PROVE  \E x \in [Sides -> FileTask] :
           /\ Posting(x)
           /\ \A s \in Sides : /\ x[s].kind = "frame" /\ x[s].session = session
                               /\ Line(x[s]) = [session |-> session, seq |-> mRecordCnt + 1,
                                                folder |-> folder]
<1>1. PICK null \in [Sides -> IF NullFrames THEN BOOLEAN ELSE {FALSE}] :
        saveQ' = [s \in Sides |-> Append(saveQ[s],
                    Frame(session, mRecordCnt + 1, folder, null[s]))]
  BY DEF RecordFrame
<1> DEFINE x == [s \in Sides |-> Frame(session, mRecordCnt + 1, folder, null[s])]
<1>2. session \in Nat /\ mRecordCnt + 1 \in Nat /\ folder \in Folders
  BY DEF Types, Scalars
<1>3. \A s \in Sides : null[s] \in BOOLEAN  OBVIOUS
<1>4. ASSUME NEW s \in Sides
      PROVE  /\ x[s] \in FileTask /\ x[s].kind = "frame" /\ x[s].session = session
             /\ Line(x[s]) = [session |-> session, seq |-> mRecordCnt + 1, folder |-> folder]
  <2>1. x[s] = Frame(session, mRecordCnt + 1, folder, null[s])  OBVIOUS
  <2> QED BY <2>1, <1>2, <1>3, RecordFacts
<1>5. x \in [Sides -> FileTask]  BY <1>4
<1>6. Posting(x)  BY <1>1 DEF Posting, RecordFrame
<1> HIDE DEF x
<1> QED BY <1>4, <1>5, <1>6

\* FILE1 or FILE2 takes a task, and hands it on or not.
LEMMA SaveImageFacts ==
  ASSUME Types, NEW s \in Sides, SaveImage(s)
  PROVE  LET t == Head(saveQ[s]) IN
         /\ t \in FileTask /\ saveQ[s] # <<>> /\ ~crashed
         /\ saveQ'[s] = Tail(saveQ[s])
         /\ \A z \in Sides \ {s} : saveQ'[z] = saveQ[z] /\ listQ'[z] = listQ[z]
         /\ Queued(s) = Queued(s)' \union {t}
         /\ UNCHANGED <<uiVars, list, doneQ, session, recorded>>
         /\ \/ listQ'[s] = Append(listQ[s], t) /\ Queued(s)' = Queued(s) /\ lost' = lost
            \/ listQ'[s] = listQ[s] /\ t.kind = "frame"
               /\ (~crashed' => lost' = lost \union {<<s, Line(t)>>})
<1> DEFINE t == Head(saveQ[s])
<1>1. saveQ \in [Sides -> Seq(FileTask)] /\ listQ \in [Sides -> Seq(FileTask)]
  BY DEF Types, Queues
<1>2. /\ saveQ[s] # <<>> /\ saveQ' = [saveQ EXCEPT ![s] = Tail(@)] /\ ~crashed
      /\ UNCHANGED <<uiVars, list, doneQ, session, recorded>>
  BY DEF SaveImage
<1>3. /\ t \in FileTask /\ ToSet(saveQ[s]) = ToSet(Tail(saveQ[s])) \union {t}
  <2>1. saveQ[s] \in Seq(FileTask)  BY <1>1
  <2> QED BY <2>1, <1>2, TailFacts
<1>4. \/ listQ' = [listQ EXCEPT ![s] = Append(@, t)] /\ lost' = lost
      \/ listQ' = listQ /\ t.kind = "frame" /\ (~crashed' => lost' = lost \union {<<s, Line(t)>>})
  BY DEF SaveImage
<1> HIDE DEF t
<1>5. saveQ'[s] = Tail(saveQ[s]) /\ \A z \in Sides \ {s} : saveQ'[z] = saveQ[z]
  BY <1>1, <1>2
<1>6. CASE listQ' = [listQ EXCEPT ![s] = Append(@, t)] /\ lost' = lost
  <2>1. listQ'[s] = Append(listQ[s], t) /\ \A z \in Sides \ {s} : listQ'[z] = listQ[z]
    BY <1>1, <1>6
  <2>2. ToSet(listQ'[s]) = ToSet(listQ[s]) \union {t}
    <3>1. listQ[s] \in Seq(FileTask)  BY <1>1
    <3> QED BY <3>1, <2>1, <1>3, AppendFacts
  <2>3. Queued(s)' = Queued(s)  BY <1>3, <1>5, <2>2 DEF Queued
  <2>4. t \in Queued(s)  BY <1>3 DEF Queued
  <2> QED BY <1>2, <1>3, <1>5, <1>6, <2>1, <2>3, <2>4 DEF t
<1>7. CASE listQ' = listQ /\ t.kind = "frame" /\ (~crashed' => lost' = lost \union {<<s, Line(t)>>})
  <2>1. Queued(s) = Queued(s)' \union {t}  BY <1>3, <1>5, <1>7 DEF Queued
  <2> QED BY <1>2, <1>3, <1>5, <1>7, <2>1 DEF t
<1> QED BY <1>4, <1>6, <1>7

\* FILE3 or FILE4 takes a task: a line of the list, a closure sent back, or
\* a frame lost.
LEMMA SaveListFacts ==
  ASSUME Types, NEW s \in Sides, SaveListFile(s)
  PROVE  LET t == Head(listQ[s]) IN
         /\ t \in FileTask /\ listQ[s] # <<>> /\ ~crashed /\ crashed' = crashed
         /\ listQ'[s] = Tail(listQ[s]) /\ saveQ' = saveQ
         /\ \A z \in Sides \ {s} : listQ'[z] = listQ[z] /\ list'[z] = list[z]
         /\ Queued(s) = Queued(s)' \union {t}
         /\ UNCHANGED <<uiVars, session, recorded>>
         /\ \/ t.kind = "done" /\ doneQ' = Append(doneQ, t.window)
               /\ list'[s] = list[s] /\ lost' = lost
            \/ t.kind = "frame" /\ doneQ' = doneQ
               /\ list'[s] = Append(list[s], Line(t)) /\ lost' = lost
            \/ t.kind = "frame" /\ doneQ' = doneQ
               /\ list'[s] = list[s] /\ lost' = lost \union {<<s, Line(t)>>}
<1> DEFINE t == Head(listQ[s])
<1>1. /\ listQ \in [Sides -> Seq(FileTask)] /\ list \in [Sides -> Seq(Lines)]
  BY DEF Types, Queues
<1>2. /\ listQ[s] # <<>> /\ listQ' = [listQ EXCEPT ![s] = Tail(@)] /\ ~crashed
      /\ UNCHANGED <<uiVars, saveQ, crashed, session, recorded>>
  BY DEF SaveListFile
<1>3. t \in FileTask /\ ToSet(listQ[s]) = ToSet(Tail(listQ[s])) \union {t}
  <2>1. listQ[s] \in Seq(FileTask)  BY <1>1
  <2> QED BY <2>1, <1>2, TailFacts
<1>4. \/ t.kind = "done" /\ doneQ' = Append(doneQ, t.window) /\ list' = list /\ lost' = lost
      \/ t.kind # "done" /\ doneQ' = doneQ
         /\ list' = [list EXCEPT ![s] = Append(@, Line(t))] /\ lost' = lost
      \/ t.kind # "done" /\ doneQ' = doneQ /\ list' = list
         /\ lost' = lost \union {<<s, Line(t)>>}
  BY DEF SaveListFile
<1> HIDE DEF t
<1>5. t.kind # "done" => t.kind = "frame"
  <2>1. t.kind \in {"frame", "done"}  BY <1>3, RecordFacts
  <2> QED BY <2>1
<1>6. listQ'[s] = Tail(listQ[s]) /\ \A z \in Sides \ {s} : listQ'[z] = listQ[z]
  BY <1>1, <1>2
<1>7. Queued(s) = Queued(s)' \union {t}  BY <1>2, <1>3, <1>6 DEF Queued
<1>8. /\ \A z \in Sides \ {s} : list'[z] = list[z]
      /\ \/ t.kind = "done" /\ doneQ' = Append(doneQ, t.window)
               /\ list'[s] = list[s] /\ lost' = lost
         \/ t.kind = "frame" /\ doneQ' = doneQ
               /\ list'[s] = Append(list[s], Line(t)) /\ lost' = lost
         \/ t.kind = "frame" /\ doneQ' = doneQ
               /\ list'[s] = list[s] /\ lost' = lost \union {<<s, Line(t)>>}
  BY <1>1, <1>4, <1>5
<1> QED BY <1>2, <1>3, <1>6, <1>7, <1>8 DEF t

-----------------------------------------------------------------------------
(***************************************************************************)
(* What the pipelines hold.                                                *)
(***************************************************************************)
Content ==
  /\ \A s \in Sides : \A t \in Queued(s) : Known(t)
  /\ \A s \in Sides : ToSet(list[s]) \subseteq recorded
  /\ \A d \in ToSet(doneQ) : d <= window.id

Accounted(r, s) ==
  \/ r \in ToSet(list[s])
  \/ \E t \in Queued(s) : t.kind = "frame" /\ Line(t) = r
  \/ <<s, r>> \in lost

AllAccounted == ~crashed => \A s \in Sides : \A r \in recorded : Accounted(r, s)

LEMMA ContentParts == ContentInv <=> Content /\ AllAccounted
<1>1. ASSUME Content
      PROVE  FrameAccounting <=> (~crashed => \A s \in Sides : \A r \in recorded : Accounted(r, s))
  <2>1. ASSUME NEW s \in Sides
        PROVE  recorded = ToSet(list[s]) \union {Line(t) : t \in QueuedFrames(s)}
                            \union {l \in recorded : <<s, l>> \in lost}
               <=> \A r \in recorded : Accounted(r, s)
    BY <1>1 DEF Content, Accounted, Known, QueuedFrames
  <2> QED BY <2>1 DEF FrameAccounting
<1> QED BY <1>1 DEF ContentInv, Content, AllAccounted

LEMMA ContentNext == Types /\ ContentInv /\ [Next]_vars => ContentInv'
<1> SUFFICES ASSUME Types, ContentInv, [Next]_vars PROVE ContentInv'
  OBVIOUS
<1>0. Content /\ (~crashed => \A s \in Sides : \A r \in recorded : Accounted(r, s))
  BY ContentParts DEF AllAccounted
<1>w. window \in [id : Nat, open : BOOLEAN, since : Nat]  BY DEF Types, Scalars
<1>d. \A d \in ToSet(doneQ) : d \in Nat
  BY DEF Types, Queues, ToSet
<1>c. ASSUME Content', ~crashed' => \A s \in Sides : \A r \in recorded' : Accounted(r, s)'
      PROVE  ContentInv'
  <2>1. Content' /\ AllAccounted'  BY <1>c DEF AllAccounted
  <2> QED BY <2>1, ContentParts, PTL
<1>1. ASSUME UNCHANGED <<saveQ, listQ, list, crashed, lost, recorded>>,
             ToSet(doneQ)' \subseteq ToSet(doneQ), window'.id = window.id \/ window'.id = window.id + 1
      PROVE  ContentInv'
  <2>1. \A n \in Nat : n <= window.id => n <= window'.id  BY <1>1, <1>w
  <2>2. \A s \in Sides : Queued(s)' = Queued(s)  BY <1>1 DEF Queued
  <2>3. \A s \in Sides : \A t \in Queued(s) : t \in FileTask
    BY SideQueues DEF ToSet
  <2>4. \A s \in Sides : \A t \in Queued(s) : Known(t)'
    BY <2>1, <2>3, <1>0, <1>1, RecordFacts DEF Content, Known, Line
  <2>5. Content'  BY <1>0, <1>1, <1>d, <2>1, <2>2, <2>4 DEF Content
  <2>6. \A s \in Sides : \A r \in recorded' : Accounted(r, s)' <=> Accounted(r, s)
    BY <1>1, <2>2 DEF Accounted, Line
  <2> QED BY <1>0, <1>1, <1>c, <2>5, <2>6
<1>2. CASE StartPreview \/ StopPreview \/ SelectFolder \/ PressRecord \/ UNCHANGED vars \/ Stopped
  BY <1>2, <1>1 DEF StartPreview, StopPreview, SelectFolder, PressRecord, vars, uiVars,
                    fileVars, Stopped
<1>3. CASE SaveDone
  <2>1. doneQ # <<>> /\ doneQ' = Tail(doneQ) /\ doneQ \in Seq(Nat)
    BY <1>3 DEF SaveDone, Types, Queues
  <2>2. ToSet(doneQ)' \subseteq ToSet(doneQ)  BY <2>1, TailFacts
  <2> QED BY <1>3, <2>2, <1>1 DEF SaveDone, fileVars
<1>4. CASE OpenWindow
  BY <1>4, <1>1 DEF OpenWindow, FreshWindow, fileVars
<1>5. CASE CloseWindow /\ mbStop
  BY <1>5, <1>w, <1>1 DEF CloseWindow
<1>6. CASE PressStop \/ (CloseWindow /\ ~mbStop)
  <2> DEFINE x == [s \in Sides |-> Mine]
  <2>1. /\ x \in [Sides -> FileTask] /\ Posting(x) /\ \A s \in Sides : x[s] = Mine
        /\ recorded' = recorded /\ window'.id = window.id
    BY <1>6, StopPosts
  <2>2. \A t \in {Mine} : Known(t)'
    <3>1. Mine.kind = "done" /\ Mine.window = window.id  BY MineFacts
    <3>2. window.id <= window'.id  BY <1>w, <2>1
    <3> HIDE DEF Mine
    <3> QED BY <3>1, <3>2 DEF Known
  <2> HIDE DEF x
  <2>3. \A s \in Sides : Queued(s)' = Queued(s) \union {Mine}
    BY <2>1, PostingFacts
  <2>4. \A s \in Sides : \A t \in Queued(s) : Known(t)'
    BY <1>0, <2>1 DEF Content, Known, Line
  <2>5. \A s \in Sides : \A t \in Queued(s)' : Known(t)'  BY <2>2, <2>3, <2>4
  <2>6. Content'  BY <1>0, <2>1, <2>5 DEF Content, Posting
  <2>7. crashed' = crashed /\ \A s \in Sides : \A r \in recorded : Accounted(r, s) => Accounted(r, s)'
    BY <2>1, <2>3 DEF Accounted, Line, Posting
  <2> QED BY <1>0, <1>c, <2>1, <2>6, <2>7
<1>7. CASE RecordFrame
  <2> DEFINE a == [session |-> session, seq |-> mRecordCnt + 1, folder |-> folder]
  <2>1. PICK x \in [Sides -> FileTask] :
           Posting(x) /\ \A s \in Sides : x[s].kind = "frame" /\ Line(x[s]) = a
    BY <1>7, FramePosts
  <2>2. recorded' = recorded \union {a} /\ window' = window
    BY <1>7 DEF RecordFrame
  <2> HIDE DEF a
  <2>3. \A s \in Sides : Queued(s)' = Queued(s) \union {x[s]}
    BY <2>1, PostingFacts
  <2>4. \A s \in Sides : Known(x[s])'  BY <2>1, <2>2 DEF Known, Line
  <2>5. \A s \in Sides : \A t \in Queued(s) : Known(t)'
    BY <1>0, <2>2 DEF Content, Known, Line
  <2>6. \A s \in Sides : \A t \in Queued(s)' : Known(t)'  BY <2>3, <2>4, <2>5
  <2>7. Content'  BY <1>0, <2>1, <2>2, <2>6 DEF Content, Posting
  <2>8. ASSUME NEW s \in Sides, NEW r \in recorded', ~crashed
        PROVE  Accounted(r, s)'
    <3>1. CASE r = a  BY <3>1, <2>1, <2>3 DEF Accounted, Line
    <3>2. CASE r \in recorded
      <4>1. Accounted(r, s)  BY <3>2, <1>0, <2>8
      <4> QED BY <4>1, <2>1, <2>3 DEF Accounted, Line, Posting
    <3> QED BY <3>1, <3>2, <2>2
  <2> QED BY <1>c, <2>1, <2>7, <2>8 DEF Posting
<1>8. ASSUME NEW s \in Sides, SaveImage(s) PROVE ContentInv'
  <2> DEFINE t == Head(saveQ[s])
  <2>1. /\ \A z \in Sides \ {s} : saveQ'[z] = saveQ[z] /\ listQ'[z] = listQ[z]
        /\ Queued(s) = Queued(s)' \union {t} /\ ~crashed
        /\ UNCHANGED <<uiVars, list, doneQ, session, recorded>>
        /\ \/ Queued(s)' = Queued(s) /\ lost' = lost
           \/ ~crashed' => lost' = lost \union {<<s, Line(t)>>}
    BY <1>8, SaveImageFacts
  <2> HIDE DEF t
  <2>2. window' = window  BY <2>1 DEF uiVars
  <2>3. \A z \in Sides \ {s} : Queued(z)' = Queued(z)  BY <2>1 DEF Queued
  <2>4. \A z \in Sides : Queued(z)' \subseteq Queued(z)  BY <2>1, <2>3
  <2>5. \A z \in Sides : \A u \in Queued(z) : Known(u)'
    BY <1>0, <2>1, <2>2 DEF Content, Known, Line
  <2>6. Content'  BY <1>0, <2>1, <2>2, <2>4, <2>5 DEF Content
  <2>7. ASSUME NEW z \in Sides, NEW r \in recorded, ~crashed'
        PROVE  Accounted(r, z)'
    <3>1. Accounted(r, z)  BY <1>0, <2>1
    <3>2. CASE z # s  BY <3>1, <3>2, <2>1, <2>3, <2>7 DEF Accounted, Line
    <3>3. CASE z = s /\ Queued(s)' = Queued(s) /\ lost' = lost
      BY <3>1, <3>3, <2>1 DEF Accounted, Line
    <3>4. CASE z = s /\ lost' = lost \union {<<s, Line(t)>>}
      <4>1. <<s, Line(t)>> \in lost'  BY <3>4
      <4>2. \A u \in Queued(s) : u = t \/ u \in Queued(s)'  BY <2>1
      <4> QED BY <3>1, <3>4, <4>1, <4>2, <2>1 DEF Accounted, Line
    <3> QED BY <3>2, <3>3, <3>4, <2>1, <2>7
  <2> QED BY <1>c, <2>1, <2>6, <2>7
<1>9. ASSUME NEW s \in Sides, SaveListFile(s) PROVE ContentInv'
  <2> DEFINE t == Head(listQ[s])
  <2>1. /\ \A z \in Sides \ {s} : listQ'[z] = listQ[z] /\ list'[z] = list[z]
        /\ saveQ' = saveQ /\ t \in FileTask
        /\ Queued(s) = Queued(s)' \union {t} /\ ~crashed /\ crashed' = crashed
        /\ UNCHANGED <<uiVars, session, recorded>>
        /\ \/ t.kind = "done" /\ doneQ' = Append(doneQ, t.window)
               /\ list'[s] = list[s] /\ lost' = lost
           \/ t.kind = "frame" /\ doneQ' = doneQ
               /\ list'[s] = Append(list[s], Line(t)) /\ lost' = lost
           \/ t.kind = "frame" /\ doneQ' = doneQ
               /\ list'[s] = list[s] /\ lost' = lost \union {<<s, Line(t)>>}
    BY <1>9, SaveListFacts
  <2> HIDE DEF t
  <2>2. window' = window  BY <2>1 DEF uiVars
  <2>3. \A z \in Sides \ {s} : Queued(z)' = Queued(z)  BY <2>1 DEF Queued
  <2>4. \A z \in Sides : Queued(z)' \subseteq Queued(z)  BY <2>1, <2>3
  <2>5. \A z \in Sides : \A u \in Queued(z) : Known(u)'
    BY <1>0, <2>1, <2>2 DEF Content, Known, Line
  <2>6. Known(t)
    <3>1. t \in Queued(s)  BY <2>1
    <3> QED BY <3>1, <1>0 DEF Content
  <2>7. t.kind = "done" => t.window \in Nat /\ t.window <= window.id
    BY <2>1, <2>6, RecordFacts DEF Known
  <2>8. t.kind = "frame" => Line(t) \in recorded /\ Line(t) \in Lines
    BY <2>1, <2>6, RecordFacts DEF Known
  <2>9. \/ ToSet(list'[s]) = ToSet(list[s]) /\ (t.kind = "done" \/ <<s, Line(t)>> \in lost')
        \/ ToSet(list'[s]) = ToSet(list[s]) \union {Line(t)} /\ t.kind = "frame"
    <3>1. list[s] \in Seq(Lines)  BY DEF Types, Queues
    <3>2. t.kind = "frame" => ToSet(Append(list[s], Line(t))) = ToSet(list[s]) \union {Line(t)}
      BY <3>1, <2>8, AppendFacts
    <3> QED BY <2>1, <3>2
  <2>10. \A z \in Sides : ToSet(list'[z]) \subseteq recorded
    BY <1>0, <2>1, <2>8, <2>9 DEF Content
  <2>11. \A d \in ToSet(doneQ') : d <= window.id
    <3>1. CASE doneQ' = doneQ  BY <3>1, <1>0 DEF Content
    <3>2. CASE t.kind = "done" /\ doneQ' = Append(doneQ, t.window)
      <4>1. doneQ \in Seq(Nat)  BY DEF Types, Queues
      <4>2. t.window \in Nat  BY <3>2, <2>7
      <4>3. ToSet(Append(doneQ, t.window)) = ToSet(doneQ) \union {t.window}
        BY <4>1, <4>2, AppendFacts
      <4> QED BY <3>2, <4>3, <2>7, <1>0 DEF Content
    <3> QED BY <3>1, <3>2, <2>1
  <2>12. Content'  BY <1>0, <2>1, <2>2, <2>4, <2>5, <2>10, <2>11 DEF Content
  <2>13. ASSUME NEW z \in Sides, NEW r \in recorded
         PROVE  Accounted(r, z)'
    <3>1. Accounted(r, z)  BY <1>0, <2>1
    <3>2. CASE z # s  BY <3>1, <3>2, <2>1, <2>3 DEF Accounted, Line
    <3>3. CASE z = s
      <4>1. \A u \in Queued(s) : u = t \/ u \in Queued(s)'  BY <2>1
      <4>2. CASE r \in ToSet(list[s])  BY <4>2, <3>3, <2>9 DEF Accounted
      <4>3. CASE <<s, r>> \in lost  BY <4>3, <3>3, <2>1 DEF Accounted
      <4>4. ASSUME NEW u \in Queued(s), u.kind = "frame", Line(u) = r PROVE Accounted(r, s)'
        <5>1. CASE u = t
          <6>1. t.kind # "done"  BY <4>4, <5>1
          <6> QED BY <4>4, <5>1, <6>1, <2>9 DEF Accounted
        <5>2. CASE u \in Queued(s)'  BY <4>4, <5>2 DEF Accounted, Line
        <5> QED BY <5>1, <5>2, <4>1
      <4> QED BY <3>1, <3>3, <4>2, <4>3, <4>4 DEF Accounted
    <3> QED BY <3>2, <3>3
  <2> QED BY <1>c, <2>1, <2>12, <2>13
<1> QED BY <1>2, <1>3, <1>4, <1>5, <1>6, <1>7, <1>8, <1>9 DEF Next

-----------------------------------------------------------------------------
(***************************************************************************)
(* The order of capture.                                                   *)
(***************************************************************************)
LEMMA SortedAppend ==
  ASSUME NEW q \in Seq(FileTask), NEW e \in FileTask, Sorted(q),
         \A t \in ToSet(q) : Before(t, e)
  PROVE  Sorted(Append(q, e))
<1> DEFINE r == Append(q, e)
           n == Len(q) + 1
<1>1. /\ DOMAIN r = DOMAIN q \union {n} /\ r[n] = e /\ n \in Nat
      /\ \A i \in DOMAIN q : r[i] = q[i] /\ i \in Nat /\ i < n
  BY AppendFacts
<1> HIDE DEF r, n
<1>2. ASSUME NEW i \in DOMAIN r, NEW j \in DOMAIN r, i < j
      PROVE  Before(r[i], r[j])
  <2>1. i \in DOMAIN q  BY <1>1, <1>2
  <2>2. CASE j \in DOMAIN q  BY <2>1, <2>2, <1>1, <1>2 DEF Sorted
  <2>3. CASE j = n  BY <2>1, <2>3, <1>1 DEF ToSet
  <2> QED BY <2>2, <2>3, <1>1
<1>3. Sorted(r)  BY <1>2 DEF Sorted
<1> QED BY <1>3 DEF r

LEMMA SortedTail ==
  ASSUME NEW q \in Seq(FileTask), q # <<>>, Sorted(q)
  PROVE  Sorted(Tail(q)) /\ \A u \in ToSet(Tail(q)) : Before(Head(q), u)
<1> DEFINE r == Tail(q)
<1>1. /\ Head(q) = q[1] /\ 1 \in DOMAIN q
      /\ \A i \in DOMAIN r : i \in Nat /\ i >= 1 /\ i + 1 \in DOMAIN q /\ r[i] = q[i + 1]
  BY TailFacts
<1> HIDE DEF r
<1>2. ASSUME NEW i \in DOMAIN r, NEW j \in DOMAIN r, i < j
      PROVE  Before(r[i], r[j])
  <2>1. i + 1 \in DOMAIN q /\ j + 1 \in DOMAIN q /\ i + 1 < j + 1  BY <1>1, <1>2
  <2>2. Before(q[i + 1], q[j + 1])  BY <2>1 DEF Sorted
  <2> QED BY <2>2, <1>1
<1>3. ASSUME NEW j \in DOMAIN r PROVE Before(Head(q), r[j])
  <2>1. j + 1 \in DOMAIN q /\ 1 < j + 1  BY <1>1
  <2>2. Before(q[1], q[j + 1])  BY <2>1, <1>1 DEF Sorted
  <2> QED BY <2>2, <1>1
<1>4. Sorted(r) /\ \A u \in ToSet(r) : Before(Head(q), u)
  BY <1>2, <1>3 DEF Sorted, ToSet
<1> QED BY <1>4 DEF r

\* The same for the lines of a list.
Ordered(l) == \A i, j \in DOMAIN l : i < j => Earlier(l[i], l[j])

LEMMA OrderedAppend ==
  ASSUME NEW l \in Seq(Lines), NEW e \in Lines, Ordered(l),
         \A x \in ToSet(l) : Earlier(x, e)
  PROVE  Ordered(Append(l, e))
<1> DEFINE r == Append(l, e)
           n == Len(l) + 1
<1>1. /\ DOMAIN r = DOMAIN l \union {n} /\ r[n] = e /\ n \in Nat
      /\ \A i \in DOMAIN l : r[i] = l[i] /\ i \in Nat /\ i < n
  BY AppendFacts
<1> HIDE DEF r, n
<1>2. ASSUME NEW i \in DOMAIN r, NEW j \in DOMAIN r, i < j
      PROVE  Earlier(r[i], r[j])
  <2>1. i \in DOMAIN l  BY <1>1, <1>2
  <2>2. CASE j \in DOMAIN l  BY <2>1, <2>2, <1>1, <1>2 DEF Ordered
  <2>3. CASE j = n  BY <2>1, <2>3, <1>1 DEF ToSet
  <2> QED BY <2>2, <2>3, <1>1
<1>3. Ordered(r)  BY <1>2 DEF Ordered
<1> QED BY <1>3 DEF r

SideOrder(sq, lq, l) ==
  /\ Sorted(sq) /\ Sorted(lq)
  /\ \A t \in ToSet(lq), u \in ToSet(sq) : Before(t, u)
  /\ \A x \in ToSet(l), t \in ToSet(sq) \union ToSet(lq) :
       t.kind = "frame" => Earlier(x, Line(t))
  /\ Ordered(l)

LEMMA OrderSides ==
  OrderInv <=> \A s \in Sides : SideOrder(saveQ[s], listQ[s], list[s])
BY DEF OrderInv, SideOrder, Queued, Ordered

LEMMA OrderSidesNext ==
  (\A s \in Sides : SideOrder(saveQ'[s], listQ'[s], list'[s])) => OrderInv'
BY DEF OrderInv, SideOrder, Queued, Ordered

LEMMA PostOrder ==
  ASSUME NEW sq \in Seq(FileTask), NEW lq, NEW l, SideOrder(sq, lq, l), NEW e \in FileTask,
         \A t \in ToSet(sq) \union ToSet(lq) : Before(t, e),
         \A x \in ToSet(l) : e.kind = "frame" => Earlier(x, Line(e))
  PROVE  SideOrder(Append(sq, e), lq, l)
<1>1. ToSet(Append(sq, e)) = ToSet(sq) \union {e}  BY AppendFacts
<1>2. Sorted(Append(sq, e))  BY SortedAppend DEF SideOrder
<1> QED BY <1>1, <1>2 DEF SideOrder

LEMMA HandOnOrder ==
  ASSUME NEW sq \in Seq(FileTask), sq # <<>>, NEW lq \in Seq(FileTask), NEW l,
         SideOrder(sq, lq, l)
  PROVE  /\ SideOrder(Tail(sq), lq, l)
         /\ SideOrder(Tail(sq), Append(lq, Head(sq)), l)
<1> DEFINE t == Head(sq)
<1>1. t \in FileTask /\ ToSet(sq) = ToSet(Tail(sq)) \union {t}  BY TailFacts
<1>2. Sorted(Tail(sq)) /\ \A u \in ToSet(Tail(sq)) : Before(t, u)
  BY SortedTail DEF SideOrder
<1> HIDE DEF t
<1>3. SideOrder(Tail(sq), lq, l)  BY <1>1, <1>2 DEF SideOrder
<1>4. ToSet(Append(lq, t)) = ToSet(lq) \union {t}  BY <1>1, AppendFacts
<1>5. \A u \in ToSet(lq) : Before(u, t)  BY <1>1 DEF SideOrder
<1>6. Sorted(Append(lq, t))  BY <1>1, <1>5, SortedAppend DEF SideOrder
<1>7. SideOrder(Tail(sq), Append(lq, t), l)
  BY <1>1, <1>2, <1>4, <1>6 DEF SideOrder
<1> QED BY <1>3, <1>7 DEF t

LEMMA WriteOrder ==
  ASSUME NEW sq \in Seq(FileTask), NEW lq \in Seq(FileTask), lq # <<>>, NEW l \in Seq(Lines),
         SideOrder(sq, lq, l)
  PROVE  /\ SideOrder(sq, Tail(lq), l)
         /\ Head(lq).kind = "frame" => SideOrder(sq, Tail(lq), Append(l, Line(Head(lq))))
<1> DEFINE t == Head(lq)
<1>1. t \in FileTask /\ ToSet(lq) = ToSet(Tail(lq)) \union {t}  BY TailFacts
<1>2. Sorted(Tail(lq)) /\ \A u \in ToSet(Tail(lq)) : Before(t, u)
  BY SortedTail DEF SideOrder
<1> HIDE DEF t
<1>3. SideOrder(sq, Tail(lq), l)  BY <1>1, <1>2 DEF SideOrder
<1>4. ASSUME t.kind = "frame" PROVE SideOrder(sq, Tail(lq), Append(l, Line(t)))
  <2>1. Line(t) \in Lines  BY <1>1, <1>4, RecordFacts
  <2>2. ToSet(Append(l, Line(t))) = ToSet(l) \union {Line(t)}  BY <2>1, AppendFacts
  <2>3. \A x \in ToSet(l) : Earlier(x, Line(t))  BY <1>1, <1>4 DEF SideOrder
  <2>4. Ordered(Append(l, Line(t)))  BY <2>1, <2>3, OrderedAppend DEF SideOrder
  <2>5. \A u \in ToSet(sq) \union ToSet(Tail(lq)) : u.kind = "frame" => Earlier(Line(t), Line(u))
    BY <1>1, <1>2, <1>4 DEF SideOrder, Before
  <2> QED BY <1>3, <2>2, <2>4, <2>5 DEF SideOrder
<1> QED BY <1>3, <1>4 DEF t

LEMMA OrderNext ==
  Types /\ ButtonsInv /\ FolderInv /\ ContentInv /\ OrderInv /\ [Next]_vars => OrderInv'
<1> SUFFICES ASSUME Types, ButtonsInv, FolderInv, ContentInv, OrderInv, [Next]_vars
             PROVE  OrderInv'
  OBVIOUS
<1> SUFFICES ASSUME NEW z \in Sides PROVE SideOrder(saveQ'[z], listQ'[z], list'[z])
  <2>1. \A s \in Sides : SideOrder(saveQ'[s], listQ'[s], list'[s])  OBVIOUS
  <2> QED BY <2>1, OrderSidesNext
<1>0. /\ SideOrder(saveQ[z], listQ[z], list[z]) /\ saveQ[z] \in Seq(FileTask)
      /\ listQ[z] \in Seq(FileTask) /\ list[z] \in Seq(Lines)
      /\ Queued(z) = ToSet(saveQ[z]) \union ToSet(listQ[z])
  BY OrderSides, SideQueues
<1>1. CASE UNCHANGED <<saveQ, listQ, list>>  BY <1>0, <1>1
<1>2. CASE StartPreview \/ StopPreview \/ SelectFolder \/ PressRecord \/ UNCHANGED vars
           \/ Stopped \/ SaveDone \/ OpenWindow \/ (CloseWindow /\ mbStop)
  BY <1>2, <1>1 DEF StartPreview, StopPreview, SelectFolder, PressRecord, vars, uiVars,
                    fileVars, Stopped, SaveDone, OpenWindow, CloseWindow
<1>3. CASE PressStop \/ (CloseWindow /\ ~mbStop)
  <2> DEFINE x == [s \in Sides |-> Mine]
  <2>1. x \in [Sides -> FileTask] /\ Posting(x) /\ x[z] = Mine /\ listQ' = listQ /\ list' = list
    BY <1>3, StopPosts DEF Posting
  <2> HIDE DEF x
  <2>2. saveQ'[z] = Append(saveQ[z], Mine)  BY <2>1, PostingFacts
  <2>3. Mine \in FileTask /\ Mine.kind = "done"  BY MineFacts
  <2>4. \A t : Before(t, Mine)  BY <2>3 DEF Before
  <2>5. SideOrder(Append(saveQ[z], Mine), listQ[z], list[z])
    BY <1>0, <2>3, <2>4, PostOrder
  <2> QED BY <2>1, <2>2, <2>5
<1>4. CASE RecordFrame
  <2> DEFINE a == [session |-> session, seq |-> mRecordCnt + 1, folder |-> folder]
  <2>1. PICK x \in [Sides -> FileTask] :
           Posting(x) /\ \A s \in Sides : x[s].kind = "frame" /\ Line(x[s]) = a
    BY <1>4, FramePosts
  <2>2. saveQ'[z] = Append(saveQ[z], x[z]) /\ listQ' = listQ /\ list' = list
    BY <2>1, PostingFacts DEF Posting
  <2>3. ~mbStop /\ session \in Nat /\ mRecordCnt \in Nat
    BY <1>4 DEF RecordFrame, ButtonsInv, Types, Scalars
  <2>4. a.session = session /\ a.seq = mRecordCnt + 1  OBVIOUS
  <2> HIDE DEF a
  <2>5. ASSUME NEW b \in recorded PROVE Earlier(b, a)
    <3>1. b.session \in Nat /\ b.seq \in Nat  BY DEF Types, Scalars, Lines
    <3>2. b.session <= session /\ (b.session = session => b.seq <= mRecordCnt)
      BY <2>3 DEF FolderInv
    <3> QED BY <2>3, <2>4, <3>1, <3>2 DEF Earlier
  <2>6. \A t \in Queued(z) : t.kind = "frame" => Line(t) \in recorded
    BY DEF ContentInv, Known
  <2>7. \A t \in Queued(z) : Before(t, x[z])  BY <2>1, <2>5, <2>6 DEF Before
  <2>8. \A y \in ToSet(list[z]) : Earlier(y, Line(x[z]))
    BY <2>1, <2>5 DEF ContentInv
  <2>9. SideOrder(Append(saveQ[z], x[z]), listQ[z], list[z])
    <3>1. x[z] \in FileTask  OBVIOUS
    <3> QED BY <1>0, <2>7, <2>8, <3>1, PostOrder
  <2> QED BY <2>2, <2>9
<1>5. ASSUME NEW s \in Sides, SaveImage(s) PROVE SideOrder(saveQ'[z], listQ'[z], list'[z])
  <2>1. /\ s # z => saveQ'[z] = saveQ[z] /\ listQ'[z] = listQ[z]
        /\ saveQ[s] # <<>> /\ saveQ'[s] = Tail(saveQ[s]) /\ list' = list
        /\ listQ'[s] = listQ[s] \/ listQ'[s] = Append(listQ[s], Head(saveQ[s]))
    BY <1>5, SaveImageFacts
  <2>2. CASE s # z  BY <1>0, <2>1, <2>2
  <2>3. CASE s = z
    <3>1. /\ SideOrder(Tail(saveQ[z]), listQ[z], list[z])
          /\ SideOrder(Tail(saveQ[z]), Append(listQ[z], Head(saveQ[z])), list[z])
      BY <1>0, <2>1, <2>3, HandOnOrder
    <3> QED BY <2>1, <2>3, <3>1
  <2> QED BY <2>2, <2>3
<1>6. ASSUME NEW s \in Sides, SaveListFile(s) PROVE SideOrder(saveQ'[z], listQ'[z], list'[z])
  <2>1. /\ s # z => listQ'[z] = listQ[z] /\ list'[z] = list[z]
        /\ listQ[s] # <<>> /\ listQ'[s] = Tail(listQ[s]) /\ saveQ' = saveQ
        /\ \/ list'[s] = list[s]
           \/ Head(listQ[s]).kind = "frame" /\ list'[s] = Append(list[s], Line(Head(listQ[s])))
    BY <1>6, SaveListFacts
  <2>2. CASE s # z  BY <1>0, <2>1, <2>2
  <2>3. CASE s = z
    <3>1. /\ SideOrder(saveQ[z], Tail(listQ[z]), list[z])
          /\ Head(listQ[z]).kind = "frame" =>
               SideOrder(saveQ[z], Tail(listQ[z]), Append(list[z], Line(Head(listQ[z]))))
      BY <1>0, <2>1, <2>3, WriteOrder
    <3> QED BY <2>1, <2>3, <3>1
  <2> QED BY <2>2, <2>3
<1> QED BY <1>2, <1>3, <1>4, <1>5, <1>6 DEF Next

-----------------------------------------------------------------------------
(***************************************************************************)
(* The closures.                                                           *)
(***************************************************************************)
LEMMA BehindAppend ==
  ASSUME NEW w, NEW q \in Seq(FileTask), NEW e \in FileTask, Behind(w, q),
         Closure(w.id) \in ToSet(q) => ~Own(w, e)
  PROVE  Behind(w, Append(q, e))
<1> DEFINE r == Append(q, e)
           n == Len(q) + 1
           c == Closure(w.id)
<1>1. /\ DOMAIN r = DOMAIN q \union {n} /\ r[n] = e /\ n \in Nat
      /\ \A i \in DOMAIN q : r[i] = q[i] /\ i \in Nat /\ i < n
  BY AppendFacts
<1> HIDE DEF r, n
<1>2. ASSUME NEW i \in DOMAIN r, NEW j \in DOMAIN r, i < j, r[i] = c
      PROVE  ~Own(w, r[j])
  <2>1. i \in DOMAIN q /\ r[i] = q[i]  BY <1>1, <1>2
  <2>2. CASE j \in DOMAIN q  BY <2>1, <2>2, <1>1, <1>2 DEF Behind
  <2>3. CASE j = n
    <3>1. c \in ToSet(q)  BY <2>1, <1>2 DEF ToSet
    <3> QED BY <3>1, <2>3, <1>1
  <2> QED BY <2>2, <2>3, <1>1
<1>3. Behind(w, r)  BY <1>2 DEF Behind
<1> QED BY <1>3 DEF r

LEMMA BehindTail ==
  ASSUME NEW w, NEW q \in Seq(FileTask), q # <<>>, Behind(w, q)
  PROVE  /\ Behind(w, Tail(q))
         /\ Head(q) = Closure(w.id) => \A u \in ToSet(Tail(q)) : ~Own(w, u)
<1> DEFINE r == Tail(q)
           c == Closure(w.id)
<1>1. /\ Head(q) = q[1] /\ 1 \in DOMAIN q
      /\ \A i \in DOMAIN r : i \in Nat /\ i >= 1 /\ i + 1 \in DOMAIN q /\ r[i] = q[i + 1]
  BY TailFacts
<1> HIDE DEF r
<1>2. ASSUME NEW i \in DOMAIN r, NEW j \in DOMAIN r, i < j, r[i] = c
      PROVE  ~Own(w, r[j])
  <2>1. i + 1 \in DOMAIN q /\ j + 1 \in DOMAIN q /\ i + 1 < j + 1  BY <1>1, <1>2
  <2>2. q[i + 1] = c  BY <1>1, <1>2
  <2>3. ~Own(w, q[j + 1])  BY <2>1, <2>2 DEF Behind
  <2> QED BY <2>3, <1>1
<1>3. ASSUME NEW j \in DOMAIN r, Head(q) = c PROVE ~Own(w, r[j])
  <2>1. j + 1 \in DOMAIN q /\ 1 < j + 1 /\ q[1] = c  BY <1>1, <1>3
  <2>2. ~Own(w, q[j + 1])  BY <2>1, <1>1 DEF Behind
  <2> QED BY <2>2, <1>1
<1>4. Behind(w, r) /\ (Head(q) = c => \A u \in ToSet(r) : ~Own(w, u))
  BY <1>2, <1>3 DEF Behind, ToSet
<1> QED BY <1>4 DEF r

\* A window that records puts a task behind the others, its closure or a frame.
LEMMA PostClosureLast ==
  ASSUME NEW w, NEW sq \in Seq(FileTask), NEW lq \in Seq(FileTask), NEW e \in FileTask,
         NEW stopped, NEW stopped2, ClosureLast(w, stopped, sq, lq),
         Closure(w.id) \notin ToSet(sq) \union ToSet(lq),
         stopped2 => e = Closure(w.id)
  PROVE  /\ ClosureLast(w, stopped2, Append(sq, e), lq)
         /\ InSide(w, Append(sq, e), lq) = IF e = Closure(w.id) THEN 1 ELSE 0
<1> DEFINE c == Closure(w.id)
<1>1. Times(sq, c) = 0 /\ Times(lq, c) = 0  BY TimesFacts
<1>2. Times(Append(sq, e), c) = Times(sq, c) + (IF e = c THEN 1 ELSE 0)  BY TimesAppend
<1>3. ToSet(Append(sq, e)) = ToSet(sq) \union {e}  BY AppendFacts
<1>4. Behind(w, Append(sq, e)) /\ Behind(w, lq)  BY BehindAppend DEF ClosureLast
<1>5. InSide(w, Append(sq, e), lq) = IF e = c THEN 1 ELSE 0  BY <1>1, <1>2 DEF InSide
<1>6. InSide(w, Append(sq, e), lq) <= 1  BY <1>5
<1> HIDE DEF c
<1>7. ClosureLast(w, stopped2, Append(sq, e), lq)
  BY <1>3, <1>4, <1>6 DEF ClosureLast, c
<1> QED BY <1>5, <1>7 DEF c

LEMMA HandOnClosureLast ==
  ASSUME NEW w, NEW sq \in Seq(FileTask), sq # <<>>, NEW lq \in Seq(FileTask),
         NEW stopped, ClosureLast(w, stopped, sq, lq)
  PROVE  /\ ClosureLast(w, stopped, Tail(sq), Append(lq, Head(sq)))
         /\ InSide(w, Tail(sq), Append(lq, Head(sq))) = InSide(w, sq, lq)
         /\ Head(sq) # Closure(w.id) => /\ ClosureLast(w, stopped, Tail(sq), lq)
                                        /\ InSide(w, Tail(sq), lq) = InSide(w, sq, lq)
<1> DEFINE t == Head(sq)
           c == Closure(w.id)
<1>1. /\ t \in FileTask /\ ToSet(sq) = ToSet(Tail(sq)) \union {t} /\ Tail(sq) \in Seq(FileTask)
  BY TailFacts
<1>2. Times(sq, c) = Times(Tail(sq), c) + (IF t = c THEN 1 ELSE 0)  BY TimesTail
<1>3. /\ Behind(w, Tail(sq)) /\ Behind(w, lq)
      /\ t = c => \A u \in ToSet(Tail(sq)) : ~Own(w, u)
  BY BehindTail DEF ClosureLast
<1> HIDE DEF t
<1>4. /\ ToSet(Append(lq, t)) = ToSet(lq) \union {t}
      /\ Times(Append(lq, t), c) = Times(lq, c) + (IF t = c THEN 1 ELSE 0)
  BY <1>1, AppendFacts, TimesAppend
<1>5. Times(Tail(sq), c) \in Nat /\ Times(lq, c) \in Nat /\ Times(sq, c) \in Nat
  <2>1. Times(Tail(sq), c) \in Nat  BY <1>1, TimesFacts
  <2>2. Times(lq, c) \in Nat /\ Times(sq, c) \in Nat  BY TimesFacts
  <2> QED BY <2>1, <2>2
<1>6. /\ InSide(w, sq, lq) <= 1
      /\ c \in ToSet(lq) => \A u \in ToSet(sq) : ~Own(w, u)
      /\ stopped /\ c \notin ToSet(sq) \union ToSet(lq) =>
           \A u \in ToSet(sq) \union ToSet(lq) : ~Own(w, u)
  BY DEF ClosureLast
<1> HIDE DEF c
<1>7. c \in ToSet(lq) => ~Own(w, t)  BY <1>1, <1>6
<1>8. Behind(w, Append(lq, t))  BY <1>1, <1>3, <1>7, BehindAppend DEF c
<1>9. InSide(w, Tail(sq), Append(lq, t)) = InSide(w, sq, lq)
  <2>1. /\ InSide(w, Tail(sq), Append(lq, t)) = Times(Tail(sq), c) + Times(Append(lq, t), c)
        /\ InSide(w, sq, lq) = Times(sq, c) + Times(lq, c)
    BY DEF InSide, c
  <2> QED BY <2>1, <1>2, <1>4, <1>5
<1>10. ClosureLast(w, stopped, Tail(sq), Append(lq, t))
  <2>1. c \in ToSet(Append(lq, t)) => \A u \in ToSet(Tail(sq)) : ~Own(w, u)
    BY <1>1, <1>3, <1>4, <1>6
  <2>2. ToSet(Tail(sq)) \union ToSet(Append(lq, t)) = ToSet(sq) \union ToSet(lq)
    BY <1>1, <1>4
  <2> QED BY <1>3, <1>6, <1>8, <1>9, <2>1, <2>2 DEF ClosureLast, c
<1>11. ASSUME t # c
       PROVE  ClosureLast(w, stopped, Tail(sq), lq) /\ InSide(w, Tail(sq), lq) = InSide(w, sq, lq)
  <2>1. Times(sq, c) = Times(Tail(sq), c)  BY <1>2, <1>5, <1>11
  <2>2. InSide(w, Tail(sq), lq) = InSide(w, sq, lq)  BY <2>1 DEF InSide, c
  <2>3. stopped /\ c \notin ToSet(Tail(sq)) \union ToSet(lq) =>
           \A u \in ToSet(Tail(sq)) \union ToSet(lq) : ~Own(w, u)
    BY <1>1, <1>6, <1>11
  <2> QED BY <1>1, <1>3, <1>6, <2>2, <2>3 DEF ClosureLast, c
<1> QED BY <1>9, <1>10, <1>11 DEF t, c

LEMMA WriteClosureLast ==
  ASSUME NEW w, NEW sq \in Seq(FileTask), NEW lq \in Seq(FileTask), lq # <<>>,
         NEW stopped, ClosureLast(w, stopped, sq, lq)
  PROVE  /\ ClosureLast(w, stopped, sq, Tail(lq))
         /\ InSide(w, sq, lq) = InSide(w, sq, Tail(lq))
                                  + (IF Head(lq) = Closure(w.id) THEN 1 ELSE 0)
         /\ InSide(w, sq, Tail(lq)) \in Nat
<1> DEFINE t == Head(lq)
           c == Closure(w.id)
<1>1. /\ t \in FileTask /\ ToSet(lq) = ToSet(Tail(lq)) \union {t} /\ Tail(lq) \in Seq(FileTask)
  BY TailFacts
<1>2. Times(lq, c) = Times(Tail(lq), c) + (IF t = c THEN 1 ELSE 0)  BY TimesTail
<1>3. /\ Behind(w, Tail(lq)) /\ Behind(w, sq)
      /\ t = c => \A u \in ToSet(Tail(lq)) : ~Own(w, u)
  BY BehindTail DEF ClosureLast
<1>4. Times(Tail(lq), c) \in Nat /\ Times(sq, c) \in Nat
  <2>1. Times(Tail(lq), c) \in Nat  BY <1>1, TimesFacts
  <2>2. Times(sq, c) \in Nat  BY TimesFacts
  <2> QED BY <2>1, <2>2
<1>5. /\ InSide(w, sq, lq) <= 1
      /\ c \in ToSet(lq) => \A u \in ToSet(sq) : ~Own(w, u)
      /\ stopped /\ c \notin ToSet(sq) \union ToSet(lq) =>
           \A u \in ToSet(sq) \union ToSet(lq) : ~Own(w, u)
  BY DEF ClosureLast
<1> HIDE DEF t
<1>6. /\ InSide(w, sq, lq) = Times(sq, c) + Times(lq, c)
      /\ InSide(w, sq, Tail(lq)) = Times(sq, c) + Times(Tail(lq), c)
  BY DEF InSide
<1> HIDE DEF c
<1>7. /\ InSide(w, sq, lq) = InSide(w, sq, Tail(lq)) + (IF t = c THEN 1 ELSE 0)
      /\ InSide(w, sq, Tail(lq)) \in Nat /\ InSide(w, sq, Tail(lq)) <= 1
  BY <1>2, <1>4, <1>5, <1>6
<1>8. c \in ToSet(Tail(lq)) => \A u \in ToSet(sq) : ~Own(w, u)  BY <1>1, <1>5
<1>9. stopped /\ c \notin ToSet(sq) \union ToSet(Tail(lq)) =>
         \A u \in ToSet(sq) \union ToSet(Tail(lq)) : ~Own(w, u)
  BY <1>1, <1>3, <1>5
<1> QED BY <1>3, <1>7, <1>8, <1>9 DEF ClosureLast, t, c

LEMMA ClosureGoal ==
  (window'.open =>
     /\ waiting' = InSide(window', saveQ'["left"], listQ'["left"])
                     + InSide(window', saveQ'["right"], listQ'["right"])
                     + Times(doneQ', window'.id)
     /\ \A s \in Sides : ClosureLast(window', mbStop', saveQ'[s], listQ'[s]))
  => ClosureInv'
BY DEF ClosureInv, OnTheWay, InSide, ClosureLast, Behind, Own

LEMMA ClosureNext ==
  Types /\ ButtonsInv /\ FolderInv /\ ContentInv /\ ClosureInv /\ [Next]_vars => ClosureInv'
<1> SUFFICES ASSUME Types, ButtonsInv, FolderInv, ContentInv, ClosureInv, [Next]_vars,
                    window'.open
             PROVE  /\ waiting' = InSide(window', saveQ'["left"], listQ'["left"])
                                    + InSide(window', saveQ'["right"], listQ'["right"])
                                    + Times(doneQ', window'.id)
                    /\ \A s \in Sides : ClosureLast(window', mbStop', saveQ'[s], listQ'[s])
  BY ClosureGoal
<1> DEFINE In(s)   == InSide(window, saveQ[s], listQ[s])
           Ending(s) == ClosureLast(window, mbStop, saveQ[s], listQ[s])
           Goal    == /\ waiting' = InSide(window', saveQ'["left"], listQ'["left"])
                                    + InSide(window', saveQ'["right"], listQ'["right"])
                                    + Times(doneQ', window'.id)
                      /\ \A s \in Sides : ClosureLast(window', mbStop', saveQ'[s], listQ'[s])
<1>0. /\ "left" \in Sides /\ "right" \in Sides
      /\ \A s \in Sides : s = "left" \/ s = "right"
  BY DEF Sides
<1>s. \A s \in Sides : /\ saveQ[s] \in Seq(FileTask) /\ listQ[s] \in Seq(FileTask)
                       /\ Queued(s) = ToSet(saveQ[s]) \union ToSet(listQ[s])
  BY SideQueues
<1>n. /\ doneQ \in Seq(Nat) /\ waiting \in Int /\ session \in Nat
      /\ window \in [id : Nat, open : BOOLEAN, since : Nat]
  BY DEF Types, Scalars, Queues
<1>i. Times(doneQ, window.id) \in Nat /\ \A s \in Sides : In(s) \in Nat
  <2>1. Times(doneQ, window.id) \in Nat  BY <1>n, TimesFacts
  <2>2. ASSUME NEW s \in Sides PROVE In(s) \in Nat
    <3>1. /\ Times(saveQ[s], Closure(window.id)) \in Nat
          /\ Times(listQ[s], Closure(window.id)) \in Nat
      BY <1>s, TimesFacts
    <3> QED BY <3>1 DEF InSide
  <2> QED BY <2>1, <2>2
<1>o. ASSUME window' = window
      PROVE  window.open /\ waiting = In("left") + In("right") + Times(doneQ, window.id)
             /\ \A s \in Sides : Ending(s)
  BY <1>o DEF ClosureInv, OnTheWay
<1>1. ASSUME UNCHANGED <<window, waiting, saveQ, listQ, doneQ>>, mbStop' => mbStop
      PROVE  Goal
  <2>1. \A s \in Sides : ClosureLast(window, mbStop', saveQ[s], listQ[s])
    BY <1>1, <1>o DEF ClosureLast
  <2> QED BY <1>1, <1>o, <2>1
<1>2. CASE StartPreview \/ StopPreview \/ SelectFolder \/ PressRecord \/ UNCHANGED vars \/ Stopped
  BY <1>2, <1>1 DEF StartPreview, StopPreview, SelectFolder, PressRecord, vars, uiVars,
                    fileVars, Stopped
<1>3. CASE PressStop
  <2> DEFINE x == [s \in Sides |-> Mine]
  <2>1. /\ x \in [Sides -> FileTask] /\ Posting(x) /\ \A s \in Sides : x[s] = Mine
        /\ listQ' = listQ /\ doneQ' = doneQ /\ waiting' = 2 /\ mbStop' = TRUE
    BY <1>3, StopPosts DEF Posting
  <2>2. window' = window  BY <1>3 DEF PressStop
  <2>3. window.open /\ waiting <= 0
    BY <1>3 DEF PressStop, Press, ButtonsInv
  <2> HIDE DEF x
  <2>4. \A s \in Sides : saveQ'[s] = Append(saveQ[s], Mine)  BY <2>1, PostingFacts
  <2>5. Times(doneQ, window.id) = 0 /\ \A s \in Sides : Mine \notin Queued(s)
    BY <2>3, NoClosure
  <2>6. Mine \in FileTask  BY MineFacts
  <2>7. ASSUME NEW s \in Sides
        PROVE  /\ ClosureLast(window, mbStop', Append(saveQ[s], Mine), listQ[s])
               /\ InSide(window, Append(saveQ[s], Mine), listQ[s]) = 1
    <3>1. Closure(window.id) \notin ToSet(saveQ[s]) \union ToSet(listQ[s])
      BY <1>s, <2>5 DEF Mine
    <3>2. Ending(s) /\ Mine = Closure(window.id)  BY <1>o, <2>2 DEF Mine
    <3> QED BY <1>s, <2>6, <3>1, <3>2, PostClosureLast
  <2>8. /\ InSide(window', saveQ'["left"], listQ'["left"]) = 1
        /\ InSide(window', saveQ'["right"], listQ'["right"]) = 1
        /\ Times(doneQ', window'.id) = 0
    BY <1>0, <2>1, <2>2, <2>4, <2>5, <2>7
  <2>9. \A s \in Sides : ClosureLast(window', mbStop', saveQ'[s], listQ'[s])
    BY <2>1, <2>2, <2>4, <2>7
  <2>10. waiting' = 2  BY <2>1
  <2> QED BY <2>8, <2>9, <2>10
<1>4. CASE RecordFrame
  <2>1. PICK x \in [Sides -> FileTask] : Posting(x) /\ \A s \in Sides : x[s].kind = "frame"
    BY <1>4, FramePosts
  <2>2. /\ listQ' = listQ /\ doneQ' = doneQ /\ waiting' = waiting /\ window' = window
        /\ mbStop' = mbStop /\ ~mbStop
    BY <1>4 DEF RecordFrame, ButtonsInv
  <2>3. window.open /\ waiting <= 0  BY <2>2 DEF ButtonsInv
  <2>4. \A s \in Sides : saveQ'[s] = Append(saveQ[s], x[s])  BY <2>1, PostingFacts
  <2>5. /\ Times(doneQ, window.id) = 0
        /\ \A s \in Sides : /\ Mine \notin Queued(s) /\ Times(saveQ[s], Mine) = 0
                            /\ Times(listQ[s], Mine) = 0
    BY <2>3, NoClosure
  <2>6. \A s \in Sides : x[s] \in FileTask /\ x[s] # Mine
    BY <2>1, MineFacts
  <2>7. ASSUME NEW s \in Sides
        PROVE  /\ ClosureLast(window, mbStop', Append(saveQ[s], x[s]), listQ[s])
               /\ InSide(window, Append(saveQ[s], x[s]), listQ[s]) = 0
               /\ In(s) = 0
    <3>1. Closure(window.id) \notin ToSet(saveQ[s]) \union ToSet(listQ[s])
      BY <1>s, <2>5 DEF Mine
    <3>2. Ending(s) /\ x[s] # Closure(window.id) /\ x[s] \in FileTask /\ ~mbStop'
      BY <1>o, <2>2, <2>6 DEF Mine
    <3>3. /\ ClosureLast(window, mbStop', Append(saveQ[s], x[s]), listQ[s])
          /\ InSide(window, Append(saveQ[s], x[s]), listQ[s]) = 0
      BY <1>s, <3>1, <3>2, PostClosureLast
    <3>4. In(s) = 0  BY <2>5 DEF InSide, Mine
    <3> QED BY <3>3, <3>4
  <2>8. waiting = In("left") + In("right") + Times(doneQ, window.id)  BY <1>o, <2>2
  <2> QED BY <1>0, <2>2, <2>4, <2>7, <2>8
<1>5. CASE SaveDone
  <2>1. /\ UNCHANGED <<window, mbStop, saveQ, listQ>> /\ doneQ # <<>> /\ doneQ' = Tail(doneQ)
    BY <1>5 DEF SaveDone, fileVars
  <2>2. window.open /\ waiting = In("left") + In("right") + Times(doneQ, window.id)
        /\ \A s \in Sides : Ending(s)
    BY <1>o, <2>1
  <2>3. waiting' = IF Head(doneQ) = window.id THEN waiting - 1 ELSE waiting
    BY <1>5, <2>2 DEF SaveDone
  <2>4. Times(doneQ, window.id) = Times(Tail(doneQ), window.id)
                                    + (IF Head(doneQ) = window.id THEN 1 ELSE 0)
    BY <1>n, <2>1, TimesTail
  <2>5. Times(Tail(doneQ), window.id) \in Nat
    <3>1. Tail(doneQ) \in Seq(Nat)  BY <1>n, <2>1
    <3> QED BY <3>1, TimesFacts
  <2>6. waiting' = In("left") + In("right") + Times(Tail(doneQ), window.id)
    <3> HIDE DEF In
    <3> QED BY <1>0, <1>i, <1>n, <2>2, <2>3, <2>4, <2>5
  <2> QED BY <2>1, <2>2, <2>6
<1>6. CASE CloseWindow
  BY <1>6, <1>n DEF CloseWindow
<1>7. CASE OpenWindow
  <2>1. /\ window' = [id |-> window.id + 1, open |-> TRUE, since |-> session]
        /\ waiting' = 0 /\ UNCHANGED <<saveQ, listQ, doneQ>>
    BY <1>7 DEF OpenWindow, FreshWindow, fileVars
  <2>2. window'.id = window.id + 1 /\ window'.since = session /\ window.id \in Nat
    BY <2>1, <1>n
  <2>3. Times(doneQ, window'.id) = 0
    <3>1. \A d \in ToSet(doneQ) : d <= window.id  BY DEF ContentInv
    <3>2. window'.id \notin ToSet(doneQ)  BY <2>2, <3>1
    <3> QED BY <3>2, <1>n, TimesFacts
  <2>4. ASSUME NEW s \in Sides, NEW t \in Queued(s) PROVE ~Own(window', t)
    <3>1. Known(t) /\ t \in FileTask  BY <1>s DEF ContentInv, ToSet
    <3>2. CASE t.kind = "frame"
      <4>1. Line(t) \in recorded /\ Line(t).session = t.session
        BY <3>1, <3>2, RecordFacts DEF Known
      <4>2. t.session <= session /\ t.session \in Nat
        BY <4>1 DEF FolderInv, Types, Scalars, Lines
      <4>3. t # Closure(window'.id)  BY <3>2, <2>2, RecordFacts
      <4> QED BY <4>2, <4>3, <2>2, <1>n DEF Own
    <3>3. CASE t.kind = "done"
      <4>1. t.window <= window.id  BY <3>1, <3>3 DEF Known
      <4>2. Closure(window'.id).window = window'.id  BY <2>2, RecordFacts
      <4>3. t # Closure(window'.id)  BY <4>1, <4>2, <2>2
      <4> QED BY <3>3, <4>3 DEF Own
    <3> QED BY <3>1, <3>2, <3>3, RecordFacts
  <2>5. ASSUME NEW s \in Sides
        PROVE  /\ InSide(window', saveQ[s], listQ[s]) = 0
               /\ ClosureLast(window', mbStop', saveQ[s], listQ[s])
    <3>1. \A t \in ToSet(saveQ[s]) \union ToSet(listQ[s]) : ~Own(window', t)
      BY <1>s, <2>4
    <3>2. Closure(window'.id) \notin ToSet(saveQ[s]) \union ToSet(listQ[s])
      BY <3>1 DEF Own
    <3>3. Times(saveQ[s], Closure(window'.id)) = 0 /\ Times(listQ[s], Closure(window'.id)) = 0
      BY <1>s, <3>2, TimesFacts
    <3>4. InSide(window', saveQ[s], listQ[s]) = 0  BY <3>3 DEF InSide
    <3>5. Behind(window', saveQ[s]) /\ Behind(window', listQ[s])
      BY <3>2 DEF Behind, ToSet
    <3> QED BY <3>1, <3>2, <3>4, <3>5 DEF ClosureLast
  <2>6. /\ InSide(window', saveQ'["left"], listQ'["left"]) = 0
        /\ InSide(window', saveQ'["right"], listQ'["right"]) = 0
        /\ Times(doneQ', window'.id) = 0 /\ waiting' = 0
    BY <1>0, <2>1, <2>3, <2>5
  <2>7. \A s \in Sides : ClosureLast(window', mbStop', saveQ'[s], listQ'[s])
    BY <2>1, <2>5
  <2> QED BY <2>6, <2>7
<1>8. ASSUME NEW s \in Sides, SaveImage(s) PROVE Goal
  <2> DEFINE t == Head(saveQ[s])
  <2>1. /\ t \in FileTask /\ saveQ[s] # <<>> /\ saveQ'[s] = Tail(saveQ[s])
        /\ \A z \in Sides \ {s} : saveQ'[z] = saveQ[z] /\ listQ'[z] = listQ[z]
        /\ UNCHANGED <<uiVars, doneQ>>
        /\ \/ listQ'[s] = Append(listQ[s], t)
           \/ listQ'[s] = listQ[s] /\ t.kind = "frame"
    BY <1>8, SaveImageFacts
  <2>2. UNCHANGED <<window, mbStop, waiting>>  BY <2>1 DEF uiVars
  <2>3. window.open /\ waiting = In("left") + In("right") + Times(doneQ, window.id)
        /\ \A z \in Sides : Ending(z)
    BY <1>o, <2>2
  <2>4. t.kind = "frame" => t # Closure(window.id)  BY MineFacts DEF Mine
  <2>5. /\ ClosureLast(window, mbStop, saveQ'[s], listQ'[s])
        /\ InSide(window, saveQ'[s], listQ'[s]) = In(s)
    <3> HIDE DEF In, t
    <3>1. Ending(s) /\ saveQ[s] \in Seq(FileTask) /\ listQ[s] \in Seq(FileTask)
      BY <1>s, <2>3
    <3>2. /\ ClosureLast(window, mbStop, Tail(saveQ[s]), Append(listQ[s], t))
          /\ InSide(window, Tail(saveQ[s]), Append(listQ[s], t)) = In(s)
          /\ t # Closure(window.id) =>
               /\ ClosureLast(window, mbStop, Tail(saveQ[s]), listQ[s])
               /\ InSide(window, Tail(saveQ[s]), listQ[s]) = In(s)
      BY <2>1, <3>1, HandOnClosureLast DEF In, t
    <3> QED BY <2>1, <2>4, <3>2
  <2>6. \A z \in Sides : /\ ClosureLast(window, mbStop, saveQ'[z], listQ'[z])
                         /\ InSide(window, saveQ'[z], listQ'[z]) = In(z)
    BY <2>1, <2>3, <2>5
  <2> QED BY <1>0, <2>1, <2>2, <2>3, <2>6
<1>9. ASSUME NEW s \in Sides, SaveListFile(s) PROVE Goal
  <2> DEFINE t == Head(listQ[s])
  <2>1. /\ t \in FileTask /\ listQ[s] # <<>> /\ listQ'[s] = Tail(listQ[s]) /\ saveQ' = saveQ
        /\ \A z \in Sides \ {s} : listQ'[z] = listQ[z]
        /\ UNCHANGED uiVars
        /\ \/ t.kind = "done" /\ doneQ' = Append(doneQ, t.window)
           \/ t.kind = "frame" /\ doneQ' = doneQ
    BY <1>9, SaveListFacts
  <2>2. UNCHANGED <<window, mbStop, waiting>>  BY <2>1 DEF uiVars
  <2>3. window.open /\ waiting = In("left") + In("right") + Times(doneQ, window.id)
        /\ \A z \in Sides : Ending(z)
    BY <1>o, <2>2
  <2> HIDE DEF t
  <2>4. /\ t.kind = "frame" => t # Closure(window.id)
        /\ t.kind = "done" => t.window \in Nat /\ (t = Closure(window.id) <=> t.window = window.id)
    <3>1. t.kind = "done" => t.window \in Nat /\ t = Closure(t.window)
      BY <2>1, RecordFacts
    <3>2. Closure(window.id).window = window.id /\ Closure(window.id).kind = "done"
      BY MineFacts DEF Mine
    <3> QED BY <3>1, <3>2
  <2>5. /\ ClosureLast(window, mbStop, saveQ[s], listQ'[s])
        /\ In(s) = InSide(window, saveQ[s], listQ'[s])
                     + (IF t = Closure(window.id) THEN 1 ELSE 0)
        /\ InSide(window, saveQ[s], listQ'[s]) \in Nat
    BY <1>s, <2>1, <2>3, WriteClosureLast DEF t
  <2>6. Times(doneQ', window.id) = Times(doneQ, window.id)
                                     + (IF t = Closure(window.id) THEN 1 ELSE 0)
    <3>1. CASE t.kind = "done"
      <4>1. doneQ' = Append(doneQ, t.window)  BY <2>1, <3>1
      <4>2. t.window \in Nat /\ (t = Closure(window.id) <=> t.window = window.id)
        BY <2>4, <3>1
      <4>3. Times(Append(doneQ, t.window), window.id) = Times(doneQ, window.id)
               + (IF t.window = window.id THEN 1 ELSE 0)
        BY <1>n, <4>2, TimesAppend
      <4> QED BY <4>1, <4>2, <4>3
    <3>2. CASE t.kind = "frame"
      BY <1>i, <2>1, <2>4, <3>2
    <3> QED BY <2>1, <3>1, <3>2
  <2>7. \A z \in Sides \ {s} : InSide(window, saveQ[z], listQ'[z]) = In(z)
    BY <2>1
  <2>8. In("left") + In("right") + Times(doneQ, window.id)
          = InSide(window, saveQ["left"], listQ'["left"])
              + InSide(window, saveQ["right"], listQ'["right"]) + Times(doneQ', window.id)
    <3> DEFINE New(z) == InSide(window, saveQ[z], listQ'[z])
    <3>1. \A z \in Sides \ {s} : New(z) = In(z)  BY <2>7
    <3>2. In(s) = New(s) + (IF t = Closure(window.id) THEN 1 ELSE 0) /\ New(s) \in Nat
      BY <2>5
    <3> HIDE DEF In, New
    <3>3. In("left") + In("right") + Times(doneQ, window.id)
            = New("left") + New("right") + Times(doneQ', window.id)
      <4>1. CASE s = "left"  BY <4>1, <1>0, <1>i, <2>6, <3>1, <3>2
      <4>2. CASE s = "right"  BY <4>2, <1>0, <1>i, <2>6, <3>1, <3>2
      <4> QED BY <1>0, <4>1, <4>2
    <3> QED BY <3>3 DEF New
  <2>9. \A z \in Sides : ClosureLast(window, mbStop, saveQ[z], listQ'[z])
    BY <2>1, <2>3, <2>5
  <2> QED BY <2>1, <2>2, <2>3, <2>8, <2>9
<1> QED BY <1>2, <1>3, <1>4, <1>5, <1>6, <1>7, <1>8, <1>9 DEF Next

-----------------------------------------------------------------------------
(***************************************************************************)
(* The invariant, and the properties of the runs.                          *)
(***************************************************************************)
LEMMA InvInit == Init => Inv
<1> SUFFICES ASSUME Init PROVE Inv
  OBVIOUS
<1>1. /\ <<>> \in Seq(FileTask) /\ <<>> \in Seq(Lines) /\ <<>> \in Seq(Nat)
      /\ DOMAIN <<>> = {}
  OBVIOUS
<1>2. \A s \in Sides : saveQ[s] = <<>> /\ listQ[s] = <<>> /\ list[s] = <<>>
  BY DEF Init
<1>3. ToSet(<<>>) = {} /\ \A s \in Sides : Queued(s) = {}
  BY <1>1, <1>2 DEF ToSet, Queued
<1>4. Scalars
  <2>1. window \in [id : Nat, open : BOOLEAN, since : Nat] /\ enabled \subseteq Buttons
    BY DEF Init, Buttons
  <2>2. mbPlay \in BOOLEAN /\ mbRecord \in BOOLEAN /\ mbStop \in BOOLEAN /\ crashed \in BOOLEAN
    BY DEF Init
  <2>3. waiting \in Int /\ mRecordCnt \in Nat /\ session \in Nat  BY DEF Init
  <2>4. folder \in Folders /\ recorded \subseteq Lines  BY DEF Init
  <2> QED BY <2>1, <2>2, <2>3, <2>4 DEF Scalars
<1>5. Queues  BY <1>1 DEF Init, Queues
<1>6. ButtonsInv  BY DEF Init, ButtonsInv
<1>7. FolderInv  BY DEF Init, FolderInv, OneFolder
<1>8. ContentInv
  BY <1>2, <1>3 DEF Init, ContentInv, FrameAccounting, QueuedFrames
<1>9. OrderInv  BY <1>1, <1>2, <1>3 DEF OrderInv, Sorted
<1>10. ClosureInv
  <2>1. ASSUME NEW x PROVE Times(<<>>, x) = 0
    <3>1. x \notin ToSet(<<>>)  BY <1>3
    <3>2. <<>> \in Seq(Nat)  OBVIOUS
    <3> QED BY <3>1, <3>2, TimesFacts
  <2>2. \A s \in Sides : InSide(window, saveQ[s], listQ[s]) = 0
    BY <1>2, <2>1 DEF InSide
  <2>3. waiting = OnTheWay
    <3>1. waiting = 0 /\ doneQ = <<>> /\ "left" \in Sides /\ "right" \in Sides
      BY DEF Init, Sides
    <3> QED BY <2>1, <2>2, <3>1 DEF OnTheWay
  <2>4. \A s \in Sides : ClosureLast(window, mbStop, saveQ[s], listQ[s])
    BY <1>1, <1>2, <1>3, <2>2 DEF ClosureLast, Behind
  <2> QED BY <2>3, <2>4 DEF ClosureInv
<1> QED BY <1>4, <1>5, <1>6, <1>7, <1>8, <1>9, <1>10 DEF Inv, Types

LEMMA InvNext == Inv /\ [Next]_vars => Inv'
BY TypesNext, ButtonsNext, FolderNext, ContentNext, OrderNext, ClosureNext DEF Inv

THEOREM InvTheorem == Spec => []Inv
BY InvInit, InvNext, PTL DEF Spec

(***************************************************************************)
(* A recording can only be started while the preview runs (recordVedio     *)
(* and the buttons it finds enabled).                                      *)
(***************************************************************************)
THEOREM PreviewTheorem == Spec => []RecordNeedsPreview
<1>1. Inv => RecordNeedsPreview  BY DEF Inv, ButtonsInv, RecordNeedsPreview
<1> QED BY <1>1, InvTheorem, PTL

(***************************************************************************)
(* One recording goes to one folder (selectSaveFolder during recordVedio). *)
(***************************************************************************)
THEOREM FolderTheorem == Spec => []OneFolder
<1>1. Inv => OneFolder  BY DEF Inv, FolderInv
<1> QED BY <1>1, InvTheorem, PTL

(***************************************************************************)
(* Every frame set counted by RecordFrame is, on each side, in a queue, in *)
(* the list or lost to the file system.                                    *)
(***************************************************************************)
THEOREM AccountingTheorem == Spec => []FrameAccounting
<1>1. Inv => FrameAccounting  BY DEF Inv, ContentInv
<1> QED BY <1>1, InvTheorem, PTL

(***************************************************************************)
(* SaveListFile writes the lines of a side in the order of capture, each   *)
(* once, whatever is paused, stopped, closed or lost in between.           *)
(***************************************************************************)
THEOREM OrderTheorem == Spec => []ListsInOrder
<1>1. Inv => ListsInOrder
  <2> SUFFICES ASSUME Inv, NEW s \in Sides PROVE Ordered(list[s]) /\ DOMAIN list[s] = 1..Len(list[s])
    BY DEF ListsInOrder, Ordered
  <2>1. list[s] \in Seq(Lines)  BY SideQueues DEF Inv
  <2> QED BY <2>1 DEF Inv, OrderInv, Ordered
<1> QED BY <1>1, InvTheorem, PTL

(***************************************************************************)
(* stop_record_waiting_threads_ counts the closures of the open window     *)
(* that are still on their way through FILE1 to FILE4 and back.            *)
(***************************************************************************)
THEOREM WaitingTheorem == Spec => []WaitingIsClosures
<1>1. Inv => WaitingIsClosures
  <2> SUFFICES ASSUME Inv, window.open
               PROVE  waiting = Times(saveQ["left"], Mine) + Times(saveQ["right"], Mine)
                                + Times(listQ["left"], Mine) + Times(listQ["right"], Mine)
                                + Times(doneQ, window.id)
    BY DEF WaitingIsClosures, Count, Times, Mine
  <2>1. waiting = (Times(saveQ["left"], Mine) + Times(listQ["left"], Mine))
                   + (Times(saveQ["right"], Mine) + Times(listQ["right"], Mine))
                   + Times(doneQ, window.id)
    BY DEF Inv, ClosureInv, OnTheWay, InSide, Mine
  <2>2. \A s \in Sides : Times(saveQ[s], Mine) \in Nat /\ Times(listQ[s], Mine) \in Nat
    BY SideQueues, TimesFacts DEF Inv
  <2>3. Times(doneQ, window.id) \in Nat
    <3>1. doneQ \in Seq(Nat)  BY DEF Inv, Types, Queues
    <3> QED BY <3>1, TimesFacts
  <2>4. "left" \in Sides /\ "right" \in Sides  BY DEF Sides
  <2> QED BY <2>1, <2>2, <2>3, <2>4
<1> QED BY <1>1, InvTheorem, PTL

(***************************************************************************)
(* The buttons come back (OnRecorderSaveDone) only when nothing the window *)
(* recorded is left in a file thread.                                      *)
(***************************************************************************)
THEOREM DrainedTheorem == Spec => []SavedMeansDrained
<1>1. Inv => SavedMeansDrained
  <2> SUFFICES ASSUME Inv, window.open, mbStop, {"play", "record"} \subseteq enabled,
                      NEW s \in Sides, NEW t \in Queued(s)
               PROVE  \/ t.kind = "frame" /\ t.session <= window.since
                      \/ t.kind = "done" /\ t.window # window.id
    BY DEF SavedMeansDrained
  <2>1. ~(waiting > 0)
    <3>1. enabled # {}  OBVIOUS
    <3> QED BY <3>1 DEF Inv, ButtonsInv
  <2>2. Types /\ ClosureInv /\ waiting <= 0
    <3>1. waiting \in Int  BY DEF Inv, Types, Scalars
    <3> QED BY <2>1, <3>1 DEF Inv
  <2>3. Mine \notin Queued(s)  BY <2>2, NoClosure
  <2>4. ClosureLast(window, mbStop, saveQ[s], listQ[s])  BY <2>2 DEF ClosureInv
  <2>5. Queued(s) = ToSet(saveQ[s]) \union ToSet(listQ[s])  BY <2>2, SideQueues
  <2>6. ~Own(window, t)
    BY <2>3, <2>4, <2>5 DEF ClosureLast, Mine
  <2>7. t \in FileTask  BY <2>2, <2>5, SideQueues DEF ToSet
  <2>8. CASE t.kind = "frame"
    <3>1. ~(t.session > window.since)  BY <2>6, <2>8 DEF Own
    <3>2. t.session \in Nat /\ window.since \in Nat
      BY <2>2, <2>7, <2>8, RecordFacts DEF Types, Scalars, Lines
    <3> QED BY <2>8, <3>1, <3>2
  <2>9. CASE t.kind = "done"
    <3>1. t = Closure(t.window)  BY <2>7, <2>9, RecordFacts
    <3> QED BY <2>9, <3>1, <2>6 DEF Own
  <2> QED BY <2>7, <2>8, <2>9, RecordFacts
<1> QED BY <1>1, InvTheorem, PTL
-----------------------------------------------------------------------------
(***************************************************************************)
(* The bounds of TypeOK, on top of Inv: mRecordCnt is at most the number   *)
(* of frame sets recorded, and a closure counts only while it is owed.     *)
(***************************************************************************)
Counters ==
  /\ window.id >= 1 /\ window.id <= MaxWindows /\ window.since <= session
  /\ session <= MaxSessions
  /\ waiting >= 0 /\ waiting <= 2
  /\ IsFiniteSet(recorded)
  /\ mRecordCnt <= Cardinality(recorded) /\ Cardinality(recorded) <= MaxFrames

\* Every closure comes from a window.
Origins ==
  /\ \A s \in Sides : \A t \in Queued(s) : t.kind = "done" => t.window >= 1
  /\ \A d \in ToSet(doneQ) : d >= 1

LEMMA BoundsInit == Init => Counters /\ Origins
<1> SUFFICES ASSUME Init PROVE Counters /\ Origins
  OBVIOUS
<1>1. Counters
  <2>1. window.id = 1 /\ window.since = 0 /\ session = 0 /\ waiting = 0 /\ mRecordCnt = 0
        /\ recorded = {}
    BY DEF Init
  <2>2. IsFiniteSet(recorded) /\ Cardinality(recorded) = 0  BY <2>1, FS_EmptySet
  <2> QED BY <2>1, <2>2, RecorderAssumption DEF Counters
<1>2. Origins
  <2>1. \A s \in Sides : saveQ[s] = <<>> /\ listQ[s] = <<>>  BY DEF Init
  <2>2. doneQ = <<>> /\ ToSet(<<>>) = {}  BY DEF Init, ToSet
  <2> QED BY <2>1, <2>2 DEF Origins, Queued
<1> QED BY <1>1, <1>2

LEMMA CountersNext == Inv /\ Counters /\ [Next]_vars => Counters'
<1> SUFFICES ASSUME Inv, Counters, [Next]_vars PROVE Counters'
  OBVIOUS
<1>0. Scalars /\ doneQ \in Seq(Nat)  BY DEF Inv, Types, Queues
<1>1. CASE UNCHANGED <<window, session, waiting, recorded, mRecordCnt>>
  BY <1>1 DEF Counters
<1>2. CASE StartPreview \/ StopPreview \/ SelectFolder \/ UNCHANGED vars \/ Stopped
           \/ \E s \in Sides : SaveImage(s) \/ SaveListFile(s)
  BY <1>2, <1>1 DEF StartPreview, StopPreview, SelectFolder, Stopped, SaveImage,
                    SaveListFile, vars, uiVars
<1>3. CASE PressRecord
  <2>1. CASE ~mbRecord /\ mbStop
    <3>1. /\ session' = session + 1 /\ session < MaxSessions /\ mRecordCnt' = 0
          /\ window' = window /\ waiting' = waiting /\ recorded' = recorded
      BY <1>3, <2>1 DEF PressRecord
    <3>2. Cardinality(recorded) \in Nat  BY FS_CardinalityType DEF Counters
    <3> QED BY <3>1, <3>2, <1>0, RecorderAssumption DEF Counters, Scalars
  <2>2. CASE ~(~mbRecord /\ mbStop)  BY <1>3, <2>2, <1>1 DEF PressRecord
  <2> QED BY <2>1, <2>2
<1>4. CASE PressStop
  <2>1. waiting' = 2 /\ UNCHANGED <<window, session, recorded, mRecordCnt>>
    BY <1>4 DEF PressStop, StopRecording
  <2> QED BY <2>1 DEF Counters
<1>5. CASE RecordFrame
  <2> DEFINE a == [session |-> session, seq |-> mRecordCnt + 1, folder |-> folder]
  <2>1. /\ recorded' = recorded \union {a} /\ mRecordCnt' = mRecordCnt + 1
        /\ mbRecord /\ Cardinality(recorded) < MaxFrames
        /\ UNCHANGED <<window, session, waiting>>
    BY <1>5 DEF RecordFrame
  <2>2. a \notin recorded
    <3>1. ~mbStop  BY <2>1 DEF Inv, ButtonsInv
    <3>2. a.session = session /\ a.seq = mRecordCnt + 1  OBVIOUS
    <3> HIDE DEF a
    <3>3. a \in recorded => a.seq <= mRecordCnt  BY <3>1, <3>2 DEF Inv, FolderInv
    <3> QED BY <3>2, <3>3, <1>0 DEF Scalars
  <2> HIDE DEF a
  <2>3. IsFiniteSet(recorded') /\ Cardinality(recorded') = Cardinality(recorded) + 1
        /\ Cardinality(recorded) \in Nat
    BY <2>1, <2>2, FS_AddElement, FS_CardinalityType DEF Counters
  <2> QED BY <2>1, <2>3, <1>0, RecorderAssumption DEF Counters, Scalars
<1>6. CASE SaveDone
  <2>1. UNCHANGED <<window, session, recorded, mRecordCnt>> /\ doneQ # <<>>
    BY <1>6 DEF SaveDone
  <2>2. CASE window.open /\ Head(doneQ) = window.id
    <3>1. waiting' = waiting - 1  BY <1>6, <2>2 DEF SaveDone
    <3>2. waiting > 0
      <4>1. Head(doneQ) \in ToSet(doneQ)  BY <1>0, <2>1, TailFacts
      <4>2. Times(doneQ, window.id) # 0
        <5>1. window.id \in ToSet(doneQ)  BY <4>1, <2>2
        <5>2. Times(doneQ, window.id) = 0 <=> window.id \notin ToSet(doneQ)
          BY <1>0, TimesFacts, Zenon
        <5> QED BY <5>1, <5>2
      <4>3. SUFFICES ASSUME ~(waiting > 0) PROVE FALSE
        OBVIOUS
      <4>4. waiting <= 0  BY <4>3, <1>0 DEF Scalars
      <4>5. Times(doneQ, window.id) = 0  BY <4>4, <2>2, NoClosure DEF Inv
      <4> QED BY <4>2, <4>5
    <3> QED BY <2>1, <3>1, <3>2, <1>0 DEF Counters, Scalars
  <2>3. CASE ~(window.open /\ Head(doneQ) = window.id)
    BY <1>6, <2>1, <2>3, <1>1 DEF SaveDone
  <2> QED BY <2>2, <2>3
<1>7. CASE CloseWindow
  <2>1. /\ window'.id = window.id /\ window'.since = window.since
        /\ UNCHANGED <<session, recorded, mRecordCnt>> /\ waiting' \in {waiting, 2}
    BY <1>7, <1>0 DEF CloseWindow, StopRecording, Scalars
  <2> QED BY <2>1 DEF Counters
<1>8. CASE OpenWindow
  <2>1. /\ window'.id = window.id + 1 /\ window'.since = session /\ window.id < MaxWindows
        /\ UNCHANGED <<session, recorded>> /\ waiting' = 0 /\ mRecordCnt' = 0
    BY <1>8 DEF OpenWindow, FreshWindow
  <2>2. Cardinality(recorded) \in Nat  BY FS_CardinalityType DEF Counters
  <2> QED BY <2>1, <2>2, <1>0, RecorderAssumption DEF Counters, Scalars
<1> QED BY <1>2, <1>3, <1>4, <1>5, <1>6, <1>7, <1>8 DEF Next

LEMMA OriginsNext == Inv /\ Counters /\ Origins /\ [Next]_vars => Origins'
<1> SUFFICES ASSUME Inv, Counters, Origins, [Next]_vars PROVE Origins'
  OBVIOUS
<1> USE DEF Inv
<1>1. CASE UNCHANGED <<saveQ, listQ, doneQ>>
  BY <1>1 DEF Origins, Queued
<1>2. CASE StartPreview \/ StopPreview \/ SelectFolder \/ PressRecord \/ UNCHANGED vars
           \/ Stopped \/ OpenWindow \/ (CloseWindow /\ mbStop)
  BY <1>2, <1>1 DEF StartPreview, StopPreview, SelectFolder, PressRecord, vars, uiVars,
                    fileVars, Stopped, OpenWindow, CloseWindow
<1>3. CASE SaveDone
  <2>1. doneQ # <<>> /\ doneQ' = Tail(doneQ) /\ doneQ \in Seq(Nat) /\ UNCHANGED <<saveQ, listQ>>
    BY <1>3 DEF SaveDone, Types, Queues, fileVars
  <2>2. ToSet(doneQ)' \subseteq ToSet(doneQ)  BY <2>1, TailFacts
  <2> QED BY <2>1, <2>2 DEF Origins, Queued
<1>4. CASE PressStop \/ (CloseWindow /\ ~mbStop)
  <2> DEFINE x == [s \in Sides |-> Mine]
  <2>1. x \in [Sides -> FileTask] /\ Posting(x) /\ \A s \in Sides : x[s] = Mine
    BY <1>4, StopPosts
  <2>2. Mine.window >= 1  BY MineFacts DEF Counters
  <2>3. doneQ' = doneQ  BY <1>4 DEF PressStop, CloseWindow
  <2> HIDE DEF x, Mine
  <2>4. \A s \in Sides : Queued(s)' = Queued(s) \union {Mine}
    BY <2>1, PostingFacts
  <2> QED BY <2>2, <2>3, <2>4 DEF Origins
<1>5. CASE RecordFrame
  <2>1. PICK x \in [Sides -> FileTask] : Posting(x) /\ \A s \in Sides : x[s].kind = "frame"
    BY <1>5, FramePosts
  <2>2. \A s \in Sides : Queued(s)' = Queued(s) \union {x[s]}
    BY <2>1, PostingFacts
  <2>3. doneQ' = doneQ  BY <1>5 DEF RecordFrame
  <2> QED BY <2>1, <2>2, <2>3 DEF Origins
<1>6. ASSUME NEW s \in Sides, SaveImage(s) PROVE Origins'
  <2> DEFINE t == Head(saveQ[s])
  <2>1. /\ \A z \in Sides \ {s} : saveQ'[z] = saveQ[z] /\ listQ'[z] = listQ[z]
        /\ Queued(s) = Queued(s)' \union {t} /\ doneQ' = doneQ
    BY <1>6, SaveImageFacts
  <2> HIDE DEF t
  <2>2. \A z \in Sides : Queued(z)' \subseteq Queued(z)  BY <2>1 DEF Queued
  <2> QED BY <2>1, <2>2 DEF Origins
<1>7. ASSUME NEW s \in Sides, SaveListFile(s) PROVE Origins'
  <2> DEFINE t == Head(listQ[s])
  <2>1. /\ \A z \in Sides \ {s} : listQ'[z] = listQ[z]
        /\ saveQ' = saveQ /\ t \in FileTask /\ Queued(s) = Queued(s)' \union {t}
        /\ \/ t.kind = "done" /\ doneQ' = Append(doneQ, t.window)
           \/ doneQ' = doneQ
    BY <1>7, SaveListFacts
  <2> HIDE DEF t
  <2>2. \A z \in Sides : Queued(z)' \subseteq Queued(z)  BY <2>1 DEF Queued
  <2>3. CASE doneQ' = doneQ  BY <2>2, <2>3 DEF Origins
  <2>4. CASE t.kind = "done" /\ doneQ' = Append(doneQ, t.window)
    <3>1. t.window \in Nat /\ t.window >= 1  BY <2>1, <2>4, RecordFacts DEF Origins
    <3>2. doneQ \in Seq(Nat)  BY DEF Types, Queues
    <3>3. ToSet(doneQ') = ToSet(doneQ) \union {t.window}  BY <3>1, <3>2, <2>4, AppendFacts
    <3> QED BY <2>2, <3>1, <3>3 DEF Origins
  <2> QED BY <2>1, <2>3, <2>4
<1> QED BY <1>2, <1>3, <1>4, <1>5, <1>6, <1>7 DEF Next

(***************************************************************************)
(* Type correctness: the counters stay in their bounds, in particular      *)
(* stop_record_waiting_threads_ in 0..2, and only frames that were counted *)
(* are in the queues of the file threads and in the lists.                 *)
(***************************************************************************)
THEOREM TypeTheorem == Spec => []TypeOK
<1>1. Init => Inv /\ Counters /\ Origins  BY InvInit, BoundsInit
<1>2. Inv /\ Counters /\ Origins /\ [Next]_vars => (Inv /\ Counters /\ Origins)'
  BY InvNext, CountersNext, OriginsNext
<1>3. Inv /\ Counters /\ Origins => TypeOK
  <2> SUFFICES ASSUME Inv, Counters, Origins PROVE TypeOK
    OBVIOUS
  <2>1. Scalars /\ Queues /\ Types  BY DEF Inv, Types
  <2>2. /\ window \in [id : 1..MaxWindows, open : BOOLEAN, since : 0..MaxSessions]
        /\ session \in 0..MaxSessions /\ waiting \in 0..2
    <3>1. /\ window.id \in 1..MaxWindows /\ window.since \in 0..MaxSessions
          /\ session \in 0..MaxSessions /\ waiting \in 0..2
      BY <2>1, RecorderAssumption DEF Scalars, Counters
    <3> QED BY <2>1, <3>1 DEF Scalars
  <2>3. mRecordCnt \in 0..MaxFrames
    <3>1. Cardinality(recorded) \in Nat  BY FS_CardinalityType DEF Counters
    <3> QED BY <2>1, <3>1, RecorderAssumption DEF Scalars, Counters
  <2>4. ASSUME NEW s \in Sides, NEW t \in Queued(s)
        PROVE  \/ t.kind = "done" /\ t.window \in 1..MaxWindows
               \/ t.kind = "frame" /\ Line(t) \in recorded
    <3>1. t \in FileTask  BY <2>1, SideQueues DEF ToSet
    <3>2. Known(t)  BY DEF Inv, ContentInv
    <3>3. t.kind = "done" => t.window >= 1  BY DEF Origins
    <3>4. window.id \in Nat  BY <2>1 DEF Scalars
    <3> QED BY <3>1, <3>2, <3>3, <3>4, RecordFacts, RecorderAssumption DEF Known, Counters
  <2>5. \A s \in Sides : ToSet(list[s]) \subseteq recorded  BY DEF Inv, ContentInv
  <2>6. ASSUME NEW i \in 1..Len(doneQ) PROVE doneQ[i] \in 1..MaxWindows
    <3>1. doneQ \in Seq(Nat)  BY <2>1 DEF Queues
    <3>2. doneQ[i] \in ToSet(doneQ) /\ doneQ[i] \in Nat  BY <3>1 DEF ToSet
    <3>3. doneQ[i] <= window.id /\ doneQ[i] >= 1  BY <3>2 DEF Inv, ContentInv, Origins
    <3>4. window.id \in Nat  BY <2>1 DEF Scalars
    <3> QED BY <3>2, <3>3, <3>4, RecorderAssumption DEF Counters
  <2>7. /\ {mbPlay, mbRecord, mbStop, crashed} \subseteq BOOLEAN
        /\ enabled \subseteq Buttons /\ folder \in Folders
    BY <2>1 DEF Scalars
  <2> QED BY <2>2, <2>3, <2>4, <2>5, <2>6, <2>7 DEF TypeOK, Queued
<1> QED BY <1>1, <1>2, <1>3, PTL DEF Spec
-----------------------------------------------------------------------------
(***************************************************************************)
(* What is left of a recording only gets less once it was stopped.         *)
(***************************************************************************)
Cost(sq, lq) == 3 * Len(sq) + 2 * Len(lq)

\* A backlog is that of the two sides and of the UI loop.
LEMMA CostFacts ==
  ASSUME NEW sq \in [Sides -> Seq(FileTask)], NEW lq \in [Sides -> Seq(FileTask)],
         NEW dq \in Seq(Nat)
  PROVE  /\ 3 * (Len(sq["left"]) + Len(sq["right"]))
              + 2 * (Len(lq["left"]) + Len(lq["right"])) + Len(dq)
            = Cost(sq["left"], lq["left"]) + Cost(sq["right"], lq["right"]) + Len(dq)
         /\ \A s \in Sides : Cost(sq[s], lq[s]) \in Nat
         /\ Len(dq) \in Nat
<1>1. \A s \in Sides : Len(sq[s]) \in Nat /\ Len(lq[s]) \in Nat
  <2>1. \A s \in Sides : sq[s] \in Seq(FileTask) /\ lq[s] \in Seq(FileTask)  OBVIOUS
  <2> QED BY <2>1
<1>2. "left" \in Sides /\ "right" \in Sides  BY DEF Sides
<1>3. ASSUME NEW a \in Nat, NEW b \in Nat, NEW c \in Nat, NEW d \in Nat, NEW e \in Nat
      PROVE  /\ 3 * (a + b) + 2 * (c + d) + e = (3 * a + 2 * c) + (3 * b + 2 * d) + e
             /\ 3 * a + 2 * c \in Nat
  OBVIOUS
<1>4. Len(dq) \in Nat  OBVIOUS
<1>5. \A s \in Sides : Cost(sq[s], lq[s]) \in Nat  BY <1>1, <1>3, <1>4 DEF Cost
<1> DEFINE a == Len(sq["left"])
           b == Len(sq["right"])
           c == Len(lq["left"])
           d == Len(lq["right"])
           e == Len(dq)
<1>6. a \in Nat /\ b \in Nat /\ c \in Nat /\ d \in Nat /\ e \in Nat
  BY <1>1, <1>2, <1>4
<1>7. /\ Cost(sq["left"], lq["left"]) = 3 * a + 2 * c
      /\ Cost(sq["right"], lq["right"]) = 3 * b + 2 * d
  BY DEF Cost
<1>8. 3 * (a + b) + 2 * (c + d) + e
      = Cost(sq["left"], lq["left"]) + Cost(sq["right"], lq["right"]) + e
  <2> HIDE DEF a, b, c, d, e
  <2> QED BY <1>3, <1>6, <1>7
<1> QED BY <1>4, <1>5, <1>8

\* A step that takes more from a side than it gives to the UI loop.
LEMMA SideDrains ==
  ASSUME Types, Types', NEW s \in Sides,
         \A z \in Sides \ {s} : saveQ'[z] = saveQ[z] /\ listQ'[z] = listQ[z],
         NEW n \in Nat, Len(doneQ') = Len(doneQ) + n,
         Cost(saveQ'[s], listQ'[s]) + n < Cost(saveQ[s], listQ[s])
  PROVE  Backlog' < Backlog
<1> DEFINE c(z) == Cost(saveQ[z], listQ[z])
           d(z) == Cost(saveQ'[z], listQ'[z])
<1>1. /\ Backlog = c("left") + c("right") + Len(doneQ)
      /\ \A z \in Sides : c(z) \in Nat
      /\ Len(doneQ) \in Nat
  BY CostFacts DEF Types, Queues, Backlog
<1>2. /\ Backlog' = d("left") + d("right") + Len(doneQ')
      /\ \A z \in Sides : d(z) \in Nat
  BY CostFacts DEF Types, Queues, Backlog
<1>3. "left" \in Sides /\ "right" \in Sides /\ (s = "left" \/ s = "right")  BY DEF Sides
<1>4. \A z \in Sides \ {s} : d(z) = c(z)  OBVIOUS
<1>5. d(s) + n < c(s)  OBVIOUS
<1> HIDE DEF c, d
<1>6. \/ d("right") = c("right") /\ d("left") + n < c("left")
      \/ d("left") = c("left") /\ d("right") + n < c("right")
  BY <1>3, <1>4, <1>5
<1>7. /\ c("left") \in Nat /\ c("right") \in Nat
      /\ d("left") \in Nat /\ d("right") \in Nat
  BY <1>1, <1>2, <1>3
<1>8. ASSUME NEW x \in Nat, NEW y \in Nat, NEW u \in Nat, NEW v \in Nat, NEW e \in Nat,
             (v = y /\ u + n < x) \/ (u = x /\ v + n < y)
      PROVE  u + v + (e + n) < x + y + e
  BY <1>8
<1>9. d("left") + d("right") + (Len(doneQ) + n) < c("left") + c("right") + Len(doneQ)
  BY <1>1, <1>6, <1>7, <1>8
<1> QED BY <1>1, <1>2, <1>9

(***************************************************************************)
(* After stopRecordVedio the window presses nothing and gets no frame, and *)
(* every step of FILE1 to FILE4 and of the UI loop brings "saved" nearer,  *)
(* unless the window is closed or a null frame ends the process.           *)
(***************************************************************************)
THEOREM DrainTheorem == Spec => StopDrains
<1>1. ASSUME Inv, Inv', Next, window.open, waiting > 0, ~crashed', window'.open, vars' # vars
      PROVE  Backlog' < Backlog
  <2>1. Types /\ Types'  BY <1>1 DEF Inv
  <2>2. /\ enabled = {} /\ ~mbRecord
        /\ saveQ \in [Sides -> Seq(FileTask)] /\ listQ \in [Sides -> Seq(FileTask)]
        /\ doneQ \in Seq(Nat)
    BY <1>1 DEF Inv, ButtonsInv, Types, Queues
  <2>3. ~(StartPreview \/ StopPreview \/ SelectFolder \/ PressRecord \/ PressStop \/ RecordFrame)
    BY <2>2 DEF StartPreview, StopPreview, SelectFolder, PressRecord, PressStop, RecordFrame,
                Press
  <2>4. ~(OpenWindow \/ Stopped)  BY <1>1 DEF OpenWindow, Stopped
  <2>5. ~CloseWindow
    <3>1. window \in [id : Nat, open : BOOLEAN, since : Nat]  BY <2>1 DEF Types, Scalars
    <3> QED BY <3>1, <1>1 DEF CloseWindow
  <2>6. CASE SaveDone
    <3>1. saveQ' = saveQ /\ listQ' = listQ /\ doneQ # <<>> /\ doneQ' = Tail(doneQ)
      BY <2>6 DEF SaveDone, fileVars
    <3>2. Len(doneQ') = Len(doneQ) - 1 /\ Len(doneQ) \in Nat  BY <2>2, <3>1, TailFacts
    <3> DEFINE k == 3 * (Len(saveQ["left"]) + Len(saveQ["right"]))
                      + 2 * (Len(listQ["left"]) + Len(listQ["right"]))
    <3>3. k \in Int
      <4>1. \A s \in Sides : Len(saveQ[s]) \in Nat /\ Len(listQ[s]) \in Nat
        BY <2>1, SideQueues
      <4> QED BY <4>1 DEF Sides
    <3>4. Backlog = k + Len(doneQ) /\ Backlog' = k + Len(doneQ')
      BY <3>1 DEF Backlog
    <3> HIDE DEF k
    <3> QED BY <3>2, <3>3, <3>4
  <2>7. ASSUME NEW s \in Sides, SaveImage(s) PROVE Backlog' < Backlog
    <3>1. /\ \A z \in Sides \ {s} : saveQ'[z] = saveQ[z] /\ listQ'[z] = listQ[z]
          /\ doneQ' = doneQ /\ saveQ[s] # <<>> /\ saveQ'[s] = Tail(saveQ[s])
          /\ Head(saveQ[s]) \in FileTask
          /\ listQ'[s] = Append(listQ[s], Head(saveQ[s])) \/ listQ'[s] = listQ[s]
      BY <2>1, <2>7, SaveImageFacts
    <3>2. saveQ[s] \in Seq(FileTask) /\ listQ[s] \in Seq(FileTask)  BY <2>1, SideQueues
    <3>3. Len(saveQ'[s]) = Len(saveQ[s]) - 1 /\ Len(saveQ[s]) \in Nat
      BY <3>1, <3>2, TailFacts
    <3>4. /\ Len(listQ'[s]) = Len(listQ[s]) + 1 \/ Len(listQ'[s]) = Len(listQ[s])
          /\ Len(listQ[s]) \in Nat
      BY <3>1, <3>2, AppendFacts
    <3>n. PICK n \in Nat : n = 0  OBVIOUS
    <3>5. Cost(saveQ'[s], listQ'[s]) + n < Cost(saveQ[s], listQ[s])
      <4>1. ASSUME NEW a \in Nat, NEW b \in Nat, NEW c, NEW d,
                   c = a - 1, d = b + 1 \/ d = b
            PROVE  3 * c + 2 * d + n < 3 * a + 2 * b
        BY <4>1, <3>n
      <4> QED BY <3>3, <3>4, <4>1 DEF Cost
    <3>6. Len(doneQ') = Len(doneQ) + n
      <4>1. Len(doneQ) \in Nat  BY <2>2
      <4> QED BY <3>1, <3>n, <4>1
    <3> QED BY <2>1, <3>1, <3>5, <3>6, SideDrains
  <2>8. ASSUME NEW s \in Sides, SaveListFile(s) PROVE Backlog' < Backlog
    <3>1. /\ \A z \in Sides \ {s} : saveQ'[z] = saveQ[z] /\ listQ'[z] = listQ[z]
          /\ saveQ'[s] = saveQ[s] /\ listQ[s] # <<>> /\ listQ'[s] = Tail(listQ[s])
          /\ Head(listQ[s]) \in FileTask
          /\ \/ doneQ' = doneQ
             \/ Head(listQ[s]).kind = "done" /\ doneQ' = Append(doneQ, Head(listQ[s]).window)
      BY <2>1, <2>8, SaveListFacts
    <3>2. saveQ[s] \in Seq(FileTask) /\ listQ[s] \in Seq(FileTask)  BY <2>1, SideQueues
    <3>3. Len(listQ'[s]) = Len(listQ[s]) - 1 /\ Len(listQ[s]) \in Nat /\ Len(saveQ[s]) \in Nat
      BY <3>1, <3>2, TailFacts
    <3>4. PICK n \in {0, 1} : Len(doneQ') = Len(doneQ) + n
      <4>1. Len(doneQ) \in Nat  BY <2>2
      <4>2. CASE doneQ' = doneQ
        <5>1. Len(doneQ') = Len(doneQ) + 0  BY <4>1, <4>2
        <5> QED BY <5>1
      <4>3. CASE Head(listQ[s]).kind = "done" /\ doneQ' = Append(doneQ, Head(listQ[s]).window)
        <5>1. Head(listQ[s]).window \in Nat  BY <3>1, <4>3, RecordFacts
        <5>2. Len(doneQ') = Len(doneQ) + 1  BY <5>1, <4>3, <2>2, AppendFacts
        <5> QED BY <5>2
      <4> QED BY <3>1, <4>2, <4>3
    <3>5. Cost(saveQ'[s], listQ'[s]) + n < Cost(saveQ[s], listQ[s])
      <4>1. ASSUME NEW a \in Nat, NEW b \in Nat, NEW d, d = b - 1
            PROVE  3 * a + 2 * d + n < 3 * a + 2 * b
        BY <4>1
      <4> QED BY <3>1, <3>3, <4>1 DEF Cost
    <3> QED BY <2>1, <3>1, <3>4, <3>5, SideDrains
  <2> QED BY <1>1, <2>3, <2>4, <2>5, <2>6, <2>7, <2>8 DEF Next
<1>2. Inv /\ Inv' /\ [Next]_vars =>
        [window.open /\ waiting > 0 => crashed' \/ ~window'.open \/ Backlog' < Backlog]_vars
  BY <1>1
<1> QED BY <1>2, InvTheorem, PTL DEF Spec, StopDrains
-----------------------------------------------------------------------------
(***************************************************************************)
(* The windows and the file threads implement FrameArchive.                *)
(***************************************************************************)
Pending(s) == {Line(t) : t \in QueuedFrames(s)}
Phase      == IF ~window.open THEN "closed" ELSE IF waiting > 0 THEN "saving" ELSE "open"

\* A window that records has started a recording of its own.
Fresh == ~mbStop => session > window.since

LEMMA FreshNext == Inv /\ Counters /\ Fresh /\ [Next]_vars => Fresh'
<1> SUFFICES ASSUME Inv, Counters, Fresh, [Next]_vars PROVE Fresh'
  OBVIOUS
<1>0. session \in Nat /\ window \in [id : Nat, open : BOOLEAN, since : Nat]
  BY DEF Inv, Types, Scalars
<1>1. CASE UNCHANGED <<mbStop, session, window>>  BY <1>1 DEF Fresh
<1>2. CASE PressRecord
  <2>1. CASE ~mbRecord /\ mbStop
    <3>1. session' = session + 1 /\ window' = window  BY <1>2, <2>1 DEF PressRecord
    <3> QED BY <3>1, <1>0 DEF Counters, Fresh
  <2>2. CASE ~(~mbRecord /\ mbStop)  BY <1>1, <1>2, <2>2 DEF PressRecord
  <2> QED BY <2>1, <2>2
<1>3. CASE PressStop \/ CloseWindow \/ OpenWindow
  BY <1>3 DEF PressStop, CloseWindow, OpenWindow, StopRecording, FreshWindow, Fresh
<1>4. CASE StartPreview \/ StopPreview \/ SelectFolder \/ RecordFrame \/ SaveDone
           \/ UNCHANGED vars \/ Stopped \/ \E s \in Sides : SaveImage(s) \/ SaveListFile(s)
  BY <1>1, <1>4 DEF StartPreview, StopPreview, SelectFolder, RecordFrame, SaveDone, Stopped,
                    SaveImage, SaveListFile, vars, uiVars
<1> QED BY <1>2, <1>3, <1>4 DEF Next

\* What is pending when a task comes in, leaves, or does neither.
LEMMA PendingSame ==
  ASSUME NEW s \in Sides, Queued(s)' = Queued(s)
  PROVE  Pending(s)' = Pending(s)
BY DEF Pending, QueuedFrames, Line

LEMMA PendingPosted ==
  ASSUME NEW s \in Sides, NEW t, Queued(s)' = Queued(s) \union {t}
  PROVE  /\ t.kind = "frame" => Pending(s)' = Pending(s) \union {Line(t)}
         /\ t.kind = "done" => Pending(s)' = Pending(s)
BY DEF Pending, QueuedFrames, Line

LEMMA PendingTaken ==
  ASSUME NEW s \in Sides, NEW t, Queued(s) = Queued(s)' \union {t}
  PROVE  /\ Pending(s)' \subseteq Pending(s)
         /\ t.kind = "done" => Pending(s)' = Pending(s)
         /\ t.kind = "frame" /\ Line(t) \notin Pending(s)' =>
              Pending(s)' = Pending(s) \ {Line(t)}
         /\ t.kind = "frame" => Line(t) \in Pending(s)
BY DEF Pending, QueuedFrames, Line

\* Nothing precedes itself, so a line is on its way once.
LEMMA NotEarlier ==
  ASSUME NEW t \in FileTask, t.kind = "frame"
  PROVE  ~Earlier(Line(t), Line(t))
<1>1. Line(t) \in Lines  BY RecordFacts
<1>2. Line(t).session \in Nat /\ Line(t).seq \in Nat  BY <1>1 DEF Lines
<1> QED BY <1>2 DEF Earlier

LEMMA HeadOfSaveQ ==
  ASSUME Types, OrderInv, NEW s \in Sides, saveQ[s] # <<>>,
         saveQ'[s] = Tail(saveQ[s]), listQ'[s] = listQ[s], Head(saveQ[s]).kind = "frame"
  PROVE  Line(Head(saveQ[s])) \notin Pending(s)'
<1> DEFINE t == Head(saveQ[s])
<1>1. saveQ[s] \in Seq(FileTask) /\ listQ[s] \in Seq(FileTask)  BY SideQueues
<1>2. t \in FileTask /\ t \in ToSet(saveQ[s])  BY <1>1, TailFacts
<1>3. \A u \in ToSet(Tail(saveQ[s])) : Before(t, u)  BY <1>1, SortedTail DEF OrderInv
<1>4. \A u \in ToSet(listQ[s]) : Before(u, t)  BY <1>2 DEF OrderInv
<1> HIDE DEF t
<1>5. ASSUME NEW u \in Queued(s)', u.kind = "frame" PROVE Line(u) # Line(t)
  <2>1. u \in ToSet(Tail(saveQ[s])) \/ u \in ToSet(listQ[s])  BY DEF Queued
  <2>2. Earlier(Line(t), Line(u)) \/ Earlier(Line(u), Line(t))
    BY <1>3, <1>4, <1>5, <2>1 DEF Before, t
  <2>3. ~Earlier(Line(t), Line(t))  BY <1>2, NotEarlier DEF t
  <2> QED BY <2>2, <2>3
<1> QED BY <1>5 DEF Pending, QueuedFrames, t, Line

LEMMA HeadOfListQ ==
  ASSUME Types, OrderInv, NEW s \in Sides, listQ[s] # <<>>,
         listQ'[s] = Tail(listQ[s]), saveQ'[s] = saveQ[s], Head(listQ[s]).kind = "frame"
  PROVE  /\ \A y \in Pending(s)' : Earlier(Line(Head(listQ[s])), y)
         /\ Line(Head(listQ[s])) \notin Pending(s)'
<1> DEFINE t == Head(listQ[s])
<1>1. saveQ[s] \in Seq(FileTask) /\ listQ[s] \in Seq(FileTask)  BY SideQueues
<1>2. t \in FileTask /\ t \in ToSet(listQ[s])  BY <1>1, TailFacts
<1>3. \A u \in ToSet(Tail(listQ[s])) : Before(t, u)  BY <1>1, SortedTail DEF OrderInv
<1>4. \A u \in ToSet(saveQ[s]) : Before(t, u)  BY <1>2 DEF OrderInv
<1> HIDE DEF t
<1>5. ASSUME NEW u \in Queued(s)', u.kind = "frame" PROVE Earlier(Line(t), Line(u))
  <2>1. u \in ToSet(Tail(listQ[s])) \/ u \in ToSet(saveQ[s])  BY DEF Queued
  <2> QED BY <1>3, <1>4, <1>5, <2>1 DEF Before, t
<1>6. \A y \in Pending(s)' : Earlier(Line(t), y)
  BY <1>5 DEF Pending, QueuedFrames, Line
<1>7. ~Earlier(Line(t), Line(t))  BY <1>2, NotEarlier DEF t
<1> QED BY <1>6, <1>7 DEF t

\* What the steps of FrameArchive say about a step of the recorder.
ArchiveStep == Archive!ArchiveNext \/ UNCHANGED Archive!avars

LEMMA Stutters ==
  ASSUME \A s \in Sides : Pending(s)' = Pending(s),
         UNCHANGED <<recorded, list, lost, Phase, window.since, crashed>>
  PROVE  ArchiveStep
<1>1. [s \in Sides |-> Pending(s)]' = [s \in Sides |-> Pending(s)]  OBVIOUS
<1> QED BY <1>1 DEF ArchiveStep, Archive!avars, Pending, Phase

LEMMA TakeImplemented ==
  Inv /\ Counters /\ Counters' /\ Fresh /\ RecordFrame => ArchiveStep
<1> SUFFICES ASSUME Inv, Counters, Counters', Fresh, RecordFrame PROVE ArchiveStep
  OBVIOUS
<1> DEFINE a == [session |-> session, seq |-> mRecordCnt + 1, folder |-> folder]
<1>0. /\ session \in Nat /\ mRecordCnt \in Nat /\ folder \in Folders /\ waiting \in Int
      /\ window \in [id : Nat, open : BOOLEAN, since : Nat]
  BY DEF Inv, Types, Scalars
<1>1. /\ ~crashed /\ mbPlay /\ mbRecord /\ recorded' = recorded \union {a}
      /\ Cardinality(recorded) < MaxFrames
      /\ UNCHANGED <<window, waiting, list, lost, crashed>>
  BY DEF RecordFrame
<1>2. ~mbStop /\ window.open /\ ~(waiting > 0)
  BY <1>0, <1>1 DEF Inv, ButtonsInv
<1>3. a.session > window.since  BY <1>2 DEF Fresh
<1>4. a \in [session : 1..MaxSessions, seq : 1..MaxFrames, folder : Folders]
  <2>1. session \in 1..MaxSessions
    BY <1>0, <1>2, RecorderAssumption DEF Counters, Fresh
  <2>2. Cardinality(recorded) \in Nat  BY FS_CardinalityType DEF Counters
  <2>3. mRecordCnt + 1 \in 1..MaxFrames
    BY <1>0, <1>1, <2>2, RecorderAssumption DEF Counters
  <2> QED BY <2>1, <2>3, <1>0
<1>5. a.session = session /\ a.seq = mRecordCnt + 1  OBVIOUS
<1> HIDE DEF a
<1>6. \A b \in recorded : Archive!Precedes(b, a)
  <2> SUFFICES ASSUME NEW b \in recorded PROVE Archive!Precedes(b, a)
    OBVIOUS
  <2>1. b.session \in Nat /\ b.seq \in Nat  BY DEF Inv, Types, Scalars, Lines
  <2>2. b.session <= session /\ (b.session = session => b.seq <= mRecordCnt)
    BY <1>2 DEF Inv, FolderInv
  <2> QED BY <2>1, <2>2, <1>0, <1>5 DEF Archive!Precedes
<1>7. \A s \in Sides : Pending(s)' = Pending(s) \union {a}
  <2>1. PICK x \in [Sides -> FileTask] :
           Posting(x) /\ \A s \in Sides : x[s].kind = "frame" /\ Line(x[s]) = a
    BY FramePosts DEF Inv, a
  <2>2. \A s \in Sides : Queued(s)' = Queued(s) \union {x[s]}
    BY <2>1, PostingFacts DEF Inv
  <2> QED BY <2>1, <2>2, PendingPosted
<1>8. [s \in Sides |-> Pending(s)]' = [s \in Sides |-> [z \in Sides |-> Pending(z)][s] \union {a}]
  BY <1>7
<1>9. Archive!Take(a)
  BY <1>1, <1>2, <1>3, <1>6, <1>8 DEF Archive!Take, Pending
<1> QED BY <1>4, <1>9 DEF ArchiveStep, Archive!ArchiveNext

\* stopRecordVedio, by the stop button or by closing the window.
LEMMA StopPending ==
  ASSUME Types, PressStop \/ CloseWindow, NEW s \in Sides
  PROVE  Pending(s)' = Pending(s)
<1>1. CASE PressStop \/ (CloseWindow /\ ~mbStop)
  <2> DEFINE x == [z \in Sides |-> Mine]
  <2>1. x \in [Sides -> FileTask] /\ Posting(x) /\ x[s] = Mine  BY <1>1, StopPosts
  <2> HIDE DEF x
  <2>2. Queued(s)' = Queued(s) \union {Mine}  BY <2>1, PostingFacts
  <2>3. Mine.kind = "done"  BY MineFacts
  <2> QED BY <2>2, <2>3, PendingPosted
<1>2. CASE CloseWindow /\ mbStop
  BY <1>2, PendingSame DEF CloseWindow, Queued
<1> QED BY <1>1, <1>2

LEMMA WindowImplemented ==
  Inv /\ Counters /\ (PressStop \/ CloseWindow \/ OpenWindow) => ArchiveStep
<1> SUFFICES ASSUME Inv, Counters, PressStop \/ CloseWindow \/ OpenWindow PROVE ArchiveStep
  OBVIOUS
<1>0. /\ waiting \in Int /\ session \in Nat
      /\ window \in [id : Nat, open : BOOLEAN, since : Nat]
  BY DEF Inv, Types, Scalars
<1>1. CASE PressStop
  <2>1. /\ ~crashed /\ window.open /\ waiting' = 2 /\ ~(waiting > 0)
        /\ UNCHANGED <<window, recorded, list, lost, crashed>>
    BY <1>0, <1>1 DEF PressStop, Press, StopRecording, Inv, ButtonsInv
  <2>2. Phase = "open" /\ Phase' = "saving"  BY <2>1 DEF Phase
  <2>3. [s \in Sides |-> Pending(s)]' = [s \in Sides |-> Pending(s)]
    BY <1>1, StopPending DEF Inv
  <2>4. Archive!Stop  BY <2>1, <2>2, <2>3 DEF Archive!Stop, Pending, Phase
  <2> QED BY <2>4 DEF ArchiveStep, Archive!ArchiveNext
<1>2. CASE CloseWindow
  <2>1. /\ ~crashed /\ window.open /\ ~window'.open /\ window'.since = window.since
        /\ UNCHANGED <<recorded, list, lost, crashed>>
    BY <1>0, <1>2 DEF CloseWindow
  <2>2. Phase # "closed" /\ Phase' = "closed"  BY <2>1 DEF Phase
  <2>3. [s \in Sides |-> Pending(s)]' = [s \in Sides |-> Pending(s)]
    BY <1>2, StopPending DEF Inv
  <2>4. Archive!Close  BY <2>1, <2>2, <2>3 DEF Archive!Close, Pending, Phase
  <2> QED BY <2>4 DEF ArchiveStep, Archive!ArchiveNext
<1>3. CASE OpenWindow
  <2>1. /\ ~crashed /\ ~window.open /\ window'.open /\ window'.since = session /\ waiting' = 0
        /\ UNCHANGED <<recorded, saveQ, listQ, list, lost, crashed>>
    BY <1>3 DEF OpenWindow, FreshWindow, fileVars
  <2>2. Phase = "closed" /\ Phase' = "open"  BY <2>1 DEF Phase
  <2>3. [s \in Sides |-> Pending(s)]' = [s \in Sides |-> Pending(s)]
    BY <2>1, PendingSame DEF Queued
  <2>4. \A x \in recorded : x.session <= session  BY DEF Inv, FolderInv
  <2>5. Archive!Reopen
    BY <1>0, <2>1, <2>2, <2>3, <2>4 DEF Archive!Reopen, Pending, Phase
  <2> QED BY <2>5 DEF ArchiveStep, Archive!ArchiveNext
<1> QED BY <1>1, <1>2, <1>3

\* The closure that comes last finds nothing of the window on its way.
LEMMA LastClosure ==
  ASSUME Inv, window.open, waiting = 1, doneQ # <<>>, Head(doneQ) = window.id,
         NEW s \in Sides, NEW x \in Pending(s)
  PROVE  x.session <= window.since
<1>0. Types /\ ClosureInv /\ doneQ \in Seq(Nat) /\ window.since \in Nat
  BY DEF Inv, Types, Queues, Scalars
<1>1. Times(doneQ, window.id) \in Nat /\ Times(doneQ, window.id) # 0
  <2>1. Head(doneQ) \in ToSet(doneQ)  BY <1>0, TailFacts
  <2>2. window.id \in ToSet(doneQ)  BY <2>1
  <2>3. Times(doneQ, window.id) = 0 <=> window.id \notin ToSet(doneQ)
    BY <1>0, TimesFacts, Zenon
  <2>4. Times(doneQ, window.id) \in Nat  BY <1>0, TimesFacts
  <2> QED BY <2>2, <2>3, <2>4
<1> DEFINE a(z) == Times(saveQ[z], Mine)
           b(z) == Times(listQ[z], Mine)
<1>2. \A z \in Sides : a(z) \in Nat /\ b(z) \in Nat  BY <1>0, SideQueues, TimesFacts
<1>3. 1 = (a("left") + b("left")) + (a("right") + b("right")) + Times(doneQ, window.id)
  BY <1>0 DEF ClosureInv, OnTheWay, InSide, Mine
<1>4. "left" \in Sides /\ "right" \in Sides /\ (s = "left" \/ s = "right")  BY DEF Sides
<1>5. a(s) = 0 /\ b(s) = 0
  <2> HIDE DEF a, b
  <2>1. /\ a("left") \in Nat /\ b("left") \in Nat /\ a("right") \in Nat /\ b("right") \in Nat
    BY <1>2, <1>4
  <2>2. a("left") = 0 /\ b("left") = 0 /\ a("right") = 0 /\ b("right") = 0
    BY <2>1, <1>1, <1>3
  <2> QED BY <2>2, <1>4
<1>6. Mine \notin ToSet(saveQ[s]) \union ToSet(listQ[s])
  BY <1>0, <1>5, SideQueues, TimesFacts
<1>7. mbStop  BY DEF Inv, ButtonsInv
<1>8. PICK t \in Queued(s) : t.kind = "frame" /\ Line(t) = x
  BY DEF Pending, QueuedFrames
<1>9. Queued(s) = ToSet(saveQ[s]) \union ToSet(listQ[s])  BY <1>0, SideQueues
<1>10. ~Own(window, t)
  <2>1. ClosureLast(window, mbStop, saveQ[s], listQ[s])  BY <1>0 DEF ClosureInv
  <2> QED BY <2>1, <1>6, <1>7, <1>9 DEF ClosureLast, Mine
<1>11. ~(t.session > window.since)  BY <1>8, <1>10 DEF Own
<1>12. t \in FileTask  BY <1>0, <1>9, SideQueues DEF ToSet
<1>13. Line(t) \in Lines /\ Line(t).session = t.session  BY <1>8, <1>12, RecordFacts
<1>14. x.session = t.session /\ t.session \in Nat  BY <1>8, <1>13 DEF Lines
<1> QED BY <1>0, <1>11, <1>14

LEMMA DoneImplemented ==
  Inv /\ Counters /\ Counters' /\ SaveDone => ArchiveStep
<1> SUFFICES ASSUME Inv, Counters, Counters', SaveDone PROVE ArchiveStep
  OBVIOUS
<1>0. waiting \in Int  BY DEF Inv, Types, Scalars
<1>1. /\ ~crashed /\ doneQ # <<>>
      /\ UNCHANGED <<window, recorded, saveQ, listQ, list, lost, crashed>>
  BY DEF SaveDone, fileVars
<1>2. \A s \in Sides : Pending(s)' = Pending(s)  BY <1>1, PendingSame DEF Queued
<1>3. [s \in Sides |-> Pending(s)]' = [s \in Sides |-> Pending(s)]  BY <1>2
<1>4. CASE window.open /\ Head(doneQ) = window.id /\ waiting = 1
  <2>1. waiting' = 0  BY <1>4 DEF SaveDone
  <2>2. Phase = "saving" /\ Phase' = "open"  BY <1>1, <1>4, <2>1 DEF Phase
  <2>3. \A s \in Sides : \A x \in Pending(s) : x.session <= window.since
    BY <1>1, <1>4, LastClosure
  <2>4. Archive!Acknowledge
    BY <1>1, <1>3, <2>2, <2>3 DEF Archive!Acknowledge, Pending, Phase
  <2> QED BY <2>4 DEF ArchiveStep, Archive!ArchiveNext
<1>5. CASE window.open /\ Head(doneQ) = window.id /\ waiting # 1
  <2>1. waiting' = waiting - 1  BY <1>5 DEF SaveDone
  <2>2. waiting' >= 0  BY DEF Counters
  <2>3. waiting > 0 /\ waiting' > 0  BY <1>0, <1>5, <2>1, <2>2
  <2>4. Phase' = Phase  BY <1>1, <2>3 DEF Phase
  <2> QED BY <1>1, <1>2, <2>4, Stutters
<1>6. CASE ~(window.open /\ Head(doneQ) = window.id)
  <2>1. waiting' = waiting  BY <1>6 DEF SaveDone
  <2>2. Phase' = Phase  BY <1>1, <2>1 DEF Phase
  <2> QED BY <1>1, <1>2, <2>2, Stutters
<1> QED BY <1>4, <1>5, <1>6

\* FILE1 and FILE2 hand on what they take, or lose it, or end the process.
LEMMA SaveImageImplemented ==
  ASSUME Inv, NEW s \in Sides, SaveImage(s)
  PROVE  ArchiveStep
<1> DEFINE t == Head(saveQ[s])
           x == Line(t)
<1>1. /\ t \in FileTask /\ saveQ[s] # <<>> /\ ~crashed
      /\ saveQ'[s] = Tail(saveQ[s])
      /\ \A z \in Sides \ {s} : saveQ'[z] = saveQ[z] /\ listQ'[z] = listQ[z]
      /\ Queued(s) = Queued(s)' \union {t}
      /\ UNCHANGED <<window, waiting, list, recorded>>
      /\ \/ Queued(s)' = Queued(s) /\ lost' = lost
         \/ listQ'[s] = listQ[s] /\ t.kind = "frame"
            /\ (~crashed' => lost' = lost \union {<<s, x>>})
  BY SaveImageFacts DEF Inv, uiVars
<1>2. /\ crashed' = crashed \/ (crashed' = TRUE /\ lost' = lost)
  BY DEF SaveImage
<1>3. t \in Queued(s) /\ Known(t)  BY <1>1 DEF Inv, ContentInv
<1>4. t.kind = "frame" => x \in recorded  BY <1>3 DEF Known
<1>5. listQ'[s] = listQ[s] /\ t.kind = "frame" => x \notin Pending(s)'
  BY <1>1, HeadOfSaveQ DEF Inv
<1> HIDE DEF t, x
<1>6. \A z \in Sides \ {s} : Pending(z)' = Pending(z)
  BY <1>1, PendingSame DEF Queued
<1>7. Phase' = Phase  BY <1>1 DEF Phase
<1>8. CASE crashed' # crashed
  <2>1. \A z \in Sides : Pending(z)' \subseteq Pending(z)  BY <1>1, <1>6, PendingTaken
  <2>2. \A z \in Sides : [y \in Sides |-> Pending(y)]'[z] \subseteq [y \in Sides |-> Pending(y)][z]
    BY <2>1
  <2>3. Archive!Die
    BY <1>1, <1>2, <1>7, <1>8, <2>2 DEF Archive!Die, Pending, Phase
  <2> QED BY <2>3 DEF ArchiveStep, Archive!ArchiveNext
<1>9. CASE crashed' = crashed /\ Queued(s)' = Queued(s) /\ lost' = lost
  <2>1. \A z \in Sides : Pending(z)' = Pending(z)  BY <1>6, <1>9, PendingSame
  <2> QED BY <1>1, <1>7, <1>9, <2>1, Stutters
<1>10. CASE /\ crashed' = crashed /\ listQ'[s] = listQ[s] /\ t.kind = "frame"
            /\ lost' = lost \union {<<s, x>>}
  <2>1. Pending(s)' = Pending(s) \ {x} /\ x \in Pending(s)
    BY <1>1, <1>5, <1>10, PendingTaken DEF x
  <2>2. [z \in Sides |-> Pending(z)]' = [[z \in Sides |-> Pending(z)] EXCEPT ![s] = @ \ {x}]
    BY <1>6, <2>1
  <2>3. Archive!Lose(s, x)
    BY <1>1, <1>7, <1>10, <2>1, <2>2 DEF Archive!Lose, Pending, Phase
  <2> QED BY <1>4, <1>10, <2>3 DEF ArchiveStep, Archive!ArchiveNext
<1> QED BY <1>1, <1>2, <1>8, <1>9, <1>10

\* FILE3 and FILE4 store a frame or lose it, and send a closure back.
LEMMA SaveListImplemented ==
  ASSUME Inv, NEW s \in Sides, SaveListFile(s)
  PROVE  ArchiveStep
<1> DEFINE t == Head(listQ[s])
           x == Line(t)
<1>1. /\ t \in FileTask /\ listQ[s] # <<>> /\ ~crashed /\ crashed' = crashed
      /\ listQ'[s] = Tail(listQ[s]) /\ saveQ' = saveQ
      /\ \A z \in Sides \ {s} : listQ'[z] = listQ[z]
      /\ Queued(s) = Queued(s)' \union {t}
      /\ UNCHANGED <<window, waiting, recorded>>
  BY SaveListFacts DEF Inv, uiVars
<1>2. \/ t.kind = "done" /\ list' = list /\ lost' = lost
      \/ t.kind # "done" /\ list' = [list EXCEPT ![s] = Append(@, x)] /\ lost' = lost
      \/ t.kind # "done" /\ list' = list /\ lost' = lost \union {<<s, x>>}
  BY DEF SaveListFile
<1>3. t \in Queued(s) /\ Known(t)  BY <1>1 DEF Inv, ContentInv
<1>4. t.kind = "frame" => x \in recorded  BY <1>3 DEF Known
<1>5. t.kind = "frame" => x \notin Pending(s)' /\ \A y \in Pending(s)' : Earlier(x, y)
  <2>1. saveQ'[s] = saveQ[s]  BY <1>1
  <2> QED BY <1>1, <2>1, HeadOfListQ DEF Inv
<1>k. t.kind # "done" => t.kind = "frame"
  <2>1. t.kind \in {"frame", "done"}  BY <1>1, RecordFacts
  <2> QED BY <2>1
<1> HIDE DEF t, x
<1>6. \A z \in Sides \ {s} : Pending(z)' = Pending(z)
  BY <1>1, PendingSame DEF Queued
<1>7. Phase' = Phase  BY <1>1 DEF Phase
<1>8. CASE t.kind = "done" /\ list' = list /\ lost' = lost
  <2>1. \A z \in Sides : Pending(z)' = Pending(z)  BY <1>1, <1>6, <1>8, PendingTaken
  <2> QED BY <1>1, <1>7, <1>8, <2>1, Stutters
<1>9. ASSUME t.kind # "done"
      PROVE  /\ x \in Pending(s) /\ x \in recorded
             /\ [z \in Sides |-> Pending(z)]' = [[z \in Sides |-> Pending(z)] EXCEPT ![s] = @ \ {x}]
             /\ \A y \in Pending(s) \ {x} : Archive!Precedes(x, y)
  <2>1. Pending(s)' = Pending(s) \ {x} /\ x \in Pending(s)
    BY <1>1, <1>5, <1>9, <1>k, PendingTaken DEF x
  <2>2. [z \in Sides |-> Pending(z)]' = [[z \in Sides |-> Pending(z)] EXCEPT ![s] = @ \ {x}]
    BY <1>6, <2>1
  <2>3. \A y \in Pending(s) \ {x} : Archive!Precedes(x, y)
    BY <1>5, <1>9, <1>k, <2>1 DEF Archive!Precedes, Earlier
  <2> QED BY <1>4, <1>9, <1>k, <2>1, <2>2, <2>3
<1>10. CASE t.kind # "done" /\ list' = [list EXCEPT ![s] = Append(@, x)] /\ lost' = lost
  <2>1. Archive!Store(s, x)
    BY <1>1, <1>7, <1>9, <1>10 DEF Archive!Store, Pending, Phase
  <2> QED BY <1>9, <1>10, <2>1 DEF ArchiveStep, Archive!ArchiveNext
<1>11. CASE t.kind # "done" /\ list' = list /\ lost' = lost \union {<<s, x>>}
  <2>1. Archive!Lose(s, x)
    BY <1>1, <1>7, <1>9, <1>11 DEF Archive!Lose, Pending, Phase
  <2> QED BY <1>9, <1>11, <2>1 DEF ArchiveStep, Archive!ArchiveNext
<1> QED BY <1>2, <1>8, <1>10, <1>11

(***************************************************************************)
(* Recording keeps the promise of FrameArchive, over pauses, stops, closed *)
(* and reopened windows and failures of the file system: what is taken is  *)
(* stored in the order of capture or lost, and "saved" (OnRecorderSaveDone)*)
(* is said when all the window took is settled.                            *)
(***************************************************************************)
THEOREM ArchiveTheorem == Spec => ImplementsArchive
<1>1. Init => Archive!ArchiveInit
  <2> SUFFICES ASSUME Init PROVE Archive!ArchiveInit
    OBVIOUS
  <2>1. \A s \in Sides : saveQ[s] = <<>> /\ listQ[s] = <<>>  BY DEF Init
  <2>2. ToSet(<<>>) = {}  BY DEF ToSet
  <2>3. \A s \in Sides : Pending(s) = {}
    BY <2>1, <2>2 DEF Pending, QueuedFrames, Queued
  <2>4. [s \in Sides |-> Pending(s)] = [s \in Sides |-> {}]  BY <2>3
  <2>5. Phase = "open"  BY DEF Init, Phase
  <2> QED BY <2>4, <2>5 DEF Init, Archive!ArchiveInit, Pending, Phase
<1>2. Init => Fresh  BY DEF Init, Fresh
<1>3. Inv /\ Counters /\ Fresh /\ [Next]_vars => (Inv /\ Counters /\ Fresh)'
  BY InvNext, CountersNext, FreshNext
<1>4. Inv /\ Counters /\ Counters' /\ Fresh /\ [Next]_vars =>
        [Archive!ArchiveNext]_(Archive!avars)
  <2> SUFFICES ASSUME Inv, Counters, Counters', Fresh, [Next]_vars PROVE ArchiveStep
    BY DEF ArchiveStep
  <2>1. CASE StartPreview \/ StopPreview \/ SelectFolder \/ PressRecord \/ Stopped \/ UNCHANGED vars
    <3>1. UNCHANGED <<window, waiting, saveQ, listQ, list, crashed, lost, recorded>>
      BY <2>1 DEF StartPreview, StopPreview, SelectFolder, PressRecord, Stopped, vars, uiVars,
                  fileVars
    <3>2. \A s \in Sides : Pending(s)' = Pending(s)  BY <3>1, PendingSame DEF Queued
    <3>3. Phase' = Phase  BY <3>1 DEF Phase
    <3> QED BY <3>1, <3>2, <3>3, Stutters
  <2> QED BY <2>1, TakeImplemented, WindowImplemented, DoneImplemented, SaveImageImplemented,
             SaveListImplemented DEF Next
<1> QED BY <1>1, <1>2, <1>3, <1>4, InvInit, BoundsInit, PTL
        DEF Spec, ImplementsArchive, Archive!ArchiveSpec
=============================================================================
