---------------------------- MODULE ThreadManager ---------------------------
(***************************************************************************)
(* The working threads, src/Blank/thread_manager.cpp: four file threads    *)
(* and an I/O thread behind one mutex, threads_lock_; what the recorder    *)
(* posts to them; and the way the program ends (main.cpp): the UI loop is  *)
(* left, the threads are shut down, and only then the windows are          *)
(* destroyed.                                                              *)
(*                                                                         *)
(* A task of FILE1 or FILE2 posts its successor to FILE3 or FILE4 and      *)
(* needs threads_lock_ for it.  Shuttingdown holds threads_lock_ while it  *)
(* joins the threads.                                                      *)
(*                                                                         *)
(* base::Thread (dependencies/ChromeBase): a FIFO queue; StopSoon queues a *)
(* task after which the thread leaves its loop when it finds its queue     *)
(* empty.  What is posted between that look and the exit is never run.     *)
(***************************************************************************)
EXTENDS Naturals, Sequences, SequencesExt

CONSTANT MaxTasks    \* bound: tasks the UI thread posts to each side

ASSUME ThreadManagerAssumption == MaxTasks \in Nat

\* WorkingThread::ID.
FILE1 == 0
FILE2 == 1
FILE3 == 2
FILE4 == 3
IO    == 4
ID    == FILE1..IO
First == {FILE1, FILE2}      \* threads whose tasks post to Successor
Successor(t) == t + 2

VARIABLES
  ui,          \* "loop", "shutdown", "joining", "down", "destroyed"
  at,          \* Shuttingdown's i
  lock,        \* threads_lock_: "free" or "ui" (PostTask never blocks in it)
  exists,      \* threads_[t] is not NULL
  live,        \* the thread of threads_[t] runs
  quitting,    \* "no", "asked" (the task of StopSoon was run) or "idle" (and
               \* the queue was found empty after it)
  queue,       \* message queues
  busy,        \* the task of FILE1/FILE2 that is about to post its successor
  recording,   \* the record window is open and ~mbStop
  rejected,    \* a PostTask found threads_[t] = NULL
  posted,      \* auxiliary: tasks accepted for t
  ran          \* auxiliary: tasks run by t to the end

vars == <<ui, at, lock, exists, live, quitting, queue, busy, recording,
          rejected, posted, ran>>

Tasks == {"frame", "closure"}

TypeOK ==
  /\ ui \in {"loop", "shutdown", "joining", "down", "destroyed"}
  /\ at \in ID
  /\ lock \in {"free", "ui"}
  /\ exists \in [ID -> BOOLEAN]
  /\ live \in [ID -> BOOLEAN]
  /\ quitting \in [ID -> {"no", "asked", "idle"}]
  /\ \A t \in ID : ToSet(queue[t]) \subseteq Tasks \union {"quit"}
  /\ busy \in [ID -> Tasks \union {"none"}]
  /\ recording \in BOOLEAN
  /\ rejected \in BOOLEAN
  /\ posted \in [ID -> 0..MaxTasks]
  /\ ran \in [ID -> 0..MaxTasks]

Init ==
  /\ ui = "loop"
  /\ at = IO
  /\ lock = "free"
  /\ exists = [t \in ID |-> TRUE]
  /\ live = [t \in ID |-> TRUE]
  /\ quitting = [t \in ID |-> "no"]
  /\ queue = [t \in ID |-> <<>>]
  /\ busy = [t \in ID |-> "none"]
  /\ recording = FALSE
  /\ rejected = FALSE
  /\ posted = [t \in ID |-> 0]
  /\ ran = [t \in ID |-> 0]

\* Faulty variant: PostTask without the AutoLock.
PostTaskUnlocked(T, task) ==
  LET accepted == {t \in T : exists[t]} IN
    /\ queue' = [t \in ID |-> IF t \in accepted THEN Append(queue[t], task) ELSE queue[t]]
    /\ posted' = [t \in ID |-> IF t \in accepted THEN posted[t] + 1 ELSE posted[t]]
    /\ rejected' = (rejected \/ accepted # T)

\* PostTask(t, task) for each t of T: refused when the thread is gone.
PostTask(T, task) ==
  LET accepted == {t \in T : exists[t]} IN
    /\ lock = "free"
    /\ queue' = [t \in ID |-> IF t \in accepted THEN Append(queue[t], task) ELSE queue[t]]
    /\ posted' = [t \in ID |-> IF t \in accepted THEN posted[t] + 1 ELSE posted[t]]
    /\ rejected' = (rejected \/ accepted # T)
-----------------------------------------------------------------------------
(***************************************************************************)
(* Faulty variants: what the run must notice.                              *)
(***************************************************************************)
\* Shuttingdown without the AutoLock.
UiEnterShutdownUnlocked ==
  /\ ui = "loop"
  /\ ui' = "shutdown"
  /\ UNCHANGED <<at, lock, exists, live, quitting, queue, busy, recording,
                 rejected, posted, ran>>

\* A thread is waited for without being told to stop.
UiStopSoonForgotten ==
  /\ ui = "shutdown"
  /\ ui' = "joining"
  /\ UNCHANGED <<at, lock, exists, live, quitting, queue, busy, recording,
                 rejected, posted, ran>>

\* The loop over the threads does not end at FILE1.
UiJoinOffByOne ==
  /\ ui = "joining"
  /\ ~live[at]
  /\ exists' = [exists EXCEPT ![at] = FALSE]
  /\ at' = at - 1
  /\ ui' = "shutdown"
  /\ UNCHANGED <<lock, live, quitting, queue, busy, recording, rejected,
                 posted, ran>>
-----------------------------------------------------------------------------
(***************************************************************************)
(* The UI thread.                                                          *)
(***************************************************************************)
StartRecording ==
  /\ ui = "loop"
  /\ ~recording
  /\ recording' = TRUE
  /\ UNCHANGED <<ui, at, lock, exists, live, quitting, queue, busy, rejected,
                 posted, ran>>

\* RecordWindow::RecordFrame posts one SaveImage to each side.
RecordFrame ==
  /\ ui = "loop"
  /\ recording
  /\ posted[FILE1] + 1 < MaxTasks
  /\ PostTask(First, "frame")
  /\ UNCHANGED <<ui, at, lock, exists, live, quitting, busy, recording, ran>>

\* RecordWindow::stopRecordVedio sends a closure down each side.
StopRecording ==
  /\ ui = "loop"
  /\ recording
  /\ posted[FILE1] < MaxTasks
  /\ PostTask(First, "closure")
  /\ recording' = FALSE
  /\ UNCHANGED <<ui, at, lock, exists, live, quitting, busy, ran>>

\* closeEvent left the UI loop, main() calls Shuttingdown.
UiEnterShutdown ==
  /\ ui = "loop"
  /\ lock = "free"
  /\ lock' = "ui"
  /\ ui' = "shutdown"
  /\ UNCHANGED <<at, exists, live, quitting, queue, busy, recording, rejected,
                 posted, ran>>

UiStopSoon ==
  /\ ui = "shutdown"
  /\ queue' = [queue EXCEPT ![at] = Append(@, "quit")]
  /\ ui' = "joining"
  /\ UNCHANGED <<at, lock, exists, live, quitting, busy, recording, rejected,
                 posted, ran>>

\* threads_[i].reset() joins the thread.
UiJoin ==
  /\ ui = "joining"
  /\ ~live[at]
  /\ exists' = [exists EXCEPT ![at] = FALSE]
  /\ \/ /\ at > FILE1
        /\ at' = at - 1
        /\ ui' = "shutdown"
        /\ UNCHANGED lock
     \/ /\ at = FILE1
        /\ lock' = "free"
        /\ ui' = "down"
        /\ UNCHANGED at
  /\ UNCHANGED <<live, quitting, queue, busy, recording, rejected, posted, ran>>

\* The end of main(): ~MainWindow, ~RecordWindow, closeRecordWindow.
UiDestroyWindows ==
  /\ ui = "down"
  /\ ui' = "destroyed"
  /\ IF recording
       THEN PostTask(First, "closure") /\ recording' = FALSE
       ELSE UNCHANGED <<queue, posted, rejected, recording>>
  /\ UNCHANGED <<at, lock, exists, live, quitting, busy, ran>>

UiShutdownStep == UiStopSoon \/ UiJoin \/ UiDestroyWindows
-----------------------------------------------------------------------------
(***************************************************************************)
(* The working threads.                                                    *)
(***************************************************************************)
\* The thread takes a task.  SaveImage may fail to write its file, and then
\* posts nothing.
RunTask(t) ==
  /\ live[t]
  /\ quitting[t] # "idle"
  /\ busy[t] = "none"
  /\ queue[t] # <<>>
  /\ queue' = [queue EXCEPT ![t] = Tail(@)]
  /\ LET task == Head(queue[t]) IN
       \/ /\ task = "quit"
          /\ quitting' = [quitting EXCEPT ![t] = "asked"]
          /\ UNCHANGED <<busy, ran>>
       \/ /\ task \in Tasks
          /\ t \in First
          /\ busy' = [busy EXCEPT ![t] = task]
          /\ UNCHANGED <<quitting, ran>>
       \/ /\ task = "frame" \/ (task = "closure" /\ t \notin First)
          /\ ran' = [ran EXCEPT ![t] = @ + 1]
          /\ UNCHANGED <<quitting, busy>>
  /\ UNCHANGED <<ui, at, lock, exists, live, recording, rejected, posted>>

\* SaveImage, RunInFileThread: the task's own PostTask.
PostSuccessor(t) ==
  /\ busy[t] # "none"
  /\ PostTask({Successor(t)}, busy[t])
  /\ busy' = [busy EXCEPT ![t] = "none"]
  /\ ran' = [ran EXCEPT ![t] = @ + 1]
  /\ UNCHANGED <<ui, at, lock, exists, live, quitting, recording>>

\* DoWork found nothing to run, DoIdleWork will quit the loop ...
Idle(t) ==
  /\ live[t]
  /\ quitting[t] = "asked"
  /\ busy[t] = "none"
  /\ queue[t] = <<>>
  /\ quitting' = [quitting EXCEPT ![t] = "idle"]
  /\ UNCHANGED <<ui, at, lock, exists, live, queue, busy, recording, rejected,
                 posted, ran>>

\* ... and the thread ends, whatever was queued meanwhile.
Exit(t) ==
  /\ live[t]
  /\ quitting[t] = "idle"
  /\ live' = [live EXCEPT ![t] = FALSE]
  /\ UNCHANGED <<ui, at, lock, exists, quitting, queue, busy, recording,
                 rejected, posted, ran>>

ThreadStep(t) == RunTask(t) \/ PostSuccessor(t) \/ Idle(t) \/ Exit(t)

Finished == ui = "destroyed" /\ UNCHANGED vars

Next ==
  \/ StartRecording \/ RecordFrame \/ StopRecording
  \/ UiEnterShutdown \/ UiStopSoon \/ UiJoin \/ UiDestroyWindows
  \/ \E t \in ID : RunTask(t) \/ PostSuccessor(t) \/ Idle(t) \/ Exit(t)
  \/ Finished

Spec == Init /\ [][Next]_vars

\* The operating system runs every thread that can run; the user owes
\* nothing.
FairSpec ==
  /\ Spec
  /\ WF_vars(UiShutdownStep)
  /\ \A t \in ID : WF_vars(ThreadStep(t))
-----------------------------------------------------------------------------
(***************************************************************************)
(* Properties.                                                             *)
(***************************************************************************)
(***************************************************************************)
(* A thread that is gone has run every task PostTask accepted for it: none *)
(* slips in between its last look at the queue and the reset of its entry  *)
(* of threads_, because Shuttingdown holds threads_lock_ all along.        *)
(***************************************************************************)
EveryTaskRun == \A t \in ID : ~live[t] => ran[t] = posted[t]

(***************************************************************************)
(* A task of FILE1 or FILE2 that gets to its PostTask finds the thread of  *)
(* its successor, although the threads are stopped from IO down to FILE1.  *)
(***************************************************************************)
SuccessorThere ==
  \A t \in First : busy[t] # "none" /\ lock = "free" => exists[Successor(t)]

(***************************************************************************)
(* Shuttingdown ends in one of two ways: it returns, or it waits for a     *)
(* file thread that waits for threads_lock_.                               *)
(***************************************************************************)
Deadlocked == ui = "joining" /\ busy[at] # "none" /\ lock = "ui"
ShutdownOutcome == (ui = "shutdown") ~> (ui = "destroyed" \/ Deadlocked)

(***************************************************************************)
(* Of the file threads, the one Shuttingdown joins is gone, can go on, or  *)
(* waits for threads_lock_: StopSoon's task is never lost, however much    *)
(* was queued before it, so nothing else can keep the program from ending. *)
(***************************************************************************)
CanGoOn(t) ==
  live[t] /\ \/ quitting[t] = "idle"
             \/ busy[t] = "none" /\ (queue[t] # <<>> \/ quitting[t] = "asked")
JoinedThreadGoesOn == ui = "joining" => ~live[at] \/ CanGoOn(at) \/ Deadlocked

(***************************************************************************)
(* Once Shuttingdown has begun every step, of whatever thread, brings the  *)
(* end nearer: no thread gives work to another one any more, and the loop  *)
(* over the threads does not turn back.                                    *)
(***************************************************************************)
TaskSteps(t) == IF busy[t] = "none" THEN 0 ELSE 1
ExitSteps(t) == IF ~live[t] THEN 0 ELSE IF quitting[t] = "idle" THEN 1 ELSE 2
StepsOf(t)   == 2 * Len(queue[t]) + TaskSteps(t) + ExitSteps(t)
StepsOfUi == 4 * at + [shutdown |-> 5, joining |-> 2, down |-> 1, destroyed |-> 0][ui]
StepsLeft == StepsOfUi + StepsOf(FILE1) + StepsOf(FILE2) + StepsOf(FILE3)
               + StepsOf(FILE4) + StepsOf(IO)
ShutdownAdvances == [][ui # "loop" => StepsLeft' < StepsLeft]_vars

(***************************************************************************)
(* A file thread that waits for threads_lock_ while it is joined waits for *)
(* ever: no other thread can release the lock.                             *)
(***************************************************************************)
DeadlockIsFinal == [][Deadlocked => Deadlocked']_vars

(***************************************************************************)
(* It returns, and the threads are all joined, when FILE1 and FILE2 have   *)
(* nothing to do at the time: FILE3 and FILE4 may have any backlog.        *)
(***************************************************************************)
Quiet == \A t \in First : queue[t] = <<>> /\ busy[t] = "none"
QuietShutdownReturns ==
  (ui = "shutdown" /\ at = IO /\ Quiet) ~> (ui = "destroyed" /\ \A t \in ID : ~live[t])

(***************************************************************************)
(* The DCHECK of PostTask: the thread of a task exists.                    *)
(***************************************************************************)
PostedToLiveThread == ~rejected
=============================================================================
