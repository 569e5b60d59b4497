---------------------------- MODULE CameraSession ---------------------------
(***************************************************************************)
(* Who holds the cameras: the main window (src/Blank/mainwindow.cpp), the  *)
(* preview of its child windows, and the reference counts of               *)
(* UsbCameraGroup (usb_camera_group.cpp).                                  *)
(*                                                                         *)
(*  UI thread      menus, preview buttons, the timer of each window, the   *)
(*                 frame sets posted to it, deferred deletion of windows   *)
(*  group threads  one per pumping group: OnFrame posts a task that holds  *)
(*                 a reference to the group                                *)
(*                                                                         *)
(* A window that setCentralWidget replaced is deleted later (Qt), and goes *)
(* on previewing until then, while its successor may open the same cameras *)
(* again.  GroupPump models what StopAll waits for; here it is the wait    *)
(* for the group thread to leave PostTask.                                 *)
(***************************************************************************)
EXTENDS Naturals, Sequences, SequencesExt

CONSTANTS
  Addresses,    \* where a window may be allocated
  Groups,       \* where a UsbCameraGroup may be allocated
  Kinds,        \* the windows the menu offers, see AllKinds
  MaxTasks,     \* bound: frame sets waiting on the UI loop
  Null          \* the null pointer

\* "calibrate" stands for both calibration windows, the stereo one and the
\* measuring one, "replay" for the windows that use no cameras.
AllKinds == {"record", "calibrate", "manual", "replay"}

ASSUME SessionAssumption ==
  /\ "record" \in Kinds /\ Kinds \subseteq AllKinds
  /\ MaxTasks \in Nat
  /\ Addresses # {}
  /\ Null \notin Addresses \union Groups \union AllKinds

VARIABLES
  windows,      \* what lives at each address: a kind or Null
  current,      \* mCurrentWidget
  pointer,      \* mRecordWindow, mManualWindow, ...: never reset
  closing,      \* windows with a deferred deletion pending
  mCameras,     \* mCameras of the window at each address
  group,        \* the group at each address, see Group
  tasks,        \* OnFrame closures on the UI loop
  dying,        \* the group in whose destructor the UI thread waits, or Null
  wild,         \* freed memory was used: anything may happen
  stale         \* auxiliary: the pointer of another kind already named the
                \* address of the current window when it was made

windowVars == <<windows, current, pointer, closing, stale>>
groupVars  == <<mCameras, group, tasks, dying>>
vars       == <<windowVars, groupVars, wild>>

\* A UsbCameraGroup: its pump runs, its group thread is inside PostTask and
\* holds a reference, and the window of frame_callback_.  Auxiliary: it is an
\* orphan when ~ManualWindow let go of it while it pumped.
Group == [alive : BOOLEAN, pumping : BOOLEAN, posting : BOOLEAN,
          orphan : BOOLEAN, callback : Addresses \union {Null}]
Dead  == [alive |-> FALSE, pumping |-> FALSE, posting |-> FALSE,
          orphan |-> FALSE, callback |-> Null]

TypeOK ==
  /\ windows \in [Addresses -> Kinds \union {Null}]
  /\ current \in Addresses
  /\ pointer \in [Kinds -> Addresses \union {Null}]
  /\ closing = {a \in Addresses : windows[a] # Null} \ {current}
  /\ mCameras \in [Addresses -> Groups \union {Null}]
  /\ group \in [Groups -> Group]
  /\ tasks \in Seq(Groups) /\ Len(tasks) <= MaxTasks
  /\ dying \in Groups \union {Null}
  /\ {wild, stale} \subseteq BOOLEAN

\* The constructor of MainWindow shows the record window.
Init ==
  /\ current = (CHOOSE a \in Addresses : TRUE)
  /\ windows = [a \in Addresses |-> IF a = current THEN "record" ELSE Null]
  /\ pointer = [k \in Kinds |-> IF k = "record" THEN current ELSE Null]
  /\ closing = {}
  /\ mCameras = [a \in Addresses |-> Null]
  /\ group = [g \in Groups |-> Dead]
  /\ tasks = <<>>
  /\ dying = Null
  /\ wild = FALSE /\ stale = FALSE

\* The UI thread is at its message loop.
UiFree == dying = Null /\ ~wild

Previewing(a) == mCameras[a] # Null
-----------------------------------------------------------------------------
(***************************************************************************)
(* Faulty variants: what the run must notice.                              *)
(***************************************************************************)
\* preview() leaves the frame callback in place.
StopKeepsCallback(a) == [group[mCameras[a]] EXCEPT !.pumping = FALSE]

\* preview() forgets StopAll.
StopKeepsPump(a) == [group[mCameras[a]] EXCEPT !.callback = Null]

\* mCurrentWidget still names the old window.
AdoptKeepsCurrent(a, k) ==
  /\ windows' = [windows EXCEPT ![a] = k]
  /\ pointer' = [pointer EXCEPT ![k] = a]
  /\ closing' = closing \union {current}
  /\ stale' = FALSE
  /\ UNCHANGED current

\* The new window is stored as the record window, whatever its kind.
AdoptKeepsPointer(a, k) ==
  /\ windows' = [windows EXCEPT ![a] = k]
  /\ current' = a
  /\ pointer' = [pointer EXCEPT !["record"] = a]
  /\ closing' = closing \union {current}
  /\ stale' = FALSE

\* A reference is given up without being counted.
ReleaseUncounted(g, q, cams, queue) ==
  /\ mCameras' = cams
  /\ tasks' = queue
  /\ group' = [group EXCEPT ![g] = q]
  /\ UNCHANGED dying
-----------------------------------------------------------------------------
(***************************************************************************)
(* The preview button of the current window.                               *)
(***************************************************************************)
\* References to a group: mCameras, closures, the closure being posted.
Held(g, cams, queue) ==
  \/ \E a \in Addresses : cams[a] = g
  \/ g \in ToSet(queue)
  \/ group[g].posting

\* The UI thread gives up a reference to g, which is now q; cams and queue are
\* mCameras and tasks without it.  When it was the last one the destructor
\* runs; StopAll has to wait if the pump still runs.
Release(g, q, cams, queue) ==
  /\ mCameras' = cams
  /\ tasks' = queue
  /\ IF Held(g, cams, queue)
       THEN group' = [group EXCEPT ![g] = q] /\ UNCHANGED dying
       ELSE IF q.pumping
              THEN group' = [group EXCEPT ![g] = q] /\ dying' = g
              ELSE group' = [group EXCEPT ![g] = Dead] /\ UNCHANGED dying

\* Where the next group is allocated: where none lives and none is awaited,
\* and if there are several such places it does not matter which.
Fresh     == {g \in Groups : ~group[g].alive /\ g \notin ToSet(tasks)}
NextGroup == CHOOSE g \in Fresh : TRUE

\* Fewer than two cameras and the group is dropped at once, which leaves all as
\* it was.  The result of StartAll is ignored: the pump may not run.
PreviewStart ==
  /\ UiFree
  /\ windows[current] # "replay" /\ ~Previewing(current)
  /\ Fresh # {}
  /\ mCameras' = [mCameras EXCEPT ![current] = NextGroup]
  /\ \E runs \in BOOLEAN :
       group' = [group EXCEPT ![NextGroup] =
         [Dead EXCEPT !.alive = TRUE, !.pumping = runs,
                      !.callback = IF windows[current] = "record" THEN current ELSE Null]]
  /\ UNCHANGED <<windowVars, tasks, dying, wild>>

Without(a) == [mCameras EXCEPT ![a] = Null]

\* What preview() does to the group of the window at a before it lets it go.
Stop(a) == [group[mCameras[a]] EXCEPT !.pumping = FALSE, !.callback = Null]

\* preview() while previewing.  StopAll returns when the group thread is out
\* of PostTask.
LetGo(a) ==
  /\ ~group[mCameras[a]].posting
  /\ Release(mCameras[a], Stop(a), Without(a), tasks)

PreviewStop ==
  /\ UiFree
  /\ Previewing(current)
  /\ LetGo(current)
  /\ UNCHANGED <<windowVars, wild>>
-----------------------------------------------------------------------------
(***************************************************************************)
(* Frames on their way.                                                    *)
(***************************************************************************)
\* OnFrame on the group thread: Bind adds a reference, also to a group whose
\* destructor waits for this very thread.
PumpPost(g) ==
  /\ ~wild
  /\ group[g].pumping /\ ~group[g].posting
  /\ Len(tasks) < MaxTasks
  /\ tasks' = Append(tasks, g)
  /\ group' = [group EXCEPT ![g].posting = TRUE]
  /\ UNCHANGED <<windowVars, mCameras, dying, wild>>

\* PostTask has returned and the group thread drops its copy of the closure.
\* If it held the last reference the destructor runs here, waits for its own
\* thread, and terminates it: nothing is freed.
PumpPosted(g) ==
  /\ ~wild
  /\ group[g].posting
  /\ IF (\E a \in Addresses : mCameras[a] = g) \/ g \in ToSet(tasks)
       THEN group' = [group EXCEPT ![g].posting = FALSE]
       ELSE group' = [group EXCEPT ![g] = Dead]
  /\ UNCHANGED <<windowVars, mCameras, tasks, dying, wild>>

\* OnFrame on the UI thread.
RunTask ==
  /\ UiFree
  /\ tasks # <<>>
  /\ LET g  == Head(tasks)
         to == group[g].callback
     IN
       IF group[g].alive /\ (to # Null => windows[to] = "record")
         THEN /\ Release(g, group[g], mCameras, Tail(tasks))
              /\ UNCHANGED wild
         ELSE wild' = TRUE /\ UNCHANGED <<mCameras, group, tasks, dying>>
  /\ UNCHANGED windowVars

\* StopAll in the destructor has returned; the memory is given back, whatever
\* has been posted in the meantime.
FinishDestroy ==
  /\ dying # Null /\ ~wild
  /\ ~group[dying].posting
  /\ group' = [group EXCEPT ![dying] = [Dead EXCEPT !.orphan = dying \in ToSet(tasks)]]
  /\ dying' = Null
  /\ UNCHANGED <<windowVars, mCameras, tasks, wild>>
-----------------------------------------------------------------------------
(***************************************************************************)
(* Windows.                                                                *)
(***************************************************************************)
\* The new window is made while the old one is still there; setCentralWidget
\* hides the old one and leaves it to be deleted.
Adopt(a, k) ==
  /\ windows' = [windows EXCEPT ![a] = k]
  /\ current' = a
  /\ pointer' = [pointer EXCEPT ![k] = a]
  /\ closing' = closing \union {current}
  /\ stale' = (\E j \in Kinds \ {k} : pointer[j] = a)

\* showRecordWindow() and its like: nothing to do when the pointer of that
\* kind is the current widget.
Show(k) ==
  /\ UiFree
  /\ current # pointer[k]
  /\ \E a \in Addresses : windows[a] = Null /\ Adopt(a, k)
  /\ UNCHANGED <<groupVars, wild>>

\* The group of the window at a, let go without being stopped.
Orphaned(a) == [group[mCameras[a]] EXCEPT !.orphan = group[mCameras[a]].pumping]

\* The deferred deletion.  ~ManualWindow clears mCameras before it looks
\* whether it is previewing, so preview() finds nothing to stop.
DestroyWindow(a) ==
  /\ UiFree
  /\ a \in closing
  /\ windows' = [windows EXCEPT ![a] = Null]
  /\ closing' = closing \ {a}
  /\ IF ~Previewing(a)
       THEN UNCHANGED groupVars
       ELSE IF windows[a] = "manual"
              THEN Release(mCameras[a], Orphaned(a), Without(a), tasks)
              ELSE LetGo(a)
  /\ UNCHANGED <<current, pointer, stale, wild>>

Stopped == wild /\ UNCHANGED vars

Next ==
  \/ \E k \in Kinds : Show(k)
  \/ PreviewStart \/ PreviewStop
  \/ \E a \in Addresses : DestroyWindow(a)
  \/ \E g \in Groups : PumpPost(g) \/ PumpPosted(g)
  \/ RunTask \/ FinishDestroy
  \/ Stopped

Spec == Init /\ [][Next]_vars

\* The UI loop runs what is posted to it, PostTask returns, and StopAll comes
\* back.  The user owes nothing, and when Qt deletes a window is Qt's affair.
FairSpec ==
  /\ Spec
  /\ SF_vars(RunTask) /\ WF_vars(FinishDestroy)
  /\ \A g \in Groups : WF_vars(PumpPosted(g))
-----------------------------------------------------------------------------
(***************************************************************************)
(* Properties.                                                             *)
(***************************************************************************)
(***************************************************************************)
(* The closures the pump posts keep their group alive, and a recording     *)
(* callback outlives no window, however late a frame set is delivered: a   *)
(* closure finds its group freed only if ~ManualWindow dropped that group  *)
(* while its pump ran.                                                     *)
(***************************************************************************)
FramesReachTheLiving ==
  /\ \A g \in ToSet(tasks) : group[g].alive \/ group[g].orphan
  /\ wild => group[Head(tasks)].orphan

(***************************************************************************)
(* A pump runs for the current window, for one that waits to be deleted,   *)
(* or because ~ManualWindow orphaned it; no two windows share a group.     *)
(***************************************************************************)
PumpsExplained ==
  /\ \A g \in Groups : group[g].pumping /\ ~group[g].orphan =>
       \E a \in closing \union {current} : mCameras[a] = g
  /\ \A a, b \in Addresses : Previewing(a) /\ mCameras[a] = mCameras[b] => a = b

(***************************************************************************)
(* The pointers of the main window are never reset, and compared with the  *)
(* current widget: they mistake another window for their own only when it  *)
(* was allocated at the address of a dead one.                             *)
(***************************************************************************)
PointerNamesWindow ==
  ~stale => \A k \in Kinds : pointer[k] = current <=> windows[current] = k

(***************************************************************************)
(* A group that was stopped and let go stays so, whatever the other groups *)
(* do, and is never posted again: of the tasks up to its last closure none *)
(* is added, and every turn of the UI loop runs one, until it is freed.    *)
(***************************************************************************)
LetGoStopped(g) ==
  group[g].alive /\ ~group[g].pumping /\ \A a \in Addresses : mCameras[a] # g
UpToLast(q, g) == {j \in DOMAIN q : \E i \in DOMAIN q : j <= i /\ q[i] = g}
Ahead(g)       == Cardinality(UpToLast(tasks, g))
StoppedGroupDrains ==
  [][\A g \in Groups : LetGoStopped(g) =>
       \/ ~group'[g].alive
       \/ /\ LetGoStopped(g)'
          /\ Ahead(g)' <= Ahead(g)
          /\ RunTask /\ ~wild' => Ahead(g)' < Ahead(g)]_vars

(***************************************************************************)
(* A group that was stopped and let go is destroyed: the closures that     *)
(* hold it are run, and no more are posted.                                *)
(***************************************************************************)
StoppedGroupFreed ==
  \A g \in Groups : LetGoStopped(g) ~> (~group[g].alive \/ wild)
=============================================================================
