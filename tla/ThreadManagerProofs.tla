-------------------------- MODULE ThreadManagerProofs -----------------------
(***************************************************************************)
(* Proofs about ThreadManager: no accepted task is lost at shutdown and a  *)
(* file task finds the thread of its successor, for every number of tasks. *)
(***************************************************************************)
EXTENDS ThreadManager, TLAPS

Messages == Tasks \union {"quit"}

HasQuit(q) == \E i \in DOMAIN q : q[i] = "quit"
OneQuit(q) == \A i, j \in DOMAIN q : q[i] = "quit" /\ q[j] = "quit" => i = j

\* StopSoon was called for t; threads_[t] was reset.
Told(t) == t > at \/ (t = at /\ ui \notin {"loop", "shutdown"})
Gone(t) == t > at \/ ui \in {"down", "destroyed"}

QuitsIn(t) == IF Told(t) /\ quitting[t] = "no" THEN 1 ELSE 0
Running(t) == IF busy[t] = "none" THEN 0 ELSE 1

\* TypeOK without the bounds, and with the queues as sequences.
Types ==
  /\ ui \in {"loop", "shutdown", "joining", "down", "destroyed"}
  /\ at \in ID
  /\ lock \in {"free", "ui"}
  /\ exists \in [ID -> BOOLEAN]
  /\ live \in [ID -> BOOLEAN]
  /\ quitting \in [ID -> {"no", "asked", "idle"}]
  /\ queue \in [ID -> Seq(Messages)]
  /\ busy \in [ID -> Tasks \union {"none"}]
  /\ recording \in BOOLEAN
  /\ rejected \in BOOLEAN
  /\ posted \in [ID -> Nat]
  /\ ran \in [ID -> Nat]

\* Who holds the lock, and where the loop of Shuttingdown is.
Phase ==
  /\ lock = "ui" <=> ui \in {"shutdown", "joining"}
  /\ ui = "loop" => at = IO
  /\ ui \in {"down", "destroyed"} => at = FILE1

\* One thread's life: told to quit, quitting, dead, reset, in this order.
Life(t) ==
  /\ exists[t] <=> ~Gone(t)
  /\ Gone(t) => ~live[t]
  /\ ~live[t] => quitting[t] = "idle"
  /\ quitting[t] = "idle" => queue[t] = <<>> /\ busy[t] = "none"
  /\ quitting[t] # "no" => Told(t)

\* One thread's queue: the quit task is in it from StopSoon until it is run,
\* and the rest of it are the tasks accepted and not yet run.
Queued(t) ==
  /\ HasQuit(queue[t]) <=> Told(t) /\ quitting[t] = "no"
  /\ OneQuit(queue[t])
  /\ Len(queue[t]) + ran[t] + Running(t) = posted[t] + QuitsIn(t)
  /\ t \notin First => busy[t] = "none"

\* What was posted where.
Sides ==
  /\ posted[FILE1] = posted[FILE2]
  /\ posted[FILE1] <= MaxTasks
  /\ posted[FILE3] <= ran[FILE1]
  /\ posted[FILE4] <= ran[FILE2]
  /\ posted[IO] = 0

Inv == Types /\ Phase /\ (\A t \in ID : Life(t)) /\ (\A t \in ID : Queued(t)) /\ Sides

-----------------------------------------------------------------------------
\* The queues.
LEMMA AppendTask ==
  ASSUME NEW q \in Seq(Messages), NEW x \in Tasks
  PROVE  /\ Append(q, x) \in Seq(Messages) /\ Len(Append(q, x)) = Len(q) + 1
         /\ HasQuit(Append(q, x)) <=> HasQuit(q)
         /\ OneQuit(q) => OneQuit(Append(q, x))
<1>1. x \in Messages /\ x # "quit"  BY DEF Messages, Tasks
<1>2. /\ Append(q, x) \in Seq(Messages) /\ Len(Append(q, x)) = Len(q) + 1
      /\ \A i \in 1..Len(q) : Append(q, x)[i] = q[i]
      /\ Append(q, x)[Len(q) + 1] = x
  BY <1>1
<1> DEFINE a == Append(q, x)
<1>3. DOMAIN a = 1..(Len(q) + 1) /\ DOMAIN q = 1..Len(q) /\ Len(q) \in Nat
  BY <1>2
<1>4. \A i \in DOMAIN a : a[i] = "quit" => i \in DOMAIN q /\ q[i] = "quit"
  BY <1>1, <1>2, <1>3
<1>5. \A i \in DOMAIN q : i \in DOMAIN a /\ a[i] = q[i]
  BY <1>2, <1>3
<1> QED BY <1>2, <1>4, <1>5 DEF HasQuit, OneQuit

LEMMA AppendQuit ==
  ASSUME NEW q \in Seq(Messages), ~HasQuit(q)
  PROVE  /\ Append(q, "quit") \in Seq(Messages)
         /\ Len(Append(q, "quit")) = Len(q) + 1
         /\ HasQuit(Append(q, "quit")) /\ OneQuit(Append(q, "quit"))
<1> DEFINE a == Append(q, "quit")
<1>1. "quit" \in Messages  BY DEF Messages
<1>2. /\ a \in Seq(Messages) /\ Len(a) = Len(q) + 1
      /\ \A i \in 1..Len(q) : a[i] = q[i]
      /\ a[Len(q) + 1] = "quit"
  BY <1>1
<1>3. DOMAIN a = 1..(Len(q) + 1) /\ DOMAIN q = 1..Len(q) /\ Len(q) \in Nat
  BY <1>2
<1>4. \A i \in DOMAIN a : a[i] = "quit" => i = Len(q) + 1
  BY <1>2, <1>3 DEF HasQuit
<1>5. HasQuit(a)  BY <1>2, <1>3 DEF HasQuit
<1>6. OneQuit(a)  BY <1>4 DEF OneQuit
<1> QED BY <1>2, <1>5, <1>6

LEMMA TailQuit ==
  ASSUME NEW q \in Seq(Messages), q # <<>>, OneQuit(q)
  PROVE  /\ Tail(q) \in Seq(Messages) /\ Len(Tail(q)) = Len(q) - 1 /\ Len(q) \in Nat
         /\ Head(q) \in Messages
         /\ OneQuit(Tail(q))
         /\ Head(q) = "quit" => HasQuit(q) /\ ~HasQuit(Tail(q))
         /\ Head(q) # "quit" => (HasQuit(Tail(q)) <=> HasQuit(q))
<1> DEFINE u == Tail(q)
<1>1. /\ u \in Seq(Messages) /\ Len(u) = Len(q) - 1 /\ Len(q) \in Nat \ {0}
      /\ Head(q) = q[1] /\ q[1] \in Messages
      /\ \A i \in 1..Len(u) : u[i] = q[i + 1]
  OBVIOUS
<1>2. DOMAIN u = 1..Len(u) /\ DOMAIN q = 1..Len(q)  BY <1>1
<1>3. \A i \in DOMAIN u : i + 1 \in DOMAIN q /\ u[i] = q[i + 1] /\ i \in Nat \ {0}
  BY <1>1, <1>2
<1>4. \A i \in DOMAIN q : i # 1 => i - 1 \in DOMAIN u /\ q[i] = u[i - 1]
  <2> SUFFICES ASSUME NEW i \in DOMAIN q, i # 1
               PROVE  i - 1 \in DOMAIN u /\ q[i] = u[i - 1]
    OBVIOUS
  <2>1. i \in Nat /\ i - 1 \in 1..Len(u)  BY <1>1, <1>2
  <2>2. u[i - 1] = q[(i - 1) + 1]  BY <1>1, <2>1
  <2>3. (i - 1) + 1 = i  BY <2>1
  <2> QED BY <2>1, <2>2, <2>3, <1>2
<1>5. OneQuit(u)
  <2> SUFFICES ASSUME NEW i \in DOMAIN u, NEW j \in DOMAIN u,
                      u[i] = "quit", u[j] = "quit"
               PROVE  i = j
    BY DEF OneQuit
  <2>1. i + 1 = j + 1  BY <1>3 DEF OneQuit
  <2> QED BY <2>1, <1>3
<1>6. 1 \in DOMAIN q  BY <1>1, <1>2
<1>7. Head(q) = "quit" => HasQuit(q)  BY <1>1, <1>6 DEF HasQuit
<1>8. Head(q) = "quit" => ~HasQuit(u)
  <2> SUFFICES ASSUME q[1] = "quit", NEW i \in DOMAIN u, u[i] = "quit" PROVE FALSE
    BY <1>1 DEF HasQuit
  <2>1. i + 1 = 1  BY <1>3, <1>6 DEF OneQuit
  <2> QED BY <2>1, <1>3
<1>9. Head(q) # "quit" => (HasQuit(u) <=> HasQuit(q))
  BY <1>1, <1>3, <1>4 DEF HasQuit
<1> QED BY <1>1, <1>5, <1>7, <1>8, <1>9

LEMMA EmptyQueue ==
  /\ <<>> \in Seq(Messages) /\ Len(<<>>) = 0
  /\ ~HasQuit(<<>>) /\ OneQuit(<<>>)
<1>1. <<>> \in Seq(Messages) /\ Len(<<>>) = 0  OBVIOUS
<1>2. DOMAIN <<>> = {}  OBVIOUS
<1> QED BY <1>1, <1>2 DEF HasQuit, OneQuit

-----------------------------------------------------------------------------
LEMMA IdFacts ==
  /\ ID = 0..4 /\ FILE1 = 0 /\ FILE2 = 1 /\ FILE3 = 2 /\ FILE4 = 3 /\ IO = 4
  /\ First = {0, 1} /\ First \subseteq ID
  /\ \A t \in First : Successor(t) \in ID /\ Successor(t) = t + 2
BY DEF ID, FILE1, FILE2, FILE3, FILE4, IO, First, Successor

\* With the lock free either all threads are there and none was told to stop,
\* or all are gone.
LEMMA LockFree ==
  ASSUME Inv, lock = "free"
  PROVE  \/ ui = "loop" /\ \A t \in ID : ~Told(t) /\ exists[t] /\ quitting[t] = "no" /\ live[t]
         \/ /\ ui \in {"down", "destroyed"}
            /\ \A t \in ID : /\ Told(t) /\ ~exists[t] /\ ~live[t] /\ quitting[t] = "idle"
                             /\ queue[t] = <<>> /\ busy[t] = "none"
<1>1. ui \in {"loop", "down", "destroyed"}  BY DEF Inv, Types, Phase
<1>2. CASE ui = "loop"
  <2>1. at = 4  BY <1>2, IdFacts DEF Inv, Phase
  <2>2. \A t \in ID : ~Told(t) /\ ~Gone(t)  BY <2>1, <1>2, IdFacts DEF Told, Gone
  <2>3. \A t \in ID : quitting[t] = "no" /\ exists[t] /\ live[t]
    <3> SUFFICES ASSUME NEW t \in ID PROVE quitting[t] = "no" /\ exists[t] /\ live[t]
      OBVIOUS
    <3>1. Life(t)  BY DEF Inv
    <3> QED BY <3>1, <2>2 DEF Life
  <2> QED BY <1>2, <2>2, <2>3
<1>3. CASE ui \in {"down", "destroyed"}
  <2>1. at = 0  BY <1>3, IdFacts DEF Inv, Phase
  <2>2. \A t \in ID : Told(t) /\ Gone(t)  BY <2>1, <1>3, IdFacts DEF Told, Gone
  <2>3. ASSUME NEW t \in ID
        PROVE  /\ ~exists[t] /\ ~live[t] /\ quitting[t] = "idle"
               /\ queue[t] = <<>> /\ busy[t] = "none"
    <3>1. Life(t)  BY DEF Inv
    <3> QED BY <3>1, <2>2 DEF Life
  <2> QED BY <1>3, <2>2, <2>3
<1> QED BY <1>1, <1>2, <1>3

\* Who is told and gone depends on the loop of Shuttingdown alone, and a
\* step that leaves a thread and the loop alone leaves its invariants.
LEMMA Untouched ==
  ASSUME NEW t \in ID, UNCHANGED <<ui, at>>, quitting'[t] = quitting[t],
         exists'[t] = exists[t], live'[t] = live[t], queue'[t] = queue[t],
         busy'[t] = busy[t]
  PROVE  /\ Told(t)' <=> Told(t)
         /\ Gone(t)' <=> Gone(t)
         /\ Life(t) => Life(t)'
         /\ ran'[t] = ran[t] /\ posted'[t] = posted[t] /\ Queued(t) => Queued(t)'
<1>1. (Told(t)' <=> Told(t)) /\ (Gone(t)' <=> Gone(t))  BY DEF Told, Gone
<1>2. Life(t) => Life(t)'  BY <1>1 DEF Life
<1>3. QuitsIn(t)' = QuitsIn(t) /\ Running(t)' = Running(t)
  BY <1>1 DEF QuitsIn, Running
<1>4. ASSUME ran'[t] = ran[t], posted'[t] = posted[t], Queued(t) PROVE Queued(t)'
  BY <1>1, <1>3, <1>4 DEF Queued
<1> QED BY <1>1, <1>2, <1>4

\* PostTask to threads that exist, of which it accepts all, or none.
LEMMA PostTaskFacts ==
  ASSUME Inv, NEW T \in SUBSET ID, NEW task \in Tasks, PostTask(T, task),
         NEW t \in ID
  PROVE  /\ queue'[t] = IF t \in T /\ exists[t] THEN Append(queue[t], task) ELSE queue[t]
         /\ posted'[t] = IF t \in T /\ exists[t] THEN posted[t] + 1 ELSE posted[t]
         /\ queue' \in [ID -> Seq(Messages)]
         /\ posted' \in [ID -> Nat]
         /\ rejected' \in BOOLEAN
         /\ lock = "free"
<1>1. queue \in [ID -> Seq(Messages)] /\ posted \in [ID -> Nat]  BY DEF Inv, Types
<1> DEFINE accepted == {u \in T : exists[u]}
<1>2. /\ lock = "free"
      /\ queue' = [u \in ID |-> IF u \in accepted THEN Append(queue[u], task) ELSE queue[u]]
      /\ posted' = [u \in ID |-> IF u \in accepted THEN posted[u] + 1 ELSE posted[u]]
      /\ rejected' = (rejected \/ accepted # T)
  BY Zenon DEF PostTask
<1>3. \A u \in ID : Append(queue[u], task) \in Seq(Messages)
  BY <1>1, AppendTask
<1>4. rejected' \in BOOLEAN
  <2>1. rejected' = (rejected \/ accepted # T)  BY <1>2
  <2> QED BY <2>1
<1>5. t \in accepted <=> t \in T /\ exists[t]  OBVIOUS
<1> HIDE DEF accepted
<1>6. queue' \in [ID -> Seq(Messages)] /\ posted' \in [ID -> Nat]
  BY <1>1, <1>2, <1>3
<1>7. /\ queue'[t] = IF t \in accepted THEN Append(queue[t], task) ELSE queue[t]
      /\ posted'[t] = IF t \in accepted THEN posted[t] + 1 ELSE posted[t]
  BY <1>2
<1> QED BY <1>2, <1>4, <1>5, <1>6, <1>7

-----------------------------------------------------------------------------
\* The steps of the UI thread.
LEMMA StartRecordingInv == ASSUME Inv, StartRecording PROVE Inv'
<1>1. /\ recording' = TRUE
      /\ UNCHANGED <<ui, at, lock, exists, live, quitting, queue, busy, rejected,
                     posted, ran>>
  BY DEF StartRecording
<1>2. Types' /\ Phase' /\ Sides'  BY <1>1 DEF Inv, Types, Phase, Sides
<1>3. \A t \in ID : Life(t)' /\ Queued(t)'  BY <1>1, Untouched DEF Inv
<1> QED BY <1>2, <1>3 DEF Inv

\* Both sides get one task more while the UI loop runs.
LEMMA PostFirstInv ==
  ASSUME Inv, NEW task \in Tasks, ui = "loop", posted[FILE1] < MaxTasks,
         PostTask(First, task), recording' \in BOOLEAN,
         UNCHANGED <<ui, at, lock, exists, live, quitting, busy, ran>>
  PROVE  Inv'
<1>1. /\ \A t \in ID : /\ queue'[t] = IF t \in First THEN Append(queue[t], task) ELSE queue[t]
                       /\ posted'[t] = IF t \in First THEN posted[t] + 1 ELSE posted[t]
      /\ queue' \in [ID -> Seq(Messages)] /\ posted' \in [ID -> Nat]
      /\ rejected' \in BOOLEAN
  <2>1. lock = "free"  BY IdFacts, PostTaskFacts
  <2>2. \A t \in ID : exists[t]  BY <2>1, LockFree
  <2>3. First \in SUBSET ID /\ ID # {}  BY IdFacts
  <2>4. ASSUME NEW t \in ID
        PROVE  /\ queue'[t] = IF t \in First THEN Append(queue[t], task) ELSE queue[t]
               /\ posted'[t] = IF t \in First THEN posted[t] + 1 ELSE posted[t]
    BY <2>2, <2>3, PostTaskFacts
  <2>5. /\ queue' \in [ID -> Seq(Messages)] /\ posted' \in [ID -> Nat]
        /\ rejected' \in BOOLEAN
    BY <2>3, PostTaskFacts
  <2> QED BY <2>4, <2>5
<1>2. Types'  BY <1>1 DEF Inv, Types
<1>3. Phase'  BY DEF Inv, Phase
<1>4. Sides'
  <2>1. /\ posted'[0] = posted[0] + 1 /\ posted'[1] = posted[1] + 1
        /\ posted'[2] = posted[2] /\ posted'[3] = posted[3] /\ posted'[4] = posted[4]
    BY <1>1, IdFacts
  <2>2. MaxTasks \in Nat /\ posted \in [0..4 -> Nat]
    BY ThreadManagerAssumption, IdFacts DEF Inv, Types
  <2> QED BY <2>1, <2>2, IdFacts DEF Inv, Sides
<1>5. ASSUME NEW t \in ID PROVE Life(t)' /\ Queued(t)'
  <2>1. ~Told(t) /\ exists[t] /\ quitting[t] = "no" /\ live[t]
    <3>1. lock = "free"  BY IdFacts, PostTaskFacts
    <3> QED BY <3>1, LockFree
  <2>2. (Told(t)' <=> Told(t)) /\ (Gone(t)' <=> Gone(t))  BY DEF Told, Gone
  <2>3. Life(t) /\ Queued(t)  BY DEF Inv
  <2>4. Life(t)'  BY <2>1, <2>2, <2>3 DEF Life
  <2>5. QuitsIn(t) = 0 /\ QuitsIn(t)' = 0 /\ Running(t)' = Running(t)
    BY <2>1, <2>2 DEF QuitsIn, Running
  <2>6. /\ queue[t] \in Seq(Messages) /\ posted[t] \in Nat /\ ran[t] \in Nat
        /\ Running(t) \in Nat /\ Len(queue[t]) \in Nat
    BY DEF Inv, Types, Running
  <2>7. CASE t \in First
    <3>1. queue'[t] = Append(queue[t], task) /\ posted'[t] = posted[t] + 1
      BY <1>1, <2>7
    <3>2. /\ Len(queue'[t]) = Len(queue[t]) + 1
          /\ HasQuit(queue'[t]) <=> HasQuit(queue[t])
          /\ OneQuit(queue'[t])
      BY <3>1, <2>6, <2>3, AppendTask DEF Queued
    <3>3. Len(queue[t]) + ran[t] + Running(t) = posted[t] + QuitsIn(t)
      BY <2>3 DEF Queued
    <3>4. Len(queue'[t]) + ran'[t] + Running(t)' = posted'[t] + QuitsIn(t)'
      <4> DEFINE l == Len(queue[t])
                 m == Len(queue'[t])
                 r == Running(t)
      <4>1. m = l + 1 /\ l + ran[t] + r = posted[t] + 0 /\ l \in Nat /\ r \in Nat
        BY <3>2, <3>3, <2>5, <2>6
      <4> HIDE DEF l, m, r
      <4>2. m + ran[t] + r = (posted[t] + 1) + 0  BY <4>1, <2>6
      <4>3. m + ran'[t] + r = posted'[t] + 0  BY <4>2, <3>1
      <4> QED BY <4>3, <2>5 DEF l, m, r
    <3>5. ~HasQuit(queue'[t]) /\ ~Told(t)'
      BY <3>2, <2>1, <2>2, <2>3 DEF Queued
    <3>6. OneQuit(queue[t])'  BY <3>2
    <3>7. Queued(t)'
      <4>1. (HasQuit(queue[t]) <=> Told(t) /\ quitting[t] = "no")'  BY <3>5
      <4>2. (t \notin First => busy[t] = "none")'  BY <2>7
      <4>3. (Len(queue[t]) + ran[t] + Running(t) = posted[t] + QuitsIn(t))'
        BY <3>4
      <4> QED BY <3>6, <4>1, <4>2, <4>3 DEF Queued
    <3> QED BY <3>7, <2>4
  <2>8. CASE t \notin First
    <3>1. queue'[t] = queue[t] /\ posted'[t] = posted[t]  BY <1>1, <2>8
    <3> QED BY <3>1, <2>4, <2>2, <2>3, <2>5 DEF Queued
  <2> QED BY <2>7, <2>8
<1> QED BY <1>2, <1>3, <1>4, <1>5 DEF Inv

\* With the threads gone PostTask accepts nothing.
LEMMA UiDestroyWindowsInv == ASSUME Inv, UiDestroyWindows PROVE Inv'
<1>1. /\ ui = "down" /\ ui' = "destroyed"
      /\ UNCHANGED <<at, lock, exists, live, quitting, busy, ran>>
  BY DEF UiDestroyWindows
<1>2. lock = "free"  BY <1>1 DEF Inv, Types, Phase
<1>3. \A t \in ID : ~exists[t]  BY <1>1, <1>2, LockFree
<1>4. /\ \A t \in ID : queue'[t] = queue[t] /\ posted'[t] = posted[t]
      /\ queue' \in [ID -> Seq(Messages)] /\ posted' \in [ID -> Nat]
      /\ rejected' \in BOOLEAN /\ recording' \in BOOLEAN
  <2>1. CASE recording
    <3>1. PostTask(First, "closure") /\ recording' = FALSE
      BY <2>1 DEF UiDestroyWindows
    <3>2. "closure" \in Tasks  BY DEF Tasks
    <3> QED BY <3>1, <3>2, <1>3, IdFacts, PostTaskFacts
  <2>2. CASE ~recording
    <3>1. UNCHANGED <<queue, posted, rejected, recording>>
      BY <2>2 DEF UiDestroyWindows
    <3> QED BY <3>1 DEF Inv, Types
  <2> QED BY <2>1, <2>2
<1>5. Types'  BY <1>1, <1>4 DEF Inv, Types
<1>6. Phase'  BY <1>1, <1>2 DEF Inv, Phase
<1>7. Sides'  BY <1>1, <1>4, IdFacts DEF Inv, Sides
<1>8. ASSUME NEW t \in ID PROVE Life(t)' /\ Queued(t)'
  <2>1. (Told(t)' <=> Told(t)) /\ (Gone(t)' <=> Gone(t))
    BY <1>1 DEF Told, Gone
  <2>2. QuitsIn(t)' = QuitsIn(t) /\ Running(t)' = Running(t)
    BY <1>1, <2>1 DEF QuitsIn, Running
  <2> QED BY <1>1, <1>4, <2>1, <2>2 DEF Inv, Life, Queued
<1> QED BY <1>5, <1>6, <1>7, <1>8 DEF Inv

LEMMA UiEnterShutdownInv == ASSUME Inv, UiEnterShutdown PROVE Inv'
<1>1. /\ ui = "loop" /\ ui' = "shutdown" /\ lock' = "ui"
      /\ UNCHANGED <<at, exists, live, quitting, queue, busy, recording, rejected,
                     posted, ran>>
  BY DEF UiEnterShutdown
<1>2. Types' /\ Phase' /\ Sides'  BY <1>1 DEF Inv, Types, Phase, Sides
<1>3. ASSUME NEW t \in ID PROVE Life(t)' /\ Queued(t)'
  <2>1. (Told(t)' <=> Told(t)) /\ (Gone(t)' <=> Gone(t))
    BY <1>1 DEF Told, Gone
  <2>2. QuitsIn(t)' = QuitsIn(t) /\ Running(t)' = Running(t)
    BY <1>1, <2>1 DEF QuitsIn, Running
  <2> QED BY <1>1, <2>1, <2>2 DEF Inv, Life, Queued
<1> QED BY <1>2, <1>3 DEF Inv

LEMMA UiStopSoonInv == ASSUME Inv, UiStopSoon PROVE Inv'
<1>1. /\ ui = "shutdown" /\ ui' = "joining"
      /\ queue' = [queue EXCEPT ![at] = Append(@, "quit")]
      /\ UNCHANGED <<at, lock, exists, live, quitting, busy, recording, rejected,
                     posted, ran>>
  BY DEF UiStopSoon
<1>2. at \in ID /\ queue \in [ID -> Seq(Messages)]  BY DEF Inv, Types
<1>3. ~Told(at) /\ Told(at)'
  BY <1>1, <1>2, IdFacts DEF Told
<1>4. ~HasQuit(queue[at]) /\ quitting[at] = "no"
  BY <1>2, <1>3 DEF Inv, Queued, Life, Types
<1>5. /\ queue'[at] = Append(queue[at], "quit")
      /\ queue'[at] \in Seq(Messages) /\ Len(queue'[at]) = Len(queue[at]) + 1
      /\ HasQuit(queue'[at]) /\ OneQuit(queue'[at])
  BY <1>1, <1>2, <1>4, AppendQuit
<1>6. Types'
  <2>1. queue' \in [ID -> Seq(Messages)]  BY <1>1, <1>2, <1>5
  <2> QED BY <1>1, <2>1 DEF Inv, Types
<1>7. Phase' /\ Sides'  BY <1>1 DEF Inv, Phase, Sides
<1>8. \A t \in ID : Gone(t)' <=> Gone(t)  BY <1>1 DEF Gone
<1>9. ASSUME NEW t \in ID, t # at PROVE Life(t)' /\ Queued(t)'
  <2>1. Told(t)' <=> Told(t)  BY <1>1, <1>2, <1>9, IdFacts DEF Told
  <2>2. QuitsIn(t)' = QuitsIn(t) /\ Running(t)' = Running(t)
    BY <1>1, <2>1 DEF QuitsIn, Running
  <2>3. queue'[t] = queue[t]  BY <1>1, <1>2, <1>9
  <2> QED BY <1>1, <1>8, <2>1, <2>2, <2>3 DEF Inv, Life, Queued
<1>10. Life(at)'
  BY <1>1, <1>2, <1>3, <1>4, <1>8 DEF Inv, Life, Types
<1>11. Queued(at)'
  <2>1. QuitsIn(at) = 0 /\ QuitsIn(at)' = 1 /\ Running(at)' = Running(at)
    BY <1>1, <1>3, <1>4 DEF QuitsIn, Running
  <2>2. /\ ran[at] \in Nat /\ posted[at] \in Nat /\ Running(at) \in Nat
        /\ Len(queue[at]) \in Nat
    BY <1>2 DEF Inv, Types, Running
  <2>3. Queued(at)  BY <1>2 DEF Inv
  <2>4. Len(queue'[at]) + ran'[at] + Running(at)' = posted'[at] + QuitsIn(at)'
    BY <1>1, <1>5, <2>1, <2>2, <2>3 DEF Queued
  <2> QED BY <1>1, <1>3, <1>4, <1>5, <2>3, <2>4 DEF Queued
<1> QED BY <1>1, <1>6, <1>7, <1>9, <1>10, <1>11 DEF Inv

LEMMA UiJoinInv == ASSUME Inv, UiJoin PROVE Inv'
<1>1. /\ ui = "joining" /\ ~live[at]
      /\ exists' = [exists EXCEPT ![at] = FALSE]
      /\ UNCHANGED <<live, quitting, queue, busy, recording, rejected, posted, ran>>
      /\ \/ at > FILE1 /\ at' = at - 1 /\ ui' = "shutdown" /\ lock' = lock
         \/ at = FILE1 /\ at' = at /\ ui' = "down" /\ lock' = "free"
  BY DEF UiJoin
<1>2. at \in 0..4 /\ exists \in [ID -> BOOLEAN] /\ lock = "ui"
  BY <1>1, IdFacts DEF Inv, Types, Phase
<1>3. /\ at' \in ID /\ lock' \in {"free", "ui"}
      /\ ui' \in {"loop", "shutdown", "joining", "down", "destroyed"}
  BY <1>1, <1>2, IdFacts
<1>4. Types'
  <2>1. exists' \in [ID -> BOOLEAN]  BY <1>1, <1>2
  <2> QED BY <1>1, <1>3, <2>1 DEF Inv, Types
<1>5. Phase'  BY <1>1, <1>2, IdFacts DEF Phase
<1>6. Sides'  BY <1>1 DEF Inv, Sides
<1>7. \A t \in ID : Told(t)' <=> Told(t)
  BY <1>1, <1>2, IdFacts DEF Told
<1>8. \A t \in ID : Gone(t)' <=> Gone(t) \/ t = at
  BY <1>1, <1>2, IdFacts DEF Gone
<1>9. ASSUME NEW t \in ID PROVE Life(t)'
  <2>1. exists'[t] <=> exists[t] /\ t # at  BY <1>1, <1>2
  <2> QED BY <1>1, <1>7, <1>8, <2>1 DEF Inv, Life
<1>10. ASSUME NEW t \in ID PROVE Queued(t)'
  <2>1. QuitsIn(t)' = QuitsIn(t) /\ Running(t)' = Running(t)
    BY <1>1, <1>7 DEF QuitsIn, Running
  <2> QED BY <1>1, <1>7, <2>1 DEF Inv, Queued
<1> QED BY <1>4, <1>5, <1>6, <1>9, <1>10 DEF Inv

-----------------------------------------------------------------------------
\* The steps of the working threads.
LEMMA RunTaskInv == ASSUME Inv, NEW t \in ID, RunTask(t) PROVE Inv'
<1>1. /\ live[t] /\ quitting[t] # "idle" /\ busy[t] = "none" /\ queue[t] # <<>>
      /\ queue' = [queue EXCEPT ![t] = Tail(@)]
      /\ UNCHANGED <<ui, at, lock, exists, live, recording, rejected, posted>>
  BY DEF RunTask
<1> DEFINE task == Head(queue[t])
<1>2. \/ /\ task = "quit"
         /\ quitting' = [quitting EXCEPT ![t] = "asked"]
         /\ UNCHANGED <<busy, ran>>
      \/ /\ task \in Tasks /\ t \in First
         /\ busy' = [busy EXCEPT ![t] = task]
         /\ UNCHANGED <<quitting, ran>>
      \/ /\ task \in Tasks
         /\ ran' = [ran EXCEPT ![t] = @ + 1]
         /\ UNCHANGED <<quitting, busy>>
  BY DEF RunTask, Tasks
<1> HIDE DEF task
<1>3. /\ queue \in [ID -> Seq(Messages)] /\ quitting \in [ID -> {"no", "asked", "idle"}]
      /\ busy \in [ID -> Tasks \union {"none"}] /\ ran \in [ID -> Nat] /\ posted \in [ID -> Nat]
  BY DEF Inv, Types
<1>4. Life(t) /\ Queued(t)  BY DEF Inv
<1>5. /\ queue'[t] = Tail(queue[t])
      /\ queue'[t] \in Seq(Messages) /\ Len(queue'[t]) = Len(queue[t]) - 1
      /\ Len(queue[t]) \in Nat /\ OneQuit(queue'[t])
      /\ task = "quit" => HasQuit(queue[t]) /\ ~HasQuit(queue'[t])
      /\ task # "quit" => (HasQuit(queue'[t]) <=> HasQuit(queue[t]))
  <2>1. queue'[t] = Tail(queue[t]) /\ queue[t] \in Seq(Messages)  BY <1>1, <1>3
  <2>2. OneQuit(queue[t])  BY <1>4 DEF Queued
  <2> QED BY <2>1, <2>2, <1>1, TailQuit DEF task
<1>6. "quit" \notin Tasks /\ "none" \notin Tasks  BY DEF Tasks
<1>7. Types'
  <2>1. queue' \in [ID -> Seq(Messages)]  BY <1>1, <1>3, <1>5
  <2>2. /\ quitting' \in [ID -> {"no", "asked", "idle"}]
        /\ busy' \in [ID -> Tasks \union {"none"}] /\ ran' \in [ID -> Nat]
    <3>1. CASE /\ quitting' = [quitting EXCEPT ![t] = "asked"]
               /\ UNCHANGED <<busy, ran>>
      BY <3>1, <1>3
    <3>2. CASE /\ task \in Tasks
               /\ busy' = [busy EXCEPT ![t] = task]
               /\ UNCHANGED <<quitting, ran>>
      <4>1. task \in Tasks \union {"none"}  BY <3>2
      <4> QED BY <3>2, <4>1, <1>3
    <3>3. CASE /\ ran' = [ran EXCEPT ![t] = @ + 1]
               /\ UNCHANGED <<quitting, busy>>
      BY <3>3, <1>3
    <3> QED BY <1>2, <3>1, <3>2, <3>3
  <2>3. Types  BY DEF Inv
  <2> HIDE DEF Inv
  <2>4. /\ ui' \in {"loop", "shutdown", "joining", "down", "destroyed"}
        /\ at' \in ID /\ lock' \in {"free", "ui"}
        /\ recording' \in BOOLEAN /\ rejected' \in BOOLEAN
        /\ posted' \in [ID -> Nat]
    BY <1>1, <2>3 DEF Types
  <2>5. exists' \in [ID -> BOOLEAN] /\ live' \in [ID -> BOOLEAN]
    BY <1>1, <2>3 DEF Types
  <2> QED BY <2>1, <2>2, <2>4, <2>5 DEF Types
<1>8. Phase'  BY <1>1 DEF Inv, Phase
<1>9. \A u \in ID : ran'[u] \in Nat /\ ran[u] <= ran'[u]
  BY <1>2, <1>3
<1>10. Sides'
  <2>1. \A u \in ID : posted[u] \in Nat /\ ran[u] \in Nat /\ ran'[u] \in Nat
    BY <1>3, <1>9
  <2>2. FILE1 \in ID /\ FILE2 \in ID /\ FILE3 \in ID /\ FILE4 \in ID  BY IdFacts
  <2>3. ran[FILE1] <= ran'[FILE1] /\ ran[FILE2] <= ran'[FILE2]  BY <1>9, <2>2
  <2>4. Sides  BY DEF Inv
  <2>5. posted[FILE3] <= ran'[FILE1] /\ posted[FILE4] <= ran'[FILE2]
    <3>1. /\ posted[FILE3] \in Nat /\ ran[FILE1] \in Nat /\ ran'[FILE1] \in Nat
          /\ posted[FILE4] \in Nat /\ ran[FILE2] \in Nat /\ ran'[FILE2] \in Nat
      BY <2>1, <2>2
    <3> QED BY <3>1, <2>3, <2>4 DEF Sides
  <2> QED BY <1>1, <2>4, <2>5 DEF Sides
<1>11. ASSUME NEW u \in ID, u # t PROVE Life(u)' /\ Queued(u)'
  <2>1. /\ queue'[u] = queue[u] /\ quitting'[u] = quitting[u]
        /\ busy'[u] = busy[u] /\ ran'[u] = ran[u]
    BY <1>1, <1>2, <1>3, <1>11
  <2>2. Life(u) /\ Queued(u)  BY DEF Inv
  <2>3. UNCHANGED <<ui, at>> /\ exists'[u] = exists[u] /\ live'[u] = live[u]
        /\ posted'[u] = posted[u]
    BY <1>1
  <2> QED BY <2>1, <2>2, <2>3, Untouched
<1>12. Told(t)' <=> Told(t)  BY <1>1 DEF Told
<1>13. Gone(t)' <=> Gone(t)  BY <1>1 DEF Gone
<1> DEFINE l == Len(queue[t])
           m == Len(queue'[t])
<1>14. /\ l \in Nat /\ m = l - 1 /\ Running(t) = 0
       /\ l + ran[t] + 0 = posted[t] + QuitsIn(t)
       /\ ran[t] \in Nat /\ posted[t] \in Nat
  BY <1>1, <1>3, <1>4, <1>5 DEF Queued, Running
<1>15. CASE /\ task = "quit"
            /\ quitting' = [quitting EXCEPT ![t] = "asked"]
            /\ UNCHANGED <<busy, ran>>
  <2>1. quitting'[t] = "asked" /\ quitting[t] = "no" /\ Told(t)
    BY <1>3, <1>4, <1>5, <1>15 DEF Queued
  <2>2. QuitsIn(t) = 1 /\ QuitsIn(t)' = 0 /\ Running(t)' = 0
    BY <2>1, <1>1, <1>15 DEF QuitsIn, Running
  <2>3. Life(t)'  BY <1>1, <1>4, <1>12, <1>13, <2>1, <1>15 DEF Life
  <2>4. m + ran[t] + 0 = posted[t] + 0  BY <1>14, <2>2
  <2>5. Queued(t)'
    <3>1. (HasQuit(queue[t]) <=> Told(t) /\ quitting[t] = "no")'
      BY <1>5, <1>15, <2>1
    <3>2. (t \notin First => busy[t] = "none")'  BY <1>1, <1>15
    <3>3. (Len(queue[t]) + ran[t] + Running(t) = posted[t] + QuitsIn(t))'
      BY <2>2, <2>4, <1>1, <1>15
    <3> QED BY <1>5, <3>1, <3>2, <3>3 DEF Queued
  <2> QED BY <1>7, <1>8, <1>10, <1>11, <2>3, <2>5 DEF Inv
<1>16. CASE /\ task \in Tasks /\ t \in First
            /\ busy' = [busy EXCEPT ![t] = task]
            /\ UNCHANGED <<quitting, ran>>
  <2>1. busy'[t] = task /\ task # "none" /\ task # "quit"  BY <1>3, <1>6, <1>16
  <2>2. QuitsIn(t)' = QuitsIn(t) /\ Running(t)' = 1
    BY <1>12, <1>16, <2>1 DEF QuitsIn, Running
  <2>3. Life(t)'  BY <1>1, <1>4, <1>12, <1>13, <1>16 DEF Life
  <2>4. m + ran[t] + 1 = posted[t] + QuitsIn(t)
    <3>1. QuitsIn(t) \in Nat  BY DEF QuitsIn
    <3> HIDE DEF l, m
    <3> QED BY <3>1, <1>14
  <2>5. Queued(t)'
    <3>1. (HasQuit(queue[t]) <=> Told(t) /\ quitting[t] = "no")'
      BY <1>4, <1>5, <1>12, <1>16, <2>1 DEF Queued
    <3>2. (t \notin First => busy[t] = "none")'  BY <1>16
    <3>3. (Len(queue[t]) + ran[t] + Running(t) = posted[t] + QuitsIn(t))'
      BY <2>2, <2>4, <1>1, <1>16
    <3> QED BY <1>5, <3>1, <3>2, <3>3 DEF Queued
  <2> QED BY <1>7, <1>8, <1>10, <1>11, <2>3, <2>5 DEF Inv
<1>17. CASE /\ task \in Tasks
            /\ ran' = [ran EXCEPT ![t] = @ + 1]
            /\ UNCHANGED <<quitting, busy>>
  <2>1. ran'[t] = ran[t] + 1 /\ task # "quit"  BY <1>3, <1>6, <1>17
  <2>2. QuitsIn(t)' = QuitsIn(t) /\ Running(t)' = 0
    BY <1>12, <1>17, <1>1 DEF QuitsIn, Running
  <2>3. Life(t)'  BY <1>1, <1>4, <1>12, <1>13, <1>17 DEF Life
  <2>4. m + (ran[t] + 1) + 0 = posted[t] + QuitsIn(t)
    <3>1. QuitsIn(t) \in Nat  BY DEF QuitsIn
    <3> HIDE DEF l, m
    <3> QED BY <3>1, <1>14
  <2>5. Queued(t)'
    <3>1. (HasQuit(queue[t]) <=> Told(t) /\ quitting[t] = "no")'
      BY <1>4, <1>5, <1>12, <1>17, <2>1 DEF Queued
    <3>2. (t \notin First => busy[t] = "none")'  BY <1>1, <1>17
    <3>3. (Len(queue[t]) + ran[t] + Running(t) = posted[t] + QuitsIn(t))'
      BY <2>1, <2>2, <2>4, <1>1
    <3> QED BY <1>5, <3>1, <3>2, <3>3 DEF Queued
  <2> QED BY <1>7, <1>8, <1>10, <1>11, <2>3, <2>5 DEF Inv
<1> QED BY <1>2, <1>15, <1>16, <1>17

LEMMA PostSuccessorInv == ASSUME Inv, NEW t \in ID, PostSuccessor(t) PROVE Inv'
<1>1. /\ busy[t] # "none" /\ PostTask({Successor(t)}, busy[t])
      /\ busy' = [busy EXCEPT ![t] = "none"]
      /\ ran' = [ran EXCEPT ![t] = @ + 1]
      /\ UNCHANGED <<ui, at, lock, exists, live, quitting, recording>>
  BY DEF PostSuccessor
<1>2. /\ queue \in [ID -> Seq(Messages)] /\ quitting \in [ID -> {"no", "asked", "idle"}]
      /\ busy \in [ID -> Tasks \union {"none"}] /\ ran \in [ID -> Nat] /\ posted \in [ID -> Nat]
  BY DEF Inv, Types
<1>3. t \in First /\ busy[t] \in Tasks  BY <1>1, <1>2 DEF Inv, Queued
<1> DEFINE s == Successor(t)
<1>4. s \in ID /\ s = t + 2 /\ s # t /\ s \notin First /\ {s} \in SUBSET ID
  BY <1>3, IdFacts
<1>5. lock = "free"
  BY <1>1, <1>3, <1>4, PostTaskFacts
<1>6. \A u \in ID : ~Told(u) /\ exists[u] /\ quitting[u] = "no" /\ live[u]
  BY <1>1, <1>5, LockFree
<1>7. /\ \A u \in ID : /\ queue'[u] = IF u = s THEN Append(queue[u], busy[t]) ELSE queue[u]
                       /\ posted'[u] = IF u = s THEN posted[u] + 1 ELSE posted[u]
      /\ queue' \in [ID -> Seq(Messages)] /\ posted' \in [ID -> Nat]
      /\ rejected' \in BOOLEAN
  <2>1. ASSUME NEW u \in ID
        PROVE  /\ queue'[u] = IF u = s THEN Append(queue[u], busy[t]) ELSE queue[u]
               /\ posted'[u] = IF u = s THEN posted[u] + 1 ELSE posted[u]
    BY <1>1, <1>3, <1>4, <1>6, PostTaskFacts
  <2>2. /\ queue' \in [ID -> Seq(Messages)] /\ posted' \in [ID -> Nat]
        /\ rejected' \in BOOLEAN
    BY <1>1, <1>3, <1>4, PostTaskFacts
  <2> QED BY <2>1, <2>2
<1> HIDE DEF s
<1>8. /\ busy'[t] = "none" /\ ran'[t] = ran[t] + 1
      /\ \A u \in ID \ {t} : busy'[u] = busy[u] /\ ran'[u] = ran[u]
      /\ busy' \in [ID -> Tasks \union {"none"}] /\ ran' \in [ID -> Nat]
  BY <1>1, <1>2
<1>9. Types'
  <2>1. Types  BY DEF Inv
  <2>2. /\ ui' \in {"loop", "shutdown", "joining", "down", "destroyed"}
        /\ at' \in ID /\ lock' \in {"free", "ui"} /\ recording' \in BOOLEAN
        /\ quitting' \in [ID -> {"no", "asked", "idle"}]
    BY <1>1, <2>1 DEF Types
  <2>3. exists' \in [ID -> BOOLEAN] /\ live' \in [ID -> BOOLEAN]
    BY <1>1, <2>1 DEF Types
  <2> QED BY <1>7, <1>8, <2>2, <2>3 DEF Types
<1>10. Phase'  BY <1>1 DEF Inv, Phase
<1>11. Sides'
  <2>1. Sides  BY DEF Inv
  <2>2. \A u \in 0..4 : posted[u] \in Nat /\ ran[u] \in Nat
    BY <1>2, IdFacts
  <2>3. CASE t = 0
    <3>1. /\ posted'[0] = posted[0] /\ posted'[1] = posted[1]
          /\ posted'[2] = posted[2] + 1 /\ posted'[3] = posted[3]
          /\ posted'[4] = posted[4] /\ ran'[0] = ran[0] + 1 /\ ran'[1] = ran[1]
      <4>1. s = 2  BY <1>4, <2>3
      <4>2. \A u \in 0..4 : /\ posted'[u] = IF u = 2 THEN posted[u] + 1 ELSE posted[u]
                            /\ ran'[u] = IF u = 0 THEN ran[u] + 1 ELSE ran[u]
        BY <1>7, <1>8, <4>1, <2>3, IdFacts
      <4> QED BY <4>2
    <3> QED BY <2>1, <2>2, <3>1, IdFacts DEF Sides
  <2>4. CASE t = 1
    <3>1. /\ posted'[0] = posted[0] /\ posted'[1] = posted[1]
          /\ posted'[2] = posted[2] /\ posted'[3] = posted[3] + 1
          /\ posted'[4] = posted[4] /\ ran'[0] = ran[0] /\ ran'[1] = ran[1] + 1
      <4>1. s = 3  BY <1>4, <2>4
      <4>2. \A u \in 0..4 : /\ posted'[u] = IF u = 3 THEN posted[u] + 1 ELSE posted[u]
                            /\ ran'[u] = IF u = 1 THEN ran[u] + 1 ELSE ran[u]
        BY <1>7, <1>8, <4>1, <2>4, IdFacts
      <4> QED BY <4>2
    <3> QED BY <2>1, <2>2, <3>1, IdFacts DEF Sides
  <2> QED BY <1>3, <2>3, <2>4, IdFacts
<1>12. ASSUME NEW u \in ID PROVE Life(u)' /\ Queued(u)'
  <2>1. Life(u) /\ Queued(u)  BY DEF Inv
  <2>2. (Told(u)' <=> Told(u)) /\ (Gone(u)' <=> Gone(u)) /\ QuitsIn(u)' = 0 /\ QuitsIn(u) = 0
    BY <1>1, <1>6 DEF Told, Gone, QuitsIn
  <2>3. Life(u)'  BY <1>1, <1>6, <2>1, <2>2 DEF Life
  <2>4. /\ queue[u] \in Seq(Messages) /\ Len(queue[u]) \in Nat
        /\ posted[u] \in Nat /\ ran[u] \in Nat
    BY <1>2
  <2>5. Len(queue[u]) + ran[u] + Running(u) = posted[u] + 0
    BY <2>1, <2>2 DEF Queued
  <2>6. HasQuit(queue[u]) = FALSE /\ OneQuit(queue[u])
    BY <2>1, <1>6 DEF Queued
  <2> DEFINE l == Len(queue[u])
             m == Len(queue'[u])
  <2>7. CASE u = s
    <3>1. queue'[u] = Append(queue[u], busy[t]) /\ posted'[u] = posted[u] + 1
      BY <1>7, <2>7
    <3>2. m = l + 1 /\ ~HasQuit(queue'[u]) /\ OneQuit(queue'[u])
      BY <3>1, <2>4, <2>6, <1>3, AppendTask
    <3>3. busy'[u] = busy[u] /\ ran'[u] = ran[u] /\ busy[u] = "none" /\ u \notin First
      BY <1>4, <1>8, <2>1, <2>7 DEF Queued
    <3>4. Running(u) = 0 /\ Running(u)' = 0  BY <3>3 DEF Running
    <3>5. l + ran[u] + 0 = posted[u] + 0 /\ l \in Nat  BY <2>4, <2>5, <3>4
    <3>6. m + ran[u] + 0 = (posted[u] + 1) + 0
      <4> HIDE DEF l, m
      <4> QED BY <3>2, <3>5, <2>4
    <3>7. (Len(queue[u]) + ran[u] + Running(u) = posted[u] + QuitsIn(u))'
      BY <3>1, <3>3, <3>4, <3>6, <2>2
    <3>8. (HasQuit(queue[u]) <=> Told(u) /\ quitting[u] = "no")'
      BY <3>2, <2>2, <1>6
    <3> QED BY <2>3, <3>2, <3>3, <3>7, <3>8 DEF Queued
  <2>8. CASE u = t
    <3>1. queue'[u] = queue[u] /\ posted'[u] = posted[u]  BY <1>4, <1>7, <2>8
    <3>2. busy'[u] = "none" /\ ran'[u] = ran[u] + 1  BY <1>8, <2>8
    <3>3. Running(u) = 1 /\ Running(u)' = 0  BY <1>1, <3>2, <2>8 DEF Running
    <3>4. l + ran[u] + 1 = posted[u] + 0 /\ l \in Nat  BY <2>4, <2>5, <3>3
    <3>5. l + (ran[u] + 1) + 0 = posted[u] + 0
      <4> HIDE DEF l
      <4> QED BY <3>4, <2>4
    <3>6. (Len(queue[u]) + ran[u] + Running(u) = posted[u] + QuitsIn(u))'
      BY <3>1, <3>2, <3>3, <3>5, <2>2
    <3>7. (HasQuit(queue[u]) <=> Told(u) /\ quitting[u] = "no")'
      BY <3>1, <2>2, <2>6, <1>6
    <3> QED BY <2>3, <2>6, <3>1, <3>2, <3>6, <3>7 DEF Queued
  <2>9. CASE u # s /\ u # t
    <3>1. queue'[u] = queue[u] /\ posted'[u] = posted[u]  BY <1>7, <2>9
    <3>2. busy'[u] = busy[u] /\ ran'[u] = ran[u]  BY <1>8, <2>9
    <3>3. UNCHANGED <<ui, at>> /\ quitting'[u] = quitting[u]
          /\ exists'[u] = exists[u] /\ live'[u] = live[u]
      BY <1>1
    <3> QED BY <3>1, <3>2, <3>3, <2>1, Untouched
  <2> QED BY <2>7, <2>8, <2>9
<1> QED BY <1>9, <1>10, <1>11, <1>12 DEF Inv

LEMMA IdleInv == ASSUME Inv, NEW t \in ID, Idle(t) PROVE Inv'
<1>1. /\ live[t] /\ quitting[t] = "asked" /\ busy[t] = "none" /\ queue[t] = <<>>
      /\ quitting' = [quitting EXCEPT ![t] = "idle"]
      /\ UNCHANGED <<ui, at, lock, exists, live, queue, busy, recording, rejected,
                     posted, ran>>
  BY DEF Idle
<1>2. quitting \in [ID -> {"no", "asked", "idle"}]  BY DEF Inv, Types
<1>3. Types'
  <2>1. quitting' \in [ID -> {"no", "asked", "idle"}]  BY <1>1, <1>2
  <2> QED BY <1>1, <2>1 DEF Inv, Types
<1>4. Phase' /\ Sides'  BY <1>1 DEF Inv, Phase, Sides
<1>5. ASSUME NEW u \in ID, u # t PROVE Life(u)' /\ Queued(u)'
  <2>1. quitting'[u] = quitting[u]  BY <1>1, <1>2, <1>5
  <2> QED BY <1>1, <2>1, Untouched DEF Inv
<1>6. quitting'[t] = "idle"  BY <1>1, <1>2
<1>7. (Told(t)' <=> Told(t)) /\ (Gone(t)' <=> Gone(t))  BY <1>1 DEF Told, Gone
<1>8. Life(t)'  BY <1>1, <1>6, <1>7 DEF Inv, Life
<1>9. QuitsIn(t) = 0 /\ QuitsIn(t)' = 0 /\ Running(t)' = Running(t)
  BY <1>1, <1>6 DEF QuitsIn, Running
<1>10. Queued(t)'  BY <1>1, <1>6, <1>7, <1>9 DEF Inv, Queued
<1> QED BY <1>3, <1>4, <1>5, <1>8, <1>10 DEF Inv

LEMMA ExitInv == ASSUME Inv, NEW t \in ID, Exit(t) PROVE Inv'
<1>1. /\ live[t] /\ quitting[t] = "idle"
      /\ live' = [live EXCEPT ![t] = FALSE]
      /\ UNCHANGED <<ui, at, lock, exists, quitting, queue, busy, recording,
                     rejected, posted, ran>>
  BY DEF Exit
<1>2. live \in [ID -> BOOLEAN]  BY DEF Inv, Types
<1>3. Types'
  <2>1. live' \in [ID -> BOOLEAN]  BY <1>1, <1>2
  <2> QED BY <1>1, <2>1 DEF Inv, Types
<1>4. Phase' /\ Sides'  BY <1>1 DEF Inv, Phase, Sides
<1>5. ASSUME NEW u \in ID PROVE Life(u)' /\ Queued(u)'
  <2>1. (Told(u)' <=> Told(u)) /\ (Gone(u)' <=> Gone(u))  BY <1>1 DEF Told, Gone
  <2>2. QuitsIn(u)' = QuitsIn(u) /\ Running(u)' = Running(u)
    BY <1>1, <2>1 DEF QuitsIn, Running
  <2>3. Queued(u)'  BY <1>1, <2>1, <2>2 DEF Inv, Queued
  <2>4. live'[u] <=> live[u] /\ u # t  BY <1>1, <1>2
  <2>5. Life(u)'  BY <1>1, <2>1, <2>4 DEF Inv, Life
  <2> QED BY <2>3, <2>5
<1> QED BY <1>3, <1>4, <1>5 DEF Inv

-----------------------------------------------------------------------------
LEMMA InitInv == Init => Inv
<1> SUFFICES ASSUME Init PROVE Inv
  OBVIOUS
<1>1. Types
  <2>1. queue \in [ID -> Seq(Messages)]
    <3>1. queue = [t \in ID |-> <<>>]  BY DEF Init
    <3> QED BY <3>1, EmptyQueue
  <2>2. at \in ID  BY IdFacts DEF Init
  <2>3. exists \in [ID -> BOOLEAN] /\ live \in [ID -> BOOLEAN]  BY DEF Init
  <2>4. /\ quitting \in [ID -> {"no", "asked", "idle"}]
        /\ busy \in [ID -> Tasks \union {"none"}]
        /\ posted \in [ID -> Nat] /\ ran \in [ID -> Nat]
    BY DEF Init
  <2> QED BY <2>1, <2>2, <2>3, <2>4 DEF Init, Types
<1>2. Phase  BY IdFacts DEF Init, Phase
<1>3. Sides  BY IdFacts, ThreadManagerAssumption DEF Init, Sides
<1>4. ASSUME NEW t \in ID PROVE Life(t) /\ Queued(t)
  <2>1. ~Told(t) /\ ~Gone(t)  BY IdFacts DEF Init, Told, Gone
  <2>2. queue[t] = <<>> /\ quitting[t] = "no" /\ busy[t] = "none"
        /\ posted[t] = 0 /\ ran[t] = 0 /\ exists[t] /\ live[t]
    BY DEF Init
  <2>3. Life(t)  BY <2>1, <2>2 DEF Life
  <2>4. QuitsIn(t) = 0 /\ Running(t) = 0  BY <2>1, <2>2 DEF QuitsIn, Running
  <2>5. Queued(t)  BY <2>1, <2>2, <2>4, EmptyQueue DEF Queued
  <2> QED BY <2>3, <2>5
<1> QED BY <1>1, <1>2, <1>3, <1>4 DEF Inv

LEMMA NextInv == Inv /\ [Next]_vars => Inv'
<1> SUFFICES ASSUME Inv, [Next]_vars PROVE Inv'
  OBVIOUS
<1>1. CASE UNCHANGED vars
  <2>1. UNCHANGED <<ui, at, lock, exists, live, quitting, queue, busy, recording,
                    rejected, posted, ran>>
    BY <1>1 DEF vars
  <2>2. Types' /\ Phase' /\ Sides'  BY <2>1 DEF Inv, Types, Phase, Sides
  <2>3. \A t \in ID : Life(t)' /\ Queued(t)'  BY <2>1, Untouched DEF Inv
  <2> QED BY <2>2, <2>3 DEF Inv
<1>2. CASE RecordFrame
  <2>1. /\ ui = "loop" /\ posted[FILE1] + 1 < MaxTasks
        /\ PostTask(First, "frame")
        /\ UNCHANGED <<ui, at, lock, exists, live, quitting, busy, recording, ran>>
    BY <1>2 DEF RecordFrame
  <2>2. "frame" \in Tasks /\ recording' \in BOOLEAN
    BY <2>1 DEF Tasks, Inv, Types
  <2>3. posted[FILE1] < MaxTasks
    <3>1. posted[FILE1] \in Nat /\ MaxTasks \in Nat
      BY IdFacts, ThreadManagerAssumption DEF Inv, Types
    <3> QED BY <3>1, <2>1
  <2> QED BY <2>1, <2>2, <2>3, PostFirstInv
<1>3. CASE StopRecording
  <2>1. /\ ui = "loop" /\ posted[FILE1] < MaxTasks
        /\ PostTask(First, "closure") /\ recording' = FALSE
        /\ UNCHANGED <<ui, at, lock, exists, live, quitting, busy, ran>>
    BY <1>3 DEF StopRecording
  <2>2. "closure" \in Tasks  BY DEF Tasks
  <2>3. posted[FILE1] < MaxTasks /\ recording' \in BOOLEAN  BY <2>1
  <2> QED BY <2>1, <2>2, <2>3, PostFirstInv
<1>4. CASE \E t \in ID : RunTask(t) \/ PostSuccessor(t) \/ Idle(t) \/ Exit(t)
  BY <1>4, RunTaskInv, PostSuccessorInv, IdleInv, ExitInv
<1>5. CASE Finished  BY <1>1, <1>5 DEF Finished
<1> QED BY <1>1, <1>2, <1>3, <1>4, <1>5, StartRecordingInv, UiEnterShutdownInv,
           UiStopSoonInv, UiJoinInv, UiDestroyWindowsInv DEF Next

THEOREM InvTheorem == Spec => []Inv
BY InitInv, NextInv, PTL DEF Spec

\* No task that PostTask accepted is lost when its thread ends: what Queued
\* counts is nothing once the queue is empty and the quit task was run.
THEOREM EveryTaskRunTheorem == Spec => []EveryTaskRun
<1>1. Inv => EveryTaskRun
  <2> SUFFICES ASSUME Inv, NEW t \in ID, ~live[t] PROVE ran[t] = posted[t]
    BY DEF EveryTaskRun
  <2>1. Life(t) /\ Queued(t) /\ ran[t] \in Nat /\ posted[t] \in Nat
    BY DEF Inv, Types
  <2>2. quitting[t] = "idle" /\ queue[t] = <<>> /\ busy[t] = "none"
    BY <2>1 DEF Life
  <2>3. QuitsIn(t) = 0 /\ Running(t) = 0 /\ Len(queue[t]) = 0
    BY <2>2, EmptyQueue DEF QuitsIn, Running
  <2> QED BY <2>1, <2>3 DEF Queued
<1> QED BY <1>1, InvTheorem, PTL

\* A file task that finds the lock free finds the thread of its successor.
THEOREM SuccessorThereTheorem == Spec => []SuccessorThere
<1>1. Inv => SuccessorThere
  <2> SUFFICES ASSUME Inv, NEW t \in First, busy[t] # "none", lock = "free"
               PROVE  exists[Successor(t)]
    BY DEF SuccessorThere
  <2>1. t \in ID /\ Successor(t) \in ID  BY IdFacts
  <2> QED BY <2>1, LockFree
<1> QED BY <1>1, InvTheorem, PTL

\* Types and bounds: what a file thread has run it was given, and what it
\* passed on it has run.
THEOREM TypeTheorem == Spec => []TypeOK
<1>1. Inv => TypeOK
  <2> SUFFICES ASSUME Inv PROVE TypeOK
    OBVIOUS
  <2>1. \A t \in ID : ToSet(queue[t]) \subseteq Messages
    <3> SUFFICES ASSUME NEW t \in ID, NEW i \in DOMAIN queue[t]
                 PROVE  queue[t][i] \in Messages
      BY DEF ToSet
    <3>1. queue[t] \in Seq(Messages)  BY DEF Inv, Types
    <3> QED BY <3>1
  <2>2. ASSUME NEW t \in ID PROVE ran[t] <= posted[t] /\ ran[t] \in Nat /\ posted[t] \in Nat
    <3>1. /\ ran[t] \in Nat /\ posted[t] \in Nat /\ queue[t] \in Seq(Messages)
          /\ Queued(t)
      BY DEF Inv, Types
    <3> DEFINE l == Len(queue[t])
               r == Running(t)
               q == QuitsIn(t)
    <3>2. /\ l + ran[t] + r = posted[t] + q /\ l \in Nat /\ r \in {0, 1} /\ q \in {0, 1}
      BY <3>1 DEF Queued, Running, QuitsIn
    <3>3. q = 1 => l # 0
      <4>1. q = 1 => HasQuit(queue[t])  BY <3>1 DEF Queued, QuitsIn
      <4>2. l = 0 => queue[t] = <<>>  BY <3>1
      <4> QED BY <4>1, <4>2, EmptyQueue
    <3> HIDE DEF l, r, q
    <3> QED BY <3>1, <3>2, <3>3
  <2>3. \A t \in ID : posted[t] <= MaxTasks
    <3>1. \A t \in 0..4 : ran[t] <= posted[t] /\ ran[t] \in Nat /\ posted[t] \in Nat
      BY <2>2, IdFacts
    <3> QED BY <3>1, IdFacts, ThreadManagerAssumption DEF Inv, Sides
  <2>4. \A t \in ID : posted[t] \in 0..MaxTasks /\ ran[t] \in 0..MaxTasks
    BY <2>2, <2>3, ThreadManagerAssumption
  <2>5. posted \in [ID -> 0..MaxTasks] /\ ran \in [ID -> 0..MaxTasks]
    BY <2>4 DEF Inv, Types
  <2> QED BY <2>1, <2>5 DEF Inv, Types, TypeOK, Messages
<1> QED BY <1>1, InvTheorem, PTL

-----------------------------------------------------------------------------
(***************************************************************************)
(* The end of the program: what the two outcomes of Shuttingdown rest on.  *)
(***************************************************************************)
\* The thread that is joined has its quit task before it, or has run it.
THEOREM JoinedTheorem == Spec => []JoinedThreadGoesOn
<1>1. Inv => JoinedThreadGoesOn
  <2> SUFFICES ASSUME Inv, ui = "joining", live[at], ~Deadlocked PROVE CanGoOn(at)
    BY DEF JoinedThreadGoesOn
  <2>1. at \in ID /\ lock = "ui" /\ quitting[at] \in {"no", "asked", "idle"}
    BY DEF Inv, Types, Phase
  <2>2. busy[at] = "none"  BY <2>1 DEF Deadlocked
  <2>3. Queued(at) /\ Told(at)  BY <2>1 DEF Inv, Told
  <2>4. quitting[at] = "no" => queue[at] # <<>>
    BY <2>3, EmptyQueue DEF Queued
  <2> QED BY <2>1, <2>2, <2>4 DEF CanGoOn
<1> QED BY <1>1, InvTheorem, PTL

\* What is left to do is a number.
LEMMA StepsFacts ==
  ASSUME Types
  PROVE  /\ \A t \in ID : StepsOf(t) \in Nat /\ Len(queue[t]) \in Nat
         /\ at \in 0..4
         /\ ui = "shutdown" => StepsOfUi = 4 * at + 5
         /\ ui = "joining" => StepsOfUi = 4 * at + 2
         /\ ui = "down" => StepsOfUi = 4 * at + 1
         /\ ui = "destroyed" => StepsOfUi = 4 * at
<1>1. at \in 0..4  BY IdFacts DEF Types
<1>2. ASSUME NEW t \in ID PROVE StepsOf(t) \in Nat /\ Len(queue[t]) \in Nat
  <2>1. queue[t] \in Seq(Messages)  BY DEF Types
  <2>2. Len(queue[t]) \in Nat  BY <2>1
  <2>3. TaskSteps(t) \in Nat /\ ExitSteps(t) \in Nat  BY DEF TaskSteps, ExitSteps
  <2> QED BY <2>2, <2>3 DEF StepsOf
<1> QED BY <1>1, <1>2 DEF StepsOfUi

\* One thread has less to do and the others as much as before.
LEMMA ThreadAdvances ==
  ASSUME Types, Types', NEW t \in ID, ui # "loop", UNCHANGED <<ui, at>>,
         \A u \in ID \ {t} : UNCHANGED <<queue[u], busy[u], live[u], quitting[u]>>,
         StepsOf(t)' < StepsOf(t)
  PROVE  StepsLeft' < StepsLeft
<1> DEFINE w(u) == StepsOf(u)
<1>1. \A u \in ID \ {t} : w(u)' = w(u)  BY DEF StepsOf, TaskSteps, ExitSteps
<1>2. \A u \in 0..4 : w(u) \in Nat
  BY StepsFacts, IdFacts
<1>3. \A u \in 0..4 : w(u)' \in Nat
  <2>1. ASSUME NEW u \in ID PROVE w(u)' \in Nat
    <3>1. queue'[u] \in Seq(Messages)  BY DEF Types
    <3>2. Len(queue'[u]) \in Nat  BY <3>1
    <3>3. TaskSteps(u)' \in Nat /\ ExitSteps(u)' \in Nat  BY DEF TaskSteps, ExitSteps
    <3> QED BY <3>2, <3>3 DEF StepsOf
  <2> QED BY <2>1, IdFacts
<1>4. StepsOfUi' = StepsOfUi /\ StepsOfUi \in Nat
  <2>1. ui \in {"shutdown", "joining", "down", "destroyed"}  BY DEF Types
  <2> QED BY <2>1, StepsFacts DEF StepsOfUi
<1>5. /\ StepsLeft = StepsOfUi + w(0) + w(1) + w(2) + w(3) + w(4)
      /\ StepsLeft' = StepsOfUi + w(0)' + w(1)' + w(2)' + w(3)' + w(4)'
  BY <1>4, IdFacts DEF StepsLeft
<1>6. t \in 0..4 /\ \A u \in 0..4 : u # t => w(u)' = w(u)  BY <1>1, IdFacts
<1> DEFINE a == w(0)  b == w(1)  c == w(2)  d == w(3)  e == w(4)
           aa == w(0)'  bb == w(1)'  cc == w(2)'  dd == w(3)'  ee == w(4)'
<1>7. /\ a \in Nat /\ b \in Nat /\ c \in Nat /\ d \in Nat /\ e \in Nat
      /\ aa \in Nat /\ bb \in Nat /\ cc \in Nat /\ dd \in Nat /\ ee \in Nat
  BY <1>2, <1>3
<1>8. \/ aa < a /\ bb = b /\ cc = c /\ dd = d /\ ee = e
      \/ aa = a /\ bb < b /\ cc = c /\ dd = d /\ ee = e
      \/ aa = a /\ bb = b /\ cc < c /\ dd = d /\ ee = e
      \/ aa = a /\ bb = b /\ cc = c /\ dd < d /\ ee = e
      \/ aa = a /\ bb = b /\ cc = c /\ dd = d /\ ee < e
  <2> HIDE DEF w
  <2>1. w(t)' < w(t)  BY DEF w
  <2>2. t = 0 \/ t = 1 \/ t = 2 \/ t = 3 \/ t = 4  BY <1>6
  <2> QED BY <2>1, <2>2, <1>6
<1> HIDE DEF a, b, c, d, e, aa, bb, cc, dd, ee
<1>9. StepsOfUi + aa + bb + cc + dd + ee < StepsOfUi + a + b + c + d + e
  BY <1>4, <1>7, <1>8
<1> QED BY <1>5, <1>9 DEF a, b, c, d, e, aa, bb, cc, dd, ee

\* The loop of Shuttingdown goes on, at the price of at most one quit task.
LEMMA UiAdvances ==
  ASSUME Types, Types', NEW t \in ID, NEW k \in {0, 2},
         \A u \in ID \ {t} : StepsOf(u)' = StepsOf(u),
         StepsOf(t)' = StepsOf(t) + k,
         StepsOfUi \in Int, StepsOfUi' \in Int, StepsOfUi' + k < StepsOfUi
  PROVE  StepsLeft' < StepsLeft
<1> DEFINE w(u) == StepsOf(u)
<1>2. \A u \in 0..4 : w(u) \in Nat
  BY StepsFacts, IdFacts
<1>3. t \in 0..4 /\ w(t)' = w(t) + k /\ \A u \in 0..4 : u # t => w(u)' = w(u)
  BY IdFacts
<1>4. /\ StepsLeft = StepsOfUi + w(0) + w(1) + w(2) + w(3) + w(4)
      /\ StepsLeft' = StepsOfUi' + w(0)' + w(1)' + w(2)' + w(3)' + w(4)'
  BY IdFacts DEF StepsLeft
<1> DEFINE a == w(0)  b == w(1)  c == w(2)  d == w(3)  e == w(4)
           aa == w(0)'  bb == w(1)'  cc == w(2)'  dd == w(3)'  ee == w(4)'
           x == StepsOfUi  xx == StepsOfUi'
<1>5. a \in Nat /\ b \in Nat /\ c \in Nat /\ d \in Nat /\ e \in Nat
  BY <1>2
<1>6. \/ aa = a + k /\ bb = b /\ cc = c /\ dd = d /\ ee = e
      \/ aa = a /\ bb = b + k /\ cc = c /\ dd = d /\ ee = e
      \/ aa = a /\ bb = b /\ cc = c + k /\ dd = d /\ ee = e
      \/ aa = a /\ bb = b /\ cc = c /\ dd = d + k /\ ee = e
      \/ aa = a /\ bb = b /\ cc = c /\ dd = d /\ ee = e + k
  <2> HIDE DEF w
  <2>1. t = 0 \/ t = 1 \/ t = 2 \/ t = 3 \/ t = 4  BY <1>3
  <2> QED BY <2>1, <1>3
<1>7. x \in Int /\ xx \in Int /\ xx + k < x  OBVIOUS
<1> HIDE DEF a, b, c, d, e, aa, bb, cc, dd, ee, x, xx
<1>8. xx + aa + bb + cc + dd + ee < x + a + b + c + d + e
  BY <1>5, <1>6, <1>7
<1> QED BY <1>4, <1>8 DEF a, b, c, d, e, aa, bb, cc, dd, ee, x, xx

(***************************************************************************)
(* Shuttingdown: with the lock held no task is passed on, so every step    *)
(* uses up some of what is left.                                           *)
(***************************************************************************)
THEOREM AdvanceTheorem == Spec => ShutdownAdvances
<1>1. ASSUME Inv, Inv', [Next]_vars, ui # "loop"
      PROVE  StepsLeft' < StepsLeft \/ UNCHANGED vars
  <2> USE <1>1
  <2>0. Types /\ Types' /\ Phase /\ \A t \in ID : Life(t) /\ Queued(t)
    BY DEF Inv
  <2>1. ASSUME NEW t \in ID, RunTask(t) PROVE StepsLeft' < StepsLeft
    <3>1. /\ live[t] /\ quitting[t] # "idle" /\ busy[t] = "none" /\ queue[t] # <<>>
          /\ queue' = [queue EXCEPT ![t] = Tail(@)]
          /\ UNCHANGED <<ui, at, live>>
          /\ \/ quitting' = [quitting EXCEPT ![t] = "asked"] /\ busy' = busy
             \/ (\E x \in Tasks : busy' = [busy EXCEPT ![t] = x]) /\ quitting' = quitting
             \/ quitting' = quitting /\ busy' = busy
      BY <2>1 DEF RunTask
    <3>2. /\ queue \in [ID -> Seq(Messages)] /\ DOMAIN busy = ID
          /\ DOMAIN quitting = ID /\ queue[t] \in Seq(Messages)
      BY <2>0 DEF Types
    <3>3. /\ queue'[t] = Tail(queue[t]) /\ live'[t] /\ quitting'[t] # "idle"
          /\ Len(Tail(queue[t])) = Len(queue[t]) - 1 /\ Len(queue[t]) \in Nat
      BY <3>1, <3>2
    <3>4. \A u \in ID \ {t} : UNCHANGED <<queue[u], busy[u], live[u], quitting[u]>>
      BY <3>1, <3>2
    <3>5. StepsOf(t)' < StepsOf(t)
      <4>1. TaskSteps(t) = 0 /\ TaskSteps(t)' \in {0, 1}  BY <3>1 DEF TaskSteps
      <4>2. ExitSteps(t) = 2 /\ ExitSteps(t)' = 2  BY <3>1, <3>3 DEF ExitSteps
      <4>3. Len(queue'[t]) = Len(queue[t]) - 1  BY <3>3
      <4> QED BY <3>3, <4>1, <4>2, <4>3 DEF StepsOf
    <3> QED BY <2>0, <3>1, <3>4, <3>5, ThreadAdvances
  <2>2. ASSUME NEW t \in ID, PostSuccessor(t) PROVE FALSE
    <3>1. lock = "free" /\ busy[t] # "none"  BY <2>2 DEF PostSuccessor, PostTask
    <3> QED BY <3>1, LockFree
  <2>3. ASSUME NEW t \in ID, Idle(t) PROVE StepsLeft' < StepsLeft
    <3>1. /\ live[t] /\ quitting[t] = "asked" /\ busy[t] = "none" /\ queue[t] = <<>>
          /\ quitting' = [quitting EXCEPT ![t] = "idle"]
          /\ UNCHANGED <<ui, at, live, queue, busy>>
      BY <2>3 DEF Idle
    <3>2. DOMAIN quitting = ID  BY <2>0 DEF Types
    <3>3. \A u \in ID \ {t} : UNCHANGED <<queue[u], busy[u], live[u], quitting[u]>>
      BY <3>1, <3>2
    <3>4. StepsOf(t)' < StepsOf(t)
      <4>1. TaskSteps(t) = 0 /\ TaskSteps(t)' = 0  BY <3>1 DEF TaskSteps
      <4>2. ExitSteps(t) = 2 /\ ExitSteps(t)' = 1  BY <3>1, <3>2 DEF ExitSteps
      <4>3. Len(queue'[t]) = Len(queue[t]) /\ Len(queue[t]) \in Nat
        BY <3>1, <2>0, StepsFacts
      <4> QED BY <4>1, <4>2, <4>3 DEF StepsOf
    <3> QED BY <2>0, <3>1, <3>3, <3>4, ThreadAdvances
  <2>4. ASSUME NEW t \in ID, Exit(t) PROVE StepsLeft' < StepsLeft
    <3>1. /\ live[t] /\ quitting[t] = "idle" /\ live' = [live EXCEPT ![t] = FALSE]
          /\ UNCHANGED <<ui, at, quitting, queue, busy>>
      BY <2>4 DEF Exit
    <3>2. DOMAIN live = ID  BY <2>0 DEF Types
    <3>3. \A u \in ID \ {t} : UNCHANGED <<queue[u], busy[u], live[u], quitting[u]>>
      BY <3>1, <3>2
    <3>4. StepsOf(t)' < StepsOf(t)
      <4>1. TaskSteps(t) \in {0, 1} /\ TaskSteps(t)' = TaskSteps(t)
        BY <3>1 DEF TaskSteps
      <4>2. ExitSteps(t) = 1 /\ ExitSteps(t)' = 0  BY <3>1, <3>2 DEF ExitSteps
      <4>3. Len(queue'[t]) = Len(queue[t]) /\ Len(queue[t]) \in Nat
        BY <3>1, <2>0, StepsFacts
      <4> QED BY <4>1, <4>2, <4>3 DEF StepsOf
    <3> QED BY <2>0, <3>1, <3>3, <3>4, ThreadAdvances
  <2>5. CASE UiStopSoon
    <3>1. /\ ui = "shutdown" /\ ui' = "joining"
          /\ queue' = [queue EXCEPT ![at] = Append(@, "quit")]
          /\ UNCHANGED <<at, live, quitting, busy>>
      BY <2>5 DEF UiStopSoon
    <3>2. at \in ID /\ queue \in [ID -> Seq(Messages)]  BY <2>0 DEF Types
    <3>3. queue[at] \in Seq(Messages) /\ "quit" \in Messages  BY <3>2 DEF Messages
    <3>4. queue'[at] = Append(queue[at], "quit") /\ Len(queue'[at]) = Len(queue[at]) + 1
      BY <3>1, <3>2, <3>3
    <3>5. \A u \in ID \ {at} : StepsOf(u)' = StepsOf(u)
      BY <3>1, <3>2 DEF StepsOf, TaskSteps, ExitSteps
    <3>6. StepsOf(at)' = StepsOf(at) + 2
      <4>1. Len(queue[at]) \in Nat  BY <3>3
      <4>2. TaskSteps(at)' = TaskSteps(at) /\ ExitSteps(at)' = ExitSteps(at)
        BY <3>1 DEF TaskSteps, ExitSteps
      <4>3. TaskSteps(at) \in Nat /\ ExitSteps(at) \in Nat  BY DEF TaskSteps, ExitSteps
      <4>4. StepsOf(at)' = 2 * Len(queue'[at]) + TaskSteps(at)' + ExitSteps(at)'
        BY <3>1 DEF StepsOf
      <4> QED BY <3>4, <4>1, <4>2, <4>3, <4>4 DEF StepsOf
    <3>7. StepsOfUi = 4 * at + 5 /\ StepsOfUi' = 4 * at + 2 /\ at \in Nat
      BY <2>0, <3>1, StepsFacts DEF StepsOfUi
    <3>8. StepsOfUi \in Int /\ StepsOfUi' \in Int /\ StepsOfUi' + 2 < StepsOfUi
      BY <3>7
    <3>9. PICK t \in ID : t = at  BY <3>2
    <3>10. StepsOf(t)' = StepsOf(t) + 2 /\ \A u \in ID \ {t} : StepsOf(u)' = StepsOf(u)
      <4>1. StepsOf(t)' = StepsOf(at)'  BY <3>1, <3>9 DEF StepsOf, TaskSteps, ExitSteps
      <4> QED BY <3>5, <3>6, <3>9, <4>1
    <3> QED BY <2>0, <3>8, <3>10, UiAdvances
  <2>6. CASE UiJoin
    <3>1. /\ ui = "joining" /\ UNCHANGED <<live, quitting, queue, busy>>
          /\ \/ at > FILE1 /\ at' = at - 1 /\ ui' = "shutdown"
             \/ at = FILE1 /\ at' = at /\ ui' = "down"
      BY <2>6 DEF UiJoin
    <3>2. \A u \in ID : StepsOf(u)' = StepsOf(u)  BY <3>1 DEF StepsOf, TaskSteps, ExitSteps
    <3>3. StepsOfUi = 4 * at + 2 /\ at \in Nat /\ at \in ID
      BY <2>0, <3>1, StepsFacts, IdFacts
    <3>4. StepsOfUi' \in Int /\ StepsOfUi' < StepsOfUi
      BY <3>1, <3>3, IdFacts DEF StepsOfUi
    <3>5. FILE1 \in ID /\ StepsOf(FILE1) \in Nat  BY <2>0, IdFacts, StepsFacts
    <3>6. /\ StepsOf(FILE1)' = StepsOf(FILE1) + 0 /\ StepsOfUi' + 0 < StepsOfUi
          /\ StepsOfUi \in Int
      <4>1. StepsOf(FILE1)' = StepsOf(FILE1)  BY <3>2, <3>5
      <4>2. StepsOfUi \in Int  BY <3>3
      <4>3. StepsOfUi' + 0 < StepsOfUi
        <5>1. \A x, y \in Int : x < y => x + 0 < y  OBVIOUS
        <5> QED BY <3>4, <4>2, <5>1
      <4> QED BY <3>5, <4>1, <4>2, <4>3
    <3> QED BY <2>0, <3>2, <3>4, <3>5, <3>6, UiAdvances
  <2>7. CASE UiDestroyWindows
    <3>1. /\ ui = "down" /\ ui' = "destroyed" /\ UNCHANGED <<at, live, quitting, busy>>
      BY <2>7 DEF UiDestroyWindows
    <3>2. lock = "free"  BY <2>0, <3>1 DEF Types, Phase
    <3>3. \A t \in ID : ~exists[t]  BY <3>1, <3>2, LockFree
    <3>4. \A t \in ID : queue'[t] = queue[t]
      <4>1. CASE recording
        <5>1. PostTask(First, "closure") /\ "closure" \in Tasks
          BY <4>1, <2>7 DEF UiDestroyWindows, Tasks
        <5> QED BY <5>1, <3>3, IdFacts, PostTaskFacts
      <4>2. CASE ~recording  BY <4>2, <2>7 DEF UiDestroyWindows
      <4> QED BY <4>1, <4>2
    <3>5. \A u \in ID : StepsOf(u)' = StepsOf(u)  BY <3>1, <3>4 DEF StepsOf, TaskSteps, ExitSteps
    <3>6. StepsOfUi = 4 * at + 1 /\ StepsOfUi' = 4 * at /\ at \in Nat /\ at \in ID
      BY <2>0, <3>1, StepsFacts, IdFacts DEF StepsOfUi
    <3>7. FILE1 \in ID /\ StepsOf(FILE1) \in Nat  BY <2>0, IdFacts, StepsFacts
    <3>8. /\ StepsOf(FILE1)' = StepsOf(FILE1) + 0 /\ StepsOfUi' + 0 < StepsOfUi
          /\ StepsOfUi \in Int /\ StepsOfUi' \in Int
      BY <3>5, <3>6, <3>7
    <3> QED BY <2>0, <3>5, <3>7, <3>8, UiAdvances
  <2>8. CASE StartRecording \/ RecordFrame \/ StopRecording \/ UiEnterShutdown
    BY <2>8 DEF StartRecording, RecordFrame, StopRecording, UiEnterShutdown
  <2>9. CASE Finished \/ UNCHANGED vars  BY <2>9 DEF Finished
  <2> QED BY <2>1, <2>2, <2>3, <2>4, <2>5, <2>6, <2>7, <2>8, <2>9 DEF Next
<1>2. Inv /\ Inv' /\ [Next]_vars => [ui # "loop" => StepsLeft' < StepsLeft]_vars
  BY <1>1
<1>3. Spec => [][Next]_vars  BY DEF Spec
<1> QED BY <1>2, <1>3, InvTheorem, PTL DEF ShutdownAdvances

(***************************************************************************)
(* The thread that is joined holds a task and waits for threads_lock_: the *)
(* UI thread waits for that thread, and only the UI thread could unlock.   *)
(***************************************************************************)
THEOREM DeadlockTheorem == Spec => DeadlockIsFinal
<1>1. ASSUME Inv, [Next]_vars, Deadlocked PROVE Deadlocked'
  <2> USE <1>1
  <2>0. /\ ui = "joining" /\ busy[at] # "none" /\ lock = "ui" /\ at \in ID
        /\ DOMAIN busy = ID
    BY DEF Deadlocked, Inv, Types
  <2>1. live[at] /\ quitting[at] # "idle"
    <3>1. Life(at)  BY <2>0 DEF Inv
    <3> QED BY <2>0, <3>1 DEF Life
  <2>2. ASSUME NEW t \in ID, RunTask(t) PROVE Deadlocked'
    <3>1. t # at  BY <2>0, <2>2 DEF RunTask
    <3>2. UNCHANGED <<ui, at, lock>>  BY <2>2 DEF RunTask
    <3>3. busy' = busy \/ \E x \in Tasks : busy' = [busy EXCEPT ![t] = x]
      BY <2>2 DEF RunTask
    <3>4. busy'[at] = busy[at]  BY <2>0, <3>1, <3>3
    <3> QED BY <2>0, <3>2, <3>4 DEF Deadlocked
  <2>3. ASSUME NEW t \in ID, PostSuccessor(t) PROVE FALSE
    BY <2>0, <2>3 DEF PostSuccessor, PostTask
  <2>4. ASSUME NEW t \in ID, Idle(t) \/ Exit(t) PROVE Deadlocked'
    BY <2>0, <2>4 DEF Idle, Exit, Deadlocked
  <2>5. CASE StartRecording \/ RecordFrame \/ StopRecording \/ UiEnterShutdown
             \/ UiStopSoon \/ UiJoin \/ UiDestroyWindows \/ Finished
    BY <2>0, <2>1, <2>5 DEF StartRecording, RecordFrame, StopRecording, UiEnterShutdown,
         UiStopSoon, UiJoin, UiDestroyWindows, Finished
  <2>6. CASE UNCHANGED vars  BY <2>0, <2>6 DEF vars, Deadlocked
  <2> QED BY <2>2, <2>3, <2>4, <2>5, <2>6 DEF Next
<1>2. Inv /\ [Next]_vars => [Deadlocked => Deadlocked']_vars
  BY <1>1
<1>3. Spec => [][Next]_vars  BY DEF Spec
<1> QED BY <1>2, <1>3, InvTheorem, PTL DEF DeadlockIsFinal
=============================================================================
