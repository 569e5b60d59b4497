---------------------------- MODULE FrameArchive -----------------------------
(***************************************************************************)
(* What recording (src/Blank/RecordWindow.cpp) promises, with no queues,   *)
(* file threads, closures or buttons in it: every frame set that is taken  *)
(* is, on each side, stored in the order of capture or lost, one or the    *)
(* other; and a window that was stopped takes nothing until it has said    *)
(* "saved", which it says only when all it took is settled.  What windows  *)
(* before it took may still be on its way then.                            *)
(***************************************************************************)
EXTENDS Naturals, Sequences

CONSTANTS
  Sides,      \* the two cameras
  Lines       \* what can be a line of an image list: [session, seq, folder]

VARIABLES
  taken,      \* the lines of the frame sets taken
  pending,    \* for each side, those that are neither stored nor lost
  stored,     \* for each side, the image list
  lost,       \* pairs of a side and a line
  phase,      \* of the window: "open", "saving" (it was stopped and has not
              \* said "saved") or "closed"
  since,      \* the recordings that are not this window's
  died        \* the process is gone

avars == <<taken, pending, stored, lost, phase, since, died>>

Precedes(a, b) == a.session < b.session \/ (a.session = b.session /\ a.seq < b.seq)

ArchiveInit ==
  /\ taken = {}
  /\ pending = [s \in Sides |-> {}]
  /\ stored = [s \in Sides |-> <<>>]
  /\ lost = {}
  /\ phase = "open"
  /\ since = 0
  /\ died = FALSE

Take(x) ==
  /\ ~died /\ phase = "open"
  /\ x.session > since
  /\ \A y \in taken : Precedes(y, x)
  /\ taken' = taken \union {x}
  /\ pending' = [s \in Sides |-> pending[s] \union {x}]
  /\ UNCHANGED <<stored, lost, phase, since, died>>

\* Nothing that was captured before x is still on its way to the list.
Store(s, x) ==
  /\ ~died
  /\ x \in pending[s]
  /\ \A y \in pending[s] \ {x} : Precedes(x, y)
  /\ stored' = [stored EXCEPT ![s] = Append(@, x)]
  /\ pending' = [pending EXCEPT ![s] = @ \ {x}]
  /\ UNCHANGED <<taken, lost, phase, since, died>>

Lose(s, x) ==
  /\ ~died
  /\ x \in pending[s]
  /\ lost' = lost \union {<<s, x>>}
  /\ pending' = [pending EXCEPT ![s] = @ \ {x}]
  /\ UNCHANGED <<taken, stored, phase, since, died>>

Stop ==
  /\ ~died
  /\ phase = "open"
  /\ phase' = "saving"
  /\ UNCHANGED <<taken, pending, stored, lost, since, died>>

\* The window says "saved".
Acknowledge ==
  /\ ~died
  /\ phase = "saving"
  /\ \A s \in Sides : \A x \in pending[s] : x.session <= since
  /\ phase' = "open"
  /\ UNCHANGED <<taken, pending, stored, lost, since, died>>

\* A window can be closed at any time; what it took is not settled by that.
Close ==
  /\ ~died
  /\ phase # "closed"
  /\ phase' = "closed"
  /\ UNCHANGED <<taken, pending, stored, lost, since, died>>

\* Another window: what was taken so far is not its own.
Reopen ==
  /\ ~died
  /\ phase = "closed"
  /\ phase' = "open"
  /\ since' \in Nat
  /\ \A x \in taken : x.session <= since'
  /\ UNCHANGED <<taken, pending, stored, lost, died>>

\* A frame without data ends the process; it is not stored.
Die ==
  /\ ~died
  /\ died' = TRUE
  /\ \A s \in Sides : pending'[s] \subseteq pending[s]
  /\ UNCHANGED <<taken, stored, lost, phase, since>>

ArchiveNext ==
  \/ \E x \in Lines : Take(x)
  \/ \E s \in Sides, x \in taken : Store(s, x) \/ Lose(s, x)
  \/ Stop \/ Acknowledge \/ Close \/ Reopen
  \/ Die

ArchiveSpec == ArchiveInit /\ [][ArchiveNext]_avars
=============================================================================
