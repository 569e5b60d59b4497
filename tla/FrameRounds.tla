----------------------------- MODULE FrameRounds -----------------------------
(***************************************************************************)
(* What the group pump (src/Blank/camera_group_pump.cc) promises to its    *)
(* delegate, with no threads, semaphore, counter or lock in it: frames are *)
(* collected in rounds.  Cameras contribute only while a round is open; a  *)
(* delivery closes the round and hands over exactly what was contributed   *)
(* to it, and that is never nothing; once the collection is over nothing   *)
(* is contributed or delivered again.                                      *)
(*                                                                         *)
(* It does NOT promise one frame of each camera per round: the code does   *)
(* not (see FullFrameSet in GroupPump).                                    *)
(***************************************************************************)
CONSTANT Cameras

VARIABLES
  phase,      \* "closed", "open" (a round is collecting) or "over"
  got,        \* the cameras that have contributed to the open round
  delivered   \* the cameras in the set handed over last

rvars == <<phase, got, delivered>>

RoundsTypeOK ==
  /\ phase \in {"closed", "open", "over"}
  /\ got \subseteq Cameras
  /\ delivered \subseteq Cameras

RoundsInit ==
  /\ phase = "closed"
  /\ got = {}
  /\ delivered = {}

\* A round starts with nothing left over from the one before.
Open ==
  /\ phase = "closed"
  /\ got = {}
  /\ phase' = "open"
  /\ delivered' = {}
  /\ UNCHANGED got

\* The same camera may contribute twice to one round: the later frame wins.
Contribute(c) ==
  /\ phase = "open"
  /\ got' = got \union {c}
  /\ UNCHANGED <<phase, delivered>>

Deliver ==
  /\ phase = "open"
  /\ got # {}
  /\ delivered' = got
  /\ got' = {}
  /\ phase' = "closed"

\* The collection ends, in the middle of a round or between two.
Finish ==
  /\ phase \in {"closed", "open"}
  /\ phase' = "over"
  /\ UNCHANGED <<got, delivered>>

RoundsNext ==
  \/ Open
  \/ \E c \in Cameras : Contribute(c)
  \/ Deliver
  \/ Finish

RoundsSpec == RoundsInit /\ [][RoundsNext]_rvars
=============================================================================
