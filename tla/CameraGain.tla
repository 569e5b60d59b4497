----------------------------- MODULE CameraGain -----------------------------
(***************************************************************************)
(* The gain of the two cameras: Paras (paras.cpp), which holds the value   *)
(* the user sees, and the UsbCamera objects (usb_camera.cpp) that observe  *)
(* it, of all the groups that live (usb_camera_group.cpp).  The exposure   *)
(* takes the same way through the same code.                               *)
(*                                                                         *)
(* A group may be created while an older one of a closing window still     *)
(* lives, on the same devices; the gain is in the device.                  *)
(***************************************************************************)
EXTENDS Integers

CONSTANTS
  Devices,      \* the index_ of the cameras that are plugged in
  CameraGroups, \* where a UsbCameraGroup may live
  Gains,        \* the values the user may choose
  DefaultGain,  \* 32, set by UsbCamera::Init
  IdOf,         \* the id that para.json gives the camera's serial number
  ConfigGain    \* and the gain, or -1

\* The id of a camera without an entry in para.json.
NoId == -1

\* Two cameras may have one id.  Ids but 0 and 1 are left out.
ASSUME GainAssumption ==
  /\ Devices \subseteq Nat
  /\ Gains \subseteq Nat /\ DefaultGain \in Gains
  /\ IdOf \in [Devices -> {NoId, 0, 1}]
  /\ ConfigGain \in [Devices -> Gains \union {-1}]

VARIABLES
  paras,        \* left_gain_ and right_gain_, by id
  gain,         \* the gain of each device
  observers,    \* observers_: the cameras of the groups
  missed        \* auxiliary: the last value meant for the device and for
                \* paras did not reach both

gainVars == <<paras, gain, observers, missed>>

GainTypeOK ==
  /\ paras \in [{0, 1} -> Gains]
  /\ gain \in [Devices -> Gains]
  /\ observers \subseteq CameraGroups \X {d \in Devices : IdOf[d] # NoId}
  /\ missed \in [Devices -> BOOLEAN]

\* No constructor sets left_gain_ and right_gain_.
GainInit ==
  /\ paras \in [{0, 1} -> Gains]
  /\ gain \in [Devices -> Gains]
  /\ observers = {}
  /\ missed = [d \in Devices |-> FALSE]

Observed(d) == \E g \in CameraGroups : <<g, d>> \in observers

-----------------------------------------------------------------------------
\* Of the cameras with one id, in the order of their indices, the last one.
Latest(S) == {d \in S : \A e \in S : IdOf[e] = IdOf[d] => e <= d}

\* UsbCameraGroup::Init: every camera that CameraInit brings up gets the
\* default gain, then SetConfig's if it has an entry, which is stored without
\* an event if the camera takes it.
Configure(found, taken) ==
  LET set    == {d \in taken : IdOf[d] # NoId /\ ConfigGain[d] >= 0}
      stored == Latest(set)
  IN /\ gain' = [d \in Devices |-> IF d \in set THEN ConfigGain[d]
                                   ELSE IF d \in found THEN DefaultGain
                                   ELSE gain[d]]
     /\ paras' = [i \in {0, 1} |->
                    IF \E d \in stored : IdOf[d] = i
                      THEN ConfigGain[CHOOSE d \in stored : IdOf[d] = i]
                      ELSE paras[i]]
     /\ missed' = [d \in Devices |->
                     IF d \in found THEN d \notin stored
                     ELSE missed[d] \/ \E e \in stored : IdOf[e] = IdOf[d]]

\* What cameras_ holds after it: a camera that does not come up or has no
\* entry is destroyed again, and so is one whose id a later one takes.
Kept(found) == Latest({d \in found : IdOf[d] # NoId})

GroupOpen ==
  \E g \in CameraGroups : \E found \in SUBSET Devices :
    \E taken \in SUBSET found :
      /\ found # {}
      /\ \A d \in Devices : <<g, d>> \notin observers
      /\ Configure(found, taken)
      /\ observers' = observers \union ({g} \X Kept(found))

\* The group is deleted, and its cameras leave the observers.
GroupClose ==
  /\ \E g \in CameraGroups :
       observers' = {o \in observers : o[1] # g}
  /\ UNCHANGED <<paras, gain, missed>>

\* SetLeftGain, SetRightGain: nothing for the value that is stored already;
\* else OnGainChanged of every observer, of which those with this id try to
\* set their camera, then the new value is stored.  Mutant: no id is checked.
NotifiedAll(id) == {d \in Devices : Observed(d)}
Notified(id) == {d \in Devices : IdOf[d] = id /\ Observed(d)}

SetGain ==
  /\ \E id \in {0, 1}, v \in Gains : \E taken \in SUBSET Notified(id) :
       /\ v # paras[id]
       /\ paras' = [paras EXCEPT ![id] = v]
       /\ gain' = [d \in Devices |-> IF d \in taken THEN v ELSE gain[d]]
       /\ missed' = [d \in Devices |-> IF d \in Notified(id) THEN d \notin taken
                                                            ELSE missed[d]]
  /\ UNCHANGED observers

GainNext == GroupOpen \/ GroupClose \/ SetGain

GainSpec == GainInit /\ [][GainNext]_gainVars

-----------------------------------------------------------------------------
\* What the user sees is what the camera does: while a group holds a camera,
\* its gain is the stored one, unless it refused the last change, para.json
\* has no gain for it, or a camera of the same id got its own; a second group
\* on the same devices, and the end of one of the two, do not part them.
GainInSync ==
  \A d \in Devices : Observed(d) => paras[IdOf[d]] = gain[d] \/ missed[d]
=============================================================================
