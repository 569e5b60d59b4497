---------------------------- MODULE ManualMarkers ---------------------------
(***************************************************************************)
(* The markers of the manual measuring window (manualWindow.cpp): those    *)
(* the user clicks, renames and deletes, those the detectors add, and how  *)
(* calculate3dPoints pairs the left ones with the right ones by name.      *)
(*                                                                         *)
(* A marker is its name; QString::number makes it a number, and a name the *)
(* user types is one too.  Positions, the picture processing and the       *)
(* triangulation are left out.                                             *)
(***************************************************************************)
EXTENDS Integers, Sequences, SequencesExt, Functions

CONSTANTS
  MaxName,      \* bound: names are 1..MaxName
  MaxMarkers    \* bound: markers of one side

ASSUME MarkersAssumption == MaxName \in Nat \ {0} /\ MaxMarkers \in Nat \ {0}

Sides == {"left", "right"}
Names == 1..MaxName

VARIABLES
  markers,      \* mLeftMarkers, mRightMarkers: the names in list order
  clicked,      \* the static LC and RC of dealwithCreatSignal
  focus,        \* the side of mbLeftFocused
  photo,        \* temp/left.jpg and right.jpg exist
  origin,       \* auxiliary: where the names of this window come from
  ended         \* "no"; "overrun" once ret[0] of an empty result was read,
                \* "crashed" once a detector read a missing picture

markerVars == <<markers, clicked, focus, photo, origin, ended>>

MarkersTypeOK ==
  /\ markers \in [Sides -> Seq(Names)]
  /\ \A s \in Sides : Len(markers[s]) <= MaxMarkers
  /\ clicked \in [Sides -> 0..MaxName]
  /\ focus \in Sides
  /\ photo \in BOOLEAN
  /\ origin \in {"none", "clicked", "detected", "mixed"}
  /\ ended \in {"no", "overrun", "crashed"}

\* The pictures may be left from an earlier run.
MarkersInit ==
  /\ markers = [s \in Sides |-> <<>>]
  /\ clicked = [s \in Sides |-> 0]
  /\ focus = "left"
  /\ photo \in BOOLEAN
  /\ origin = "none"
  /\ ended = "no"

-----------------------------------------------------------------------------
\* Stopping the preview saves the two pictures, if a frame has arrived.
TakePhoto ==
  /\ photo' = TRUE
  /\ UNCHANGED <<markers, clicked, focus, origin, ended>>

\* A view gets the focus, or its marker button is pressed.
Focus ==
  /\ focus' \in Sides
  /\ UNCHANGED <<markers, clicked, photo, origin, ended>>

\* Mutant: a new marker is numbered by the markers there are.
NumberByCount(s) == Len(markers[s]) + 1
NextName(s) == clicked[s] + 1

\* dealwithCreatSignal: mbCapture is TRUE from the constructor on.  The
\* counters are static: a new window goes on counting.
Click ==
  /\ clicked[focus] < MaxName /\ Len(markers[focus]) < MaxMarkers
  /\ clicked' = [clicked EXCEPT ![focus] = NextName(focus)]
  /\ markers' = [markers EXCEPT ![focus] = Append(@, clicked'[focus])]
  /\ origin' = IF origin \in {"none", "clicked"} THEN "clicked" ELSE "mixed"
  /\ UNCHANGED <<focus, photo, ended>>

\* Mutant: QString::number(i) for i + 1.
UpToFromZero(n) == [i \in 1..n |-> i - 1]
UpTo(n) == [i \in 1..n |-> i]

\* autoDetectMarkers, and with one marker on each side autoDetectOneLight:
\* names count from 1, and what was there stays.
Detect ==
  /\ photo
  /\ \E n \in [Sides -> 0..MaxName] :
       /\ \A s \in Sides : Len(markers[s]) + n[s] <= MaxMarkers
       /\ markers' = [s \in Sides |-> markers[s] \o UpTo(n[s])]
  /\ origin' = IF origin = "none" THEN "detected" ELSE "mixed"
  /\ UNCHANGED <<clicked, focus, photo, ended>>

\* autoDetectLights: its groups start empty, and a point founds a group only
\* while it is compared with an existing one, so no marker is ever added; nor
\* from pictures that are not there, if it gets past cv::threshold.
DetectLights == UNCHANGED markerVars

\* A detector reads a picture that is not there: cv::cvtColor throws, the
\* square around the brightest pixel is out of bounds, cv::threshold may throw.
DetectNothing ==
  /\ ~photo
  /\ ended' = "crashed"
  /\ UNCHANGED <<markers, clicked, focus, photo, origin>>

\* The user edits the text of a marker.
Rename ==
  /\ \E s \in Sides : \E i \in DOMAIN markers[s], n \in Names :
       markers' = [markers EXCEPT ![s][i] = n]
  /\ origin' = "mixed"
  /\ UNCHANGED <<clicked, focus, photo, ended>>

\* dealwithDeleteSignal deletes the selected markers of both sides, here one
\* after the other.
DeleteMarker ==
  /\ \E s \in Sides : \E i \in DOMAIN markers[s] :
       markers' = [markers EXCEPT ![s] = RemoveAt(@, i)]
  /\ UNCHANGED <<clicked, focus, photo, origin, ended>>

\* calculate3dPoints takes for the left marker at i the right one at j: the
\* first of that name.
Partner(i, j) ==
  /\ markers["right"][j] = markers["left"][i]
  /\ \A k \in 1..(j - 1) : markers["right"][k] # markers["left"][i]
Accepted ==
  /\ Len(markers["left"]) = Len(markers["right"])
  /\ \A i \in DOMAIN markers["left"] :
       \E j \in DOMAIN markers["right"] : Partner(i, j)

\* calculate3dPoints: a message if not Accepted; for no markers at all there
\* is no point whose distance it could show, which it does all the same.
Calculate ==
  /\ Accepted
  /\ ended' = IF markers["left"] = <<>> THEN "overrun" ELSE ended
  /\ UNCHANGED <<markers, clicked, focus, photo, origin>>

\* A new window has no markers; the pictures and the counters stay.
ReopenManual ==
  /\ markers' = [s \in Sides |-> <<>>]
  /\ focus' = "left"
  /\ origin' = "none"
  /\ UNCHANGED <<clicked, photo, ended>>

MarkersNext ==
  /\ ended = "no"
  /\ \/ TakePhoto \/ Focus \/ Click \/ Detect \/ DetectLights \/ DetectNothing
     \/ Rename \/ DeleteMarker \/ Calculate \/ ReopenManual

MarkersSpec == MarkersInit /\ [][MarkersNext]_markerVars

-----------------------------------------------------------------------------
NamesDistinct == \A s \in Sides : IsInjective(markers[s])

\* calculate3dPoints pairs the markers one to one: with markers that were all
\* clicked or all detected at once, and deleted as the user likes, no right
\* marker is the partner of two left ones.  Renaming, and mixing clicks with
\* detection, repeat names.
PairingIsABijection ==
  origin # "mixed" =>
    /\ NamesDistinct
    /\ Accepted =>
         \A i, j \in DOMAIN markers["left"], k \in DOMAIN markers["right"] :
           Partner(i, k) /\ Partner(j, k) => i = j
=============================================================================
