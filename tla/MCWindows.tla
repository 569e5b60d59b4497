------------------------------ MODULE MCWindows -----------------------------
(* The windows that share no state, each on its own: active is the one that *)
(* runs, the others stand still in their initial states.                    *)
EXTENDS CaptureGallery, ManualMarkers, TrackingPlayer, TrackingPoints, CameraGain

MCRecordings ==
  {[id |-> "first",  first |-> 1, last |-> 3, lines |-> 3],
   [id |-> "second", first |-> 1, last |-> 2, lines |-> 2],
   [id |-> "later",  first |-> 6, last |-> 8, lines |-> 3],
   [id |-> "gap",    first |-> 1, last |-> 4, lines |-> 3],
   [id |-> "back",   first |-> 4, last |-> 2, lines |-> 3]}

\* Camera 0 is the right one, 1 and 2 share an id, 3 has no entry.
MCIdOf       == [d \in 0..3 |-> CASE d = 0 -> 1 [] d = 3 -> NoId [] OTHER -> 0]
MCConfigGain == [d \in 0..3 |-> IF d \in {0, 2} THEN 128 ELSE -1]

VARIABLE active

windowsVars == <<galleryVars, markerVars, playerVars, pointVars, gainVars,
                 active>>

WindowsInit ==
  /\ active \in {"gallery", "markers", "player", "points", "gain"}
  /\ GalleryInit /\ MarkersInit /\ PlayerInit /\ PointsInit /\ GainInit
  /\ active # "gallery" => window = "measure"
  /\ active # "markers" => photo
  /\ active # "gain" => /\ paras = [i \in {0, 1} |-> DefaultGain]
                        /\ gain = [d \in Devices |-> DefaultGain]

Only(w) == /\ active = w /\ UNCHANGED active
           /\ w # "gallery" => UNCHANGED galleryVars
           /\ w # "markers" => UNCHANGED markerVars
           /\ w # "player"  => UNCHANGED playerVars
           /\ w # "points"  => UNCHANGED pointVars
           /\ w # "gain"    => UNCHANGED gainVars

WindowsNext ==
  \/ Only("gallery") /\ GalleryNext
  \/ Only("markers") /\ MarkersNext
  \/ Only("player") /\ PlayerNext
  \/ Only("points") /\ PointsNext
  \/ Only("gain") /\ GainNext

WindowsSpec == WindowsInit /\ [][WindowsNext]_windowsVars

\* Every component's variables keep their types, whatever its user does.
WindowsTypeOK ==
  GalleryTypeOK /\ MarkersTypeOK /\ PlayerTypeOK /\ PointsTypeOK /\ GainTypeOK
=============================================================================
