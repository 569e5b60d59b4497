--------------------------- MODULE CaptureGallery --------------------------
(***************************************************************************)
(* The captured images of the calibration windows (calibrateWindow.cpp,    *)
(* stereoCalWindow.cpp) and of the measuring window                        *)
(* (MeasureMarkersWindows.cpp): the numbered files, the list mImgs, the    *)
(* slider that selects one of them and the label "cs/all".                 *)
(*                                                                         *)
(* The three windows hold near copies of the same code; window says whose  *)
(* copy runs.  The left_ and right_ files of a pair count as one file, the *)
(* disk does not fail, and a preview that finds no cameras changes nothing *)
(* here.  mImgs[i - 1] is imgs[i].                                         *)
(***************************************************************************)
EXTENDS Integers, Sequences, SequencesExt

CONSTANT MaxCount       \* bound: the captures numbered in one run

ASSUME GalleryAssumption == MaxCount \in Nat \ {0}

VARIABLES
  window,       \* whose code runs
  count,        \* the static COUNT of capture()
  imgs,         \* mImgs
  slider,       \* mSlider: its maximum, value, and whether it is enabled
  playing,      \* mbPlay
  picture,      \* mLastCaptureImg or mLastLeft and mLastRight hold an image
  files,        \* the files in the folder: <<number, extension>>
  shown,        \* the label: cs of the last updateCurrent, which also shows
                \* that image until a preview paints over it
  fate          \* "running"; "overrun" once mImgs was read out of its bounds,
                \* "crashed" once OpenCV was given an empty image

galleryVars == <<window, count, imgs, slider, playing, picture, files, shown,
                 fate>>

Windows == {"calibrate", "stereo", "measure"}
Numbers == 1..MaxCount

\* What a capture leaves: the image, the corner points, the drawn corners.
Extensions == IF window = "measure" THEN {"jpg", "bmp"}
                                    ELSE {"jpg", "txt", "bmp"}
FilesOf(n) == {n} \X {"jpg", "txt", "bmp"}

GalleryTypeOK ==
  /\ window \in Windows
  /\ count \in 0..MaxCount
  /\ imgs \in Seq(Numbers)
  /\ slider \in [max : Nat, value : Nat, on : BOOLEAN]
  /\ {playing, picture} \subseteq BOOLEAN
  /\ files \subseteq Numbers \X {"jpg", "txt", "bmp"}
  /\ shown \in 0..MaxCount
  /\ fate \in {"running", "overrun", "crashed"}

GalleryInit ==
  /\ window \in Windows
  /\ count = 0
  /\ imgs = <<>>
  /\ slider = [max |-> 1, value |-> 1, on |-> FALSE]
  /\ playing = FALSE
  /\ picture = FALSE
  /\ files = {}
  /\ shown = 0
  /\ fate = "running"

-----------------------------------------------------------------------------
GalleryPreviewStart ==
  /\ ~playing
  /\ playing' = TRUE
  /\ slider' = [slider EXCEPT !.on = FALSE]
  /\ UNCHANGED <<window, count, imgs, picture, files, shown, fate>>

GalleryPreviewStop ==
  /\ playing
  /\ playing' = FALSE
  /\ slider' = [slider EXCEPT !.on = TRUE]
  /\ UNCHANGED <<window, count, imgs, picture, files, shown, fate>>

\* updateOneFrame keeps the newest picture; it outlives the preview.
GalleryFrame ==
  /\ playing /\ ~picture
  /\ picture' = TRUE
  /\ UNCHANGED <<window, count, imgs, slider, playing, files, shown, fate>>

\* The slider after updateButtonState for a list of n > 0 images: a value
\* above the maximum is pulled down.
Button(s, n) == [max |-> n, on |-> n > 1,
                 value |-> IF s.value > n THEN n ELSE s.value]

\* Mutant: the images are numbered by the length of the list.
NumberByLength == Len(imgs) + 1
NextNumber == count + 1

\* What imread finds: without a picture nothing is saved, but an older file
\* of that name may be there.
Readable == picture \/ <<NextNumber, "jpg">> \in files

\* capture: the markers are found, and the preview stops.
CaptureFound ==
  /\ playing /\ Readable /\ count < MaxCount
  /\ count' = NextNumber
  /\ files' = files \union ({NextNumber} \X Extensions)
  /\ imgs' = Append(imgs, NextNumber)
  /\ playing' = FALSE
  /\ slider' = Button([slider EXCEPT !.value = Len(imgs')], Len(imgs'))
  /\ shown' = Len(imgs')
  /\ UNCHANGED <<window, picture, fate>>

\* capture: they are not; the number is used again, and the preview goes on.
\* The measuring window has written the drawing before it looked.
CaptureMissed ==
  /\ playing /\ Readable /\ count < MaxCount
  /\ files' = (files \union (IF window = "measure" THEN {<<NextNumber, "bmp">>}
                                                   ELSE {}))
              \ {<<NextNumber, "jpg">>}
  /\ UNCHANGED <<window, count, imgs, slider, playing, picture, shown, fate>>

\* capture: there is nothing to read, and cvtColor throws.
CaptureNothing ==
  /\ playing /\ ~Readable /\ count < MaxCount
  /\ fate' = "crashed"
  /\ UNCHANGED <<window, count, imgs, slider, playing, picture, files, shown>>

\* Mutants: the two copies of deleteImg are mixed up.
ShowSameIndex(index) == index
ShowPrevious(index)  == IF index > 1 THEN index - 1 ELSE index

\* deleteImg shows this image once the one at index is gone.
ShowAfterDelete(index) ==
  IF window # "measure" /\ index > 1 THEN index - 1 ELSE index

\* deleteImg on the slider's image: updateButtonState, which shows the last
\* image if it pulls the slider down, then updateCurrent.  Both read mImgs;
\* only the calibration window has a guard for the empty list.
Delete ==
  /\ imgs # <<>>
  /\ LET index == slider.value
         rest  == RemoveAt(imgs, index)
         last  == ShowAfterDelete(index)
     IN /\ files' = files \ FilesOf(imgs[index])
        /\ imgs' = rest
        /\ IF rest = <<>> /\ window = "calibrate"
             THEN /\ slider' = [slider EXCEPT !.on = FALSE]
                  /\ shown' = 0
                  /\ UNCHANGED fate
             ELSE IF last \in DOMAIN rest
             THEN /\ slider' = Button(slider, Len(rest))
                  /\ shown' = last
                  /\ UNCHANGED fate
             ELSE /\ fate' = "overrun"
                  /\ shown' = last
                  /\ slider' = Button(slider, Len(rest))
  /\ UNCHANGED <<window, count, playing, picture>>

Slide ==
  /\ slider.on
  /\ \E v \in (1..slider.max) \ {slider.value} :
       /\ slider' = [slider EXCEPT !.value = v]
       /\ shown' = v
  /\ UNCHANGED <<window, count, imgs, playing, picture, files, fate>>

\* A new window of the same kind: the list starts empty, COUNT goes on.  The
\* windows of the left and of the right camera share it, not their folders.
Reopen ==
  /\ count' \in count..(IF window = "calibrate" THEN MaxCount ELSE count)
  /\ imgs' = <<>>
  /\ slider' = [max |-> 1, value |-> 1, on |-> FALSE]
  /\ playing' = FALSE
  /\ picture' = FALSE
  /\ shown' = 0
  /\ UNCHANGED <<window, files, fate>>

\* The program is started again: COUNT starts over, the files are still there.
Restart ==
  /\ count' = 0
  /\ imgs' = <<>>
  /\ slider' = [max |-> 1, value |-> 1, on |-> FALSE]
  /\ playing' = FALSE
  /\ picture' = FALSE
  /\ shown' = 0
  /\ UNCHANGED <<window, files, fate>>

GalleryNext ==
  /\ fate = "running"
  /\ \/ GalleryPreviewStart \/ GalleryPreviewStop \/ GalleryFrame
     \/ CaptureFound \/ CaptureMissed \/ CaptureNothing
     \/ Delete \/ Slide \/ Reopen \/ Restart

GallerySpec == GalleryInit /\ [][GalleryNext]_galleryVars

-----------------------------------------------------------------------------
\* Every image in the list can be shown, deleted and used to calibrate: all
\* its files are there, no number is listed twice or given out again, and the
\* slider selects an image of the list.
ListedComplete ==
  fate # "overrun" =>
    /\ \A i \in DOMAIN imgs : {imgs[i]} \X Extensions \subseteq files
    /\ \A i, j \in DOMAIN imgs : i < j => imgs[i] < imgs[j]
    /\ \A i \in DOMAIN imgs : imgs[i] <= count
    /\ slider.max = (IF imgs = <<>> THEN 1 ELSE Len(imgs))
    /\ slider.value \in 1..slider.max

\* updateCurrent reads mImgs out of its bounds only when the stereo window's
\* only image or the measuring window's last one is deleted, never in the
\* calibration window.
GalleryOverrun ==
  fate = "overrun" =>
    \/ window = "stereo" /\ imgs = <<>>
    \/ window = "measure" /\ shown = Len(imgs) + 1

\* What deleteImg deletes, the slider's image, is the one the label names, or
\* its right neighbour: the calibration windows step the label back after a
\* deletion, and leave the slider.
SelectionLag ==
  imgs # <<>> /\ fate = "running" =>
    /\ shown \in DOMAIN imgs
    /\ \/ shown = slider.value
       \/ window # "measure" /\ shown = slider.value - 1
=============================================================================
