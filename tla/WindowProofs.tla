----------------------------- MODULE WindowProofs ---------------------------
(***************************************************************************)
(* Proofs about CaptureGallery, for every bound on the captures, about     *)
(* ManualMarkers, for every bound on the markers and their names, about    *)
(* CameraGain, for every set of cameras and gains, and about the five      *)
(* windows of MCWindows together.                                          *)
(***************************************************************************)
EXTENDS MCWindows, TrackingProofs, SequenceLemmas

\* The strengthening: an image is not numbered below its place in the list,
\* so the list is not longer than count.
Ahead == \A i \in DOMAIN imgs : i <= imgs[i]

GalleryInv ==
  /\ GalleryTypeOK
  /\ Ahead
  /\ ListedComplete
  /\ GalleryOverrun
  /\ SelectionLag

\* What the invariant says of the list of a window that runs.
LEMMA ListFacts ==
  ASSUME GalleryInv, fate = "running"
  PROVE  /\ MaxCount \in Nat /\ count \in 0..MaxCount
         /\ imgs \in Seq(Numbers) /\ Len(imgs) \in Nat
         /\ DOMAIN imgs = 1..Len(imgs)
         /\ \A i \in 1..Len(imgs) :
              /\ i <= imgs[i] /\ imgs[i] <= count /\ imgs[i] \in Numbers
              /\ {imgs[i]} \X Extensions \subseteq files
         /\ \A i, j \in 1..Len(imgs) : i < j => imgs[i] < imgs[j]
         /\ Len(imgs) <= count
         /\ imgs = <<>> <=> Len(imgs) = 0
         /\ slider.max = (IF Len(imgs) = 0 THEN 1 ELSE Len(imgs))
         /\ slider.value \in 1..slider.max
         /\ slider \in [max : Nat, value : Nat, on : BOOLEAN]
<1>1. MaxCount \in Nat  BY GalleryAssumption
<1>2. /\ imgs \in Seq(Numbers) /\ count \in 0..MaxCount
      /\ slider \in [max : Nat, value : Nat, on : BOOLEAN]
  BY DEF GalleryInv, GalleryTypeOK
<1>3. Len(imgs) \in Nat /\ DOMAIN imgs = 1..Len(imgs)  BY <1>2
<1>4. imgs = <<>> <=> Len(imgs) = 0  BY <1>2, EmptySeq
<1>5. /\ \A i \in DOMAIN imgs : {imgs[i]} \X Extensions \subseteq files
      /\ \A i, j \in DOMAIN imgs : i < j => imgs[i] < imgs[j]
      /\ \A i \in DOMAIN imgs : imgs[i] <= count
      /\ slider.max = (IF imgs = <<>> THEN 1 ELSE Len(imgs))
      /\ slider.value \in 1..slider.max
      /\ \A i \in DOMAIN imgs : i <= imgs[i]
  BY DEF GalleryInv, ListedComplete, Ahead
<1>6. \A i \in 1..Len(imgs) : imgs[i] \in Numbers  BY <1>2, ElementOfSeq
<1>7. Len(imgs) <= count
  <2>1. CASE Len(imgs) = 0  BY <2>1, <1>2, <1>1
  <2>2. CASE Len(imgs) # 0
    <3>1. Len(imgs) \in 1..Len(imgs)  BY <2>2, <1>3
    <3>2. Len(imgs) <= imgs[Len(imgs)] /\ imgs[Len(imgs)] <= count
      BY <3>1, <1>3, <1>5
    <3>3. imgs[Len(imgs)] \in Int  BY <3>1, <1>6 DEF Numbers
    <3> QED BY <3>2, <3>3, <1>1, <1>2, <1>3
  <2> QED BY <2>1, <2>2
<1> QED BY <1>1, <1>2, <1>3, <1>4, <1>5, <1>6, <1>7

\* An empty list keeps the invariant, whatever came before.
LEMMA EmptyList ==
  ASSUME window' \in Windows, count' \in 0..MaxCount, imgs' = <<>>,
         slider'.max = 1, slider'.value = 1,
         slider' \in [max : Nat, value : Nat, on : BOOLEAN],
         playing' \in BOOLEAN, picture' \in BOOLEAN,
         files' \subseteq Numbers \X {"jpg", "txt", "bmp"},
         shown' = 0, fate' = "running"
  PROVE  GalleryInv'
<1>1. GalleryTypeOK'
  <2>1. 0 \in 0..MaxCount  BY GalleryAssumption
  <2>2. imgs' \in Seq(Numbers)  OBVIOUS
  <2> QED BY <2>1, <2>2 DEF GalleryTypeOK
<1>2. DOMAIN imgs' = {}
  <2>1. DOMAIN imgs' = 1..0  OBVIOUS
  <2> QED BY <2>1
<1>3. Ahead'  BY <1>2 DEF Ahead
<1>4. ListedComplete'  BY <1>2 DEF ListedComplete
<1> QED BY <1>1, <1>3, <1>4 DEF GalleryInv, GalleryOverrun, SelectionLag

LEMMA GalleryInitInv == GalleryInit => GalleryInv
<1> SUFFICES ASSUME GalleryInit PROVE GalleryInv
  OBVIOUS
<1>1. GalleryTypeOK
  <2>1. 0 \in 0..MaxCount  BY GalleryAssumption
  <2>2. imgs \in Seq(Numbers)  BY DEF GalleryInit
  <2> QED BY <2>1, <2>2 DEF GalleryTypeOK, GalleryInit
<1>2. DOMAIN imgs = {}
  <2>1. DOMAIN imgs = 1..0  BY DEF GalleryInit
  <2> QED BY <2>1
<1>3. Ahead  BY <1>2 DEF Ahead
<1>4. ListedComplete  BY <1>2 DEF ListedComplete, GalleryInit
<1> QED BY <1>1, <1>3, <1>4
        DEF GalleryInv, GalleryOverrun, SelectionLag, GalleryInit

\* A step that leaves the list, the numbers, the label and the maximum and
\* value of the slider alone, and no file of a listed image.
LEMMA QuietStep ==
  ASSUME GalleryInv, fate = "running",
         UNCHANGED <<window, count, imgs, shown>>,
         slider' \in [max : Nat, value : Nat, on : BOOLEAN],
         slider'.max = slider.max, slider'.value = slider.value,
         playing' \in BOOLEAN, picture' \in BOOLEAN,
         files' \subseteq Numbers \X {"jpg", "txt", "bmp"},
         \A n \in 1..count : ({n} \X Extensions) \intersect files \subseteq files',
         fate' \in {"running", "crashed"}
  PROVE  GalleryInv'
<1>1. GalleryTypeOK'  BY DEF GalleryInv, GalleryTypeOK
<1>2. Ahead'  BY DEF GalleryInv, Ahead
<1>3. Extensions' = Extensions  BY DEF Extensions
<1>4. \A i \in DOMAIN imgs : imgs[i] \in 1..count
  BY ListFacts DEF Numbers
<1>5. \A i \in DOMAIN imgs : {imgs[i]} \X Extensions \subseteq files'
  <2> TAKE i \in DOMAIN imgs
  <2>1. {imgs[i]} \X Extensions \subseteq files  BY ListFacts
  <2> QED BY <2>1, <1>4
<1>6. ListedComplete'  BY <1>3, <1>5 DEF GalleryInv, ListedComplete
<1>7. GalleryOverrun' /\ SelectionLag'
  BY DEF GalleryInv, GalleryOverrun, SelectionLag
<1> QED BY <1>1, <1>2, <1>6, <1>7 DEF GalleryInv

\* capture with the markers found.
LEMMA CaptureFoundInv ==
  ASSUME GalleryInv, fate = "running", CaptureFound PROVE GalleryInv'
<1> DEFINE L == Len(imgs)
<1>1. /\ count' = count + 1 /\ count < MaxCount
      /\ files' = files \union ({count + 1} \X Extensions)
      /\ imgs' = Append(imgs, count + 1)
      /\ playing' = FALSE /\ fate' = fate /\ window' = window
      /\ picture' = picture /\ shown' = Len(imgs')
  BY DEF CaptureFound, NextNumber
<1>2. count \in 0..MaxCount /\ MaxCount \in Nat /\ L \in Nat /\ L <= count
  BY ListFacts
<1>3. count + 1 \in Numbers  BY <1>1, <1>2 DEF Numbers
<1>4. /\ imgs' \in Seq(Numbers) /\ Len(imgs') = L + 1
      /\ DOMAIN imgs' = 1..(L + 1)
      /\ \A i \in 1..L : imgs'[i] = imgs[i]
      /\ imgs'[L + 1] = count + 1
  <2>1. imgs \in Seq(Numbers)  BY ListFacts
  <2> QED BY <1>1, <1>3, <2>1, AppendProperties
<1>5. /\ slider' = [max |-> L + 1, on |-> L + 1 > 1, value |-> L + 1]
  <2>1. slider' = Button([slider EXCEPT !.value = L + 1], L + 1)
    BY <1>4 DEF CaptureFound
  <2>2. [slider EXCEPT !.value = L + 1].value = L + 1  BY ListFacts
  <2>3. ~(L + 1 > L + 1)  BY <1>2
  <2> QED BY <2>1, <2>2, <2>3 DEF Button
<1>6. \A i \in 1..(L + 1) : i \in 1..L \/ i = L + 1  BY <1>2
<1>7. GalleryTypeOK'
  <2>1. count' \in 0..MaxCount /\ shown' \in 0..MaxCount
    BY <1>1, <1>2, <1>4
  <2>2. slider' \in [max : Nat, value : Nat, on : BOOLEAN]  BY <1>5, <1>2
  <2>3. files' \subseteq Numbers \X {"jpg", "txt", "bmp"}
    BY <1>1, <1>3 DEF GalleryInv, GalleryTypeOK, Extensions
  <2> QED BY <1>1, <1>4, <2>1, <2>2, <2>3 DEF GalleryInv, GalleryTypeOK
<1>8. Ahead'
  <2>1. \A i \in 1..L : i <= imgs'[i]  BY <1>4, ListFacts
  <2>2. L + 1 <= imgs'[L + 1]  BY <1>2, <1>4
  <2> QED BY <1>4, <1>6, <2>1, <2>2 DEF Ahead
<1>9. ListedComplete'
  <2>1. Extensions' = Extensions  BY <1>1 DEF Extensions
  <2>2. \A i \in 1..(L + 1) : {imgs'[i]} \X Extensions \subseteq files'
    <3> TAKE i \in 1..(L + 1)
    <3>1. CASE i \in 1..L
      <4>1. {imgs[i]} \X Extensions \subseteq files  BY <3>1, ListFacts
      <4> QED BY <3>1, <4>1, <1>1, <1>4
    <3>2. CASE i = L + 1  BY <3>2, <1>1, <1>4
    <3> QED BY <3>1, <3>2, <1>6
  <2>3. ASSUME NEW i \in 1..(L + 1), NEW j \in 1..(L + 1), i < j
        PROVE  imgs'[i] < imgs'[j]
    <3>1. i \in 1..L  BY <2>3, <1>2
    <3>2. imgs[i] <= count /\ imgs[i] \in Int  BY <3>1, ListFacts DEF Numbers
    <3>3. CASE j \in 1..L
      <4>1. imgs[i] < imgs[j]  BY <2>3, <3>1, <3>3, ListFacts
      <4> QED BY <3>1, <3>3, <4>1, <1>4
    <3>4. CASE j = L + 1  BY <3>1, <3>2, <3>4, <1>2, <1>4
    <3> QED BY <3>3, <3>4, <1>6
  <2>4. \A i \in 1..(L + 1) : imgs'[i] <= count'
    <3> TAKE i \in 1..(L + 1)
    <3>1. CASE i \in 1..L
      <4>1. imgs[i] <= count /\ imgs[i] \in Int  BY <3>1, ListFacts DEF Numbers
      <4> QED BY <3>1, <4>1, <1>1, <1>2, <1>4
    <3>2. CASE i = L + 1  BY <3>2, <1>1, <1>2, <1>4
    <3> QED BY <3>1, <3>2, <1>6
  <2>5. imgs' # <<>>  BY <1>2, <1>4, EmptySeq
  <2>6. slider'.max = Len(imgs') /\ slider'.value \in 1..slider'.max
    BY <1>2, <1>4, <1>5
  <2> QED BY <1>4, <2>1, <2>2, <2>3, <2>4, <2>5, <2>6 DEF ListedComplete
<1>10. GalleryOverrun'  BY <1>1 DEF GalleryOverrun
<1>11. SelectionLag'
  <2>1. shown' = L + 1 /\ shown' \in 1..(L + 1) /\ slider'.value = L + 1
    BY <1>1, <1>2, <1>4, <1>5
  <2> QED BY <1>4, <2>1 DEF SelectionLag
<1> QED BY <1>7, <1>8, <1>9, <1>10, <1>11 DEF GalleryInv

\* deleteImg: the deleted image was listed once, so no other file is touched,
\* and only the cases of GalleryOverrun show a place outside the list.
LEMMA DeleteInv ==
  ASSUME GalleryInv, fate = "running", Delete PROVE GalleryInv'
<1> DEFINE L     == Len(imgs)
           index == slider.value
           rest  == RemoveAt(imgs, index)
           last  == ShowAfterDelete(index)
<1>1. /\ imgs # <<>> /\ imgs' = rest
      /\ files' = files \ FilesOf(imgs[index])
      /\ UNCHANGED <<window, count, playing, picture>>
      /\ IF rest = <<>> /\ window = "calibrate"
           THEN slider' = [slider EXCEPT !.on = FALSE] /\ shown' = 0 /\ fate' = fate
           ELSE /\ slider' = Button(slider, Len(rest)) /\ shown' = last
                /\ fate' = IF last \in DOMAIN rest THEN fate ELSE "overrun"
  BY DEF Delete
<1>2. /\ count \in 0..MaxCount /\ MaxCount \in Nat /\ L \in Nat /\ L <= count
      /\ L # 0 /\ slider.max = L /\ index \in 1..L
      /\ slider \in [max : Nat, value : Nat, on : BOOLEAN]
  BY <1>1, ListFacts
<1>3. imgs \in Seq(Numbers)  BY ListFacts
<1>4. /\ rest \in Seq(Numbers) /\ Len(rest) = L - 1
      /\ \A j \in 1..(L - 1) :
           rest[j] = IF j < index THEN imgs[j] ELSE imgs[j + 1]
  BY <1>2, <1>3, RemoveAtLemma
<1>5. /\ DOMAIN rest = 1..(L - 1)
      /\ rest = <<>> <=> L = 1
  <2> HIDE DEF rest
  <2> QED BY <1>4, <1>2, EmptySeq
<1> DEFINE From(j) == IF j < index THEN j ELSE j + 1
<1>6. \A j \in 1..(L - 1) :
        From(j) \in 1..L /\ From(j) # index /\ rest[j] = imgs[From(j)] /\ j <= From(j)
  BY <1>2, <1>4
<1>7. \A j, k \in 1..(L - 1) : j < k => From(j) < From(k)
  BY <1>2
<1>8. /\ last \in Int /\ last \in 0..L
      /\ last \in 1..(L - 1) \/ L = 1 \/ (window = "measure" /\ last = L)
      /\ last = index \/ (window # "measure" /\ index > 1 /\ last = index - 1)
  BY <1>2 DEF ShowAfterDelete
<1> HIDE DEF rest, last, From
<1>9. files' \subseteq files
  BY <1>1
<1>10. GalleryTypeOK'
  <2>1. slider' \in [max : Nat, value : Nat, on : BOOLEAN]
    <3>1. [slider EXCEPT !.on = FALSE] \in [max : Nat, value : Nat, on : BOOLEAN]
      BY <1>2
    <3>2. Button(slider, Len(rest)) \in [max : Nat, value : Nat, on : BOOLEAN]
      BY <1>2, <1>4 DEF Button
    <3> QED BY <1>1, <3>1, <3>2
  <2>2. shown' \in 0..MaxCount  BY <1>1, <1>2, <1>8
  <2>3. fate' \in {"running", "overrun", "crashed"}  BY <1>1
  <2> QED BY <1>1, <1>4, <1>9, <2>1, <2>2, <2>3 DEF GalleryInv, GalleryTypeOK
<1>11. Ahead'
  <2> SUFFICES ASSUME NEW j \in 1..(L - 1) PROVE j <= rest[j]
    BY <1>1, <1>5 DEF Ahead
  <2>1. From(j) <= imgs[From(j)] /\ imgs[From(j)] \in Int
    BY <1>6, ListFacts DEF Numbers
  <2> QED BY <2>1, <1>2, <1>6
<1>12. ListedComplete'
  <2> SUFFICES ASSUME fate' # "overrun" PROVE ListedComplete'
    BY DEF ListedComplete
  <2>1. Extensions' = Extensions  BY <1>1 DEF Extensions
  <2>2. ASSUME NEW j \in 1..(L - 1)
        PROVE  {rest[j]} \X Extensions \subseteq files'
    <3>1. {imgs[From(j)]} \X Extensions \subseteq files  BY <1>6, ListFacts
    <3>2. imgs[From(j)] # imgs[index]
      <4>1. From(j) < index \/ index < From(j)  BY <1>2, <1>6
      <4>2. /\ imgs[From(j)] < imgs[index] \/ imgs[index] < imgs[From(j)]
            /\ imgs[index] \in Int /\ imgs[From(j)] \in Int
        BY <4>1, <1>2, <1>6, ListFacts DEF Numbers
      <4> QED BY <4>2
    <3> QED BY <1>1, <1>6, <3>1, <3>2 DEF FilesOf
  <2>3. \A j, k \in 1..(L - 1) : j < k => rest[j] < rest[k]
    <3> TAKE j, k \in 1..(L - 1)
    <3> HAVE j < k
    <3>1. imgs[From(j)] < imgs[From(k)]  BY <1>6, <1>7, ListFacts
    <3> QED BY <1>6, <3>1
  <2>4. \A j \in 1..(L - 1) : rest[j] <= count'
    BY <1>1, <1>6, ListFacts
  <2>5. /\ slider'.max = (IF rest = <<>> THEN 1 ELSE L - 1)
        /\ slider'.value \in 1..slider'.max
    <3>1. CASE L = 1
      <4>1. window = "calibrate"  BY <1>1, <1>4, <1>5, <1>8, <3>1, <2>1
      <4>2. slider' = [slider EXCEPT !.on = FALSE]  BY <1>1, <1>5, <3>1, <4>1
      <4> QED BY <1>2, <1>5, <3>1, <4>2
    <3>2. CASE L # 1
      <4>1. slider' = [max |-> L - 1, on |-> L - 1 > 1,
                       value |-> IF index > L - 1 THEN L - 1 ELSE index]
        BY <1>1, <1>4, <1>5, <3>2 DEF Button
      <4> QED BY <1>2, <1>5, <3>2, <4>1
    <3> QED BY <3>1, <3>2
  <2> QED BY <1>1, <1>4, <1>5, <2>1, <2>2, <2>3, <2>4, <2>5 DEF ListedComplete
<1>13. GalleryOverrun'
  <2> SUFFICES ASSUME fate' = "overrun"
               PROVE  \/ window = "stereo" /\ rest = <<>>
                      \/ window = "measure" /\ shown' = Len(rest) + 1
    BY <1>1 DEF GalleryOverrun
  <2>1. shown' = last /\ last \notin 1..(L - 1) /\ ~(rest = <<>> /\ window = "calibrate")
    BY <1>1, <1>5
  <2>2. CASE window = "measure" /\ last = L  BY <2>1, <2>2, <1>2, <1>4
  <2>3. CASE L = 1
    <3>1. window \in {"stereo", "measure"}
      BY <2>1, <2>3, <1>5 DEF GalleryInv, GalleryTypeOK, Windows
    <3>2. index = 1 /\ last = 1  BY <1>2, <1>8, <2>3
    <3> QED BY <3>1, <3>2, <2>1, <2>3, <1>4, <1>5
  <2> QED BY <1>8, <2>1, <2>2, <2>3
<1>14. SelectionLag'
  <2> SUFFICES ASSUME rest # <<>>, fate' = "running"
               PROVE  /\ shown' \in 1..(L - 1)
                      /\ \/ shown' = slider'.value
                         \/ window # "measure" /\ shown' = slider'.value - 1
    BY <1>1, <1>5 DEF SelectionLag
  <2>1. last \in 1..(L - 1) /\ shown' = last  BY <1>1, <1>5
  <2>2. slider'.value = (IF index > L - 1 THEN L - 1 ELSE index)
    BY <1>1, <1>4 DEF Button
  <2> QED BY <2>1, <2>2, <1>2, <1>8
<1> QED BY <1>10, <1>11, <1>12, <1>13, <1>14 DEF GalleryInv

\* Every step keeps the invariant.
LEMMA GalleryNextInv == GalleryInv /\ [GalleryNext]_galleryVars => GalleryInv'
<1> SUFFICES ASSUME GalleryInv, [GalleryNext]_galleryVars PROVE GalleryInv'
  OBVIOUS
<1>1. CASE UNCHANGED galleryVars
  BY <1>1 DEF GalleryInv, GalleryTypeOK, Ahead, ListedComplete, GalleryOverrun,
              SelectionLag, Extensions, galleryVars
<1> SUFFICES ASSUME fate = "running", GalleryNext PROVE GalleryInv'
  BY <1>1 DEF GalleryNext
<1>t. /\ slider \in [max : Nat, value : Nat, on : BOOLEAN]
      /\ playing \in BOOLEAN /\ picture \in BOOLEAN
      /\ files \subseteq Numbers \X {"jpg", "txt", "bmp"}
      /\ window \in Windows /\ count \in 0..MaxCount /\ MaxCount \in Nat
  BY GalleryAssumption DEF GalleryInv, GalleryTypeOK
<1>2. CASE GalleryPreviewStart
  <2>1. slider' = [slider EXCEPT !.on = FALSE] /\ playing' = TRUE
    BY <1>2 DEF GalleryPreviewStart
  <2>2. /\ slider' \in [max : Nat, value : Nat, on : BOOLEAN]
        /\ slider'.max = slider.max /\ slider'.value = slider.value
    BY <2>1, <1>t
  <2> QED BY <1>2, <1>t, <2>1, <2>2, QuietStep DEF GalleryPreviewStart
<1>3. CASE GalleryPreviewStop
  <2>1. slider' = [slider EXCEPT !.on = TRUE] /\ playing' = FALSE
    BY <1>3 DEF GalleryPreviewStop
  <2>2. /\ slider' \in [max : Nat, value : Nat, on : BOOLEAN]
        /\ slider'.max = slider.max /\ slider'.value = slider.value
    BY <2>1, <1>t
  <2> QED BY <1>3, <1>t, <2>1, <2>2, QuietStep DEF GalleryPreviewStop
<1>4. CASE GalleryFrame
  BY <1>4, <1>t, QuietStep DEF GalleryFrame
<1>5. CASE CaptureFound
  BY <1>5, CaptureFoundInv
<1>6. CASE CaptureMissed
  <2>1. /\ count + 1 \in Numbers
        /\ \A n \in 1..count : <<count + 1, "jpg">> \notin {n} \X Extensions
    BY <1>6, <1>t DEF CaptureMissed, Numbers
  <2>2. files' \subseteq Numbers \X {"jpg", "txt", "bmp"}
    BY <1>6, <1>t, <2>1 DEF CaptureMissed, NextNumber
  <2>3. \A n \in 1..count : ({n} \X Extensions) \intersect files \subseteq files'
    BY <1>6, <2>1 DEF CaptureMissed, NextNumber
  <2> QED BY <1>6, <1>t, <2>2, <2>3, QuietStep DEF CaptureMissed
<1>7. CASE CaptureNothing
  BY <1>7, <1>t, QuietStep DEF CaptureNothing
<1>8. CASE Delete
  BY <1>8, DeleteInv
<1>9. CASE Slide
  <2> PICK v \in (1..slider.max) \ {slider.value} :
        slider' = [slider EXCEPT !.value = v] /\ shown' = v
    BY <1>9 DEF Slide
  <2>1. UNCHANGED <<window, count, imgs, playing, picture, files, fate>>
    BY <1>9 DEF Slide
  <2>2. v \in Nat /\ v \in 1..slider.max
    BY <1>t
  <2>3. /\ slider' \in [max : Nat, value : Nat, on : BOOLEAN]
        /\ slider'.max = slider.max /\ slider'.value = v
    BY <1>t, <2>2
  <2>4. slider.max = (IF Len(imgs) = 0 THEN 1 ELSE Len(imgs))
        /\ Len(imgs) \in Nat /\ Len(imgs) <= count
        /\ (imgs = <<>> <=> Len(imgs) = 0) /\ DOMAIN imgs = 1..Len(imgs)
        /\ slider.value \in 1..slider.max
    BY ListFacts
  <2>5. Len(imgs) # 0  BY <2>2, <2>4
  <2>6. shown' \in 0..MaxCount  BY <1>t, <2>2, <2>4, <2>5
  <2>7. GalleryTypeOK'  BY <2>1, <2>3, <2>6 DEF GalleryInv, GalleryTypeOK
  <2>8. Ahead'  BY <2>1 DEF GalleryInv, Ahead
  <2>9. ListedComplete'
    BY <2>1, <2>2, <2>3 DEF GalleryInv, ListedComplete, Extensions
  <2>10. GalleryOverrun'  BY <2>1 DEF GalleryOverrun
  <2>11. SelectionLag'  BY <2>1, <2>2, <2>3, <2>4, <2>5 DEF SelectionLag
  <2> QED BY <2>7, <2>8, <2>9, <2>10, <2>11 DEF GalleryInv
<1>10. CASE Reopen \/ Restart
  <2>1. /\ imgs' = <<>> /\ playing' = FALSE /\ picture' = FALSE /\ shown' = 0
        /\ slider' = [max |-> 1, value |-> 1, on |-> FALSE]
        /\ UNCHANGED <<window, files, fate>>
    BY <1>10 DEF Reopen, Restart
  <2>2. count' \in 0..MaxCount
    <3>1. CASE Reopen
      <4>1. CASE window = "calibrate"
        <5>1. count' \in count..MaxCount  BY <3>1, <4>1 DEF Reopen
        <5> QED BY <5>1, <1>t
      <4>2. CASE window # "calibrate"
        <5>1. count' \in count..count  BY <3>1, <4>2 DEF Reopen
        <5> QED BY <5>1, <1>t
      <4> QED BY <4>1, <4>2
    <3>2. CASE Restart  BY <3>2, <1>t DEF Restart
    <3> QED BY <1>10, <3>1, <3>2
  <2>3. /\ slider' \in [max : Nat, value : Nat, on : BOOLEAN]
        /\ slider'.max = 1 /\ slider'.value = 1
    BY <2>1
  <2> QED BY <2>1, <2>2, <2>3, <1>t, EmptyList
<1> QED BY <1>2, <1>3, <1>4, <1>5, <1>6, <1>7, <1>8, <1>9, <1>10 DEF GalleryNext

LEMMA GallerySpecInv == GallerySpec => []GalleryInv
BY GalleryInitInv, GalleryNextInv, PTL DEF GallerySpec

\* Whatever the user captures, deletes and opens again, every listed image
\* has all its files and the slider selects one of the list.
THEOREM ListedCompleteTheorem == GallerySpec => []ListedComplete
<1>1. GalleryInv => ListedComplete  BY DEF GalleryInv
<1> QED BY <1>1, GallerySpecInv, PTL

\* The list is read out of its bounds in the two cases of GalleryOverrun only.
THEOREM GalleryOverrunTheorem == GallerySpec => []GalleryOverrun
<1>1. GalleryInv => GalleryOverrun  BY DEF GalleryInv
<1> QED BY <1>1, GallerySpecInv, PTL

\* The image that is shown is the selected one or its left neighbour.
THEOREM SelectionLagTheorem == GallerySpec => []SelectionLag
<1>1. GalleryInv => SelectionLag  BY DEF GalleryInv
<1> QED BY <1>1, GallerySpecInv, PTL

-----------------------------------------------------------------------------
(***************************************************************************)
(* ManualMarkers.                                                          *)
(***************************************************************************)
\* The strengthening: a window without an origin has no markers, and clicked
\* names do not exceed the counter of their side.
Numbered ==
  /\ origin = "none" => \A s \in Sides : markers[s] = <<>>
  /\ origin = "clicked" =>
       \A s \in Sides : \A n \in ToSet(markers[s]) : n <= clicked[s]

MarkersInv ==
  /\ MarkersTypeOK
  /\ Numbered
  /\ origin # "mixed" => NamesDistinct

\* Distinct names on the left are enough for the pairing to be one to one.
LEMMA DistinctPairing == MarkersInv => PairingIsABijection
BY DEF MarkersInv, PairingIsABijection, NamesDistinct, Sides, IsInjective, Partner

LEMMA EmptyNames == IsInjective(<<>>) /\ ToSet(<<>>) = {}
<1>1. DOMAIN <<>> = {}  OBVIOUS
<1> QED BY <1>1 DEF IsInjective, ToSet

LEMMA MarkersInitInv == MarkersInit => MarkersInv
<1> SUFFICES ASSUME MarkersInit PROVE MarkersInv
  OBVIOUS
<1>1. \A s \in Sides : markers[s] = <<>>  BY DEF MarkersInit
<1>2. MarkersTypeOK
  <2>1. MaxName \in Nat /\ MaxMarkers \in Nat  BY MarkersAssumption
  <2>2. <<>> \in Seq(Names) /\ Len(<<>>) = 0 /\ 0 \in 0..MaxName  BY <2>1
  <2>3. markers \in [Sides -> Seq(Names)] /\ clicked \in [Sides -> 0..MaxName]
    BY <2>2 DEF MarkersInit
  <2> QED BY <1>1, <2>1, <2>2, <2>3 DEF MarkersInit, MarkersTypeOK, Sides
<1>3. Numbered  BY <1>1 DEF MarkersInit, Numbered
<1>4. NamesDistinct  BY <1>1, EmptyNames DEF NamesDistinct
<1> QED BY <1>2, <1>3, <1>4 DEF MarkersInv

\* dealwithCreatSignal: the next number is above every clicked name.
LEMMA ClickInv == MarkersInv /\ Click => MarkersInv'
<1> SUFFICES ASSUME MarkersInv, Click PROVE MarkersInv'
  OBVIOUS
<1> DEFINE n == clicked[focus] + 1
<1>1. /\ clicked[focus] < MaxName /\ Len(markers[focus]) < MaxMarkers
      /\ clicked' = [clicked EXCEPT ![focus] = n]
      /\ markers' = [markers EXCEPT ![focus] = Append(@, clicked'[focus])]
      /\ origin' = IF origin \in {"none", "clicked"} THEN "clicked" ELSE "mixed"
      /\ focus' = focus /\ photo' = photo /\ ended' = ended
  BY DEF Click, NextName
<1>2. /\ markers \in [Sides -> Seq(Names)] /\ clicked \in [Sides -> 0..MaxName]
      /\ focus \in Sides /\ MaxName \in Nat /\ MaxMarkers \in Nat
      /\ \A s \in Sides : Len(markers[s]) <= MaxMarkers
  BY MarkersAssumption DEF MarkersInv, MarkersTypeOK
<1>3. n \in Names /\ n \in 0..MaxName /\ clicked'[focus] = n
  BY <1>1, <1>2 DEF Names
<1>4. /\ markers'[focus] = Append(markers[focus], n)
      /\ \A s \in Sides \ {focus} : markers'[s] = markers[s] /\ clicked'[s] = clicked[s]
  BY <1>1, <1>2, <1>3
<1>5. markers[focus] \in Seq(Names)  BY <1>2
<1>6. /\ Append(markers[focus], n) \in Seq(Names)
      /\ Len(Append(markers[focus], n)) = Len(markers[focus]) + 1
  BY <1>3, <1>5
<1>7. MarkersTypeOK'
  <2>1. markers' \in [Sides -> Seq(Names)]
    BY <1>1, <1>2, <1>3, <1>6
  <2>2. clicked' \in [Sides -> 0..MaxName]  BY <1>1, <1>2, <1>3
  <2>3. \A s \in Sides : Len(markers'[s]) <= MaxMarkers
    <3> TAKE s \in Sides
    <3>1. CASE s = focus  BY <3>1, <1>1, <1>2, <1>4, <1>5, <1>6
    <3>2. CASE s # focus  BY <3>2, <1>2, <1>4
    <3> QED BY <3>1, <3>2
  <2> QED BY <1>1, <2>1, <2>2, <2>3 DEF MarkersInv, MarkersTypeOK
<1>8. CASE origin \in {"none", "clicked"}
  <2>1. \A s \in Sides : \A m \in ToSet(markers[s]) : m <= clicked[s]
    BY <1>8, EmptyNames DEF MarkersInv, Numbered
  <2>2. ToSet(markers[focus]) \subseteq Names
    BY <1>5, ElementOfSeq DEF ToSet
  <2>3. n \notin ToSet(markers[focus])
    <3>1. \A m \in ToSet(markers[focus]) : m < n
      BY <1>2, <2>1, <2>2 DEF Names
    <3>2. ~(n < n)  BY <1>3 DEF Names
    <3> QED BY <3>1, <3>2
  <2>4. \A s \in Sides : IsInjective(markers[s])
    BY <1>8 DEF MarkersInv, NamesDistinct
  <2>5. /\ IsInjective(markers'[focus])
        /\ ToSet(markers'[focus]) = ToSet(markers[focus]) \union {n}
    BY <1>2, <1>3, <1>4, <1>5, <2>3, <2>4, AppendElements
  <2>6. NamesDistinct'  BY <1>4, <2>4, <2>5 DEF NamesDistinct
  <2>7. \A s \in Sides : \A m \in ToSet(markers'[s]) : m <= clicked'[s]
    <3> TAKE s \in Sides
    <3>1. CASE s # focus  BY <3>1, <1>4, <2>1
    <3>2. CASE s = focus
      <4>1. \A m \in ToSet(markers[focus]) : m <= n
        BY <1>2, <2>1, <2>2 DEF Names
      <4>2. n <= n  BY <1>3
      <4> QED BY <3>2, <4>1, <4>2, <1>3, <2>5
    <3> QED BY <3>1, <3>2
  <2>8. origin' = "clicked"  BY <1>1, <1>8
  <2> QED BY <1>7, <2>6, <2>7, <2>8 DEF MarkersInv, Numbered
<1>9. CASE origin \notin {"none", "clicked"}
  <2>1. origin' = "mixed"  BY <1>1, <1>9
  <2>2. MarkersTypeOK' /\ Numbered'  BY <1>7, <2>1 DEF Numbered
  <2> QED BY <2>1, <2>2 DEF MarkersInv
<1> QED BY <1>8, <1>9

\* The detectors: in a window without markers the names 1..n are distinct.
LEMMA DetectInv == MarkersInv /\ Detect => MarkersInv'
<1> SUFFICES ASSUME MarkersInv, Detect PROVE MarkersInv'
  OBVIOUS
<1> PICK n \in [Sides -> 0..MaxName] :
      /\ \A s \in Sides : Len(markers[s]) + n[s] <= MaxMarkers
      /\ markers' = [s \in Sides |-> markers[s] \o UpTo(n[s])]
  BY DEF Detect
<1>1. /\ origin' = IF origin = "none" THEN "detected" ELSE "mixed"
      /\ UNCHANGED <<clicked, focus, photo, ended>>
  BY DEF Detect
<1>2. MaxName \in Nat /\ \A s \in Sides : markers[s] \in Seq(Names)
  BY MarkersAssumption DEF MarkersInv, MarkersTypeOK
<1>3. ASSUME NEW s \in Sides
      PROVE  /\ UpTo(n[s]) \in Seq(Names) /\ Len(UpTo(n[s])) = n[s]
             /\ IsInjective(UpTo(n[s]))
  <2>1. n[s] \in 0..MaxName  OBVIOUS
  <2>2. \A i \in 1..n[s] : i \in Names  BY <1>2, <2>1 DEF Names
  <2>3. UpTo(n[s]) \in [1..n[s] -> Names]  BY <2>2 DEF UpTo
  <2>4. n[s] \in Nat  BY <1>2, <2>1
  <2>5. UpTo(n[s]) \in Seq(Names)  BY <2>3, <2>4, IsASeq
  <2>6. DOMAIN UpTo(n[s]) = 1..n[s] /\ \A i \in 1..n[s] : UpTo(n[s])[i] = i
    BY DEF UpTo
  <2>7. Len(UpTo(n[s])) = n[s]  BY <2>4, <2>5, <2>6, LenProperties
  <2>8. IsInjective(UpTo(n[s]))  BY <2>6, Zenon DEF IsInjective
  <2> QED BY <2>5, <2>7, <2>8
<1>4. ASSUME NEW s \in Sides
      PROVE  markers'[s] \in Seq(Names) /\ Len(markers'[s]) <= MaxMarkers
  <2>1. markers'[s] = markers[s] \o UpTo(n[s])  OBVIOUS
  <2>2. /\ markers[s] \o UpTo(n[s]) \in Seq(Names)
        /\ Len(markers[s] \o UpTo(n[s])) = Len(markers[s]) + Len(UpTo(n[s]))
    BY <1>2, <1>3, ConcatProperties
  <2> QED BY <1>3, <2>1, <2>2
<1>5. MarkersTypeOK'
  <2>1. markers' \in [Sides -> Seq(Names)]  BY <1>4
  <2> QED BY <1>1, <1>4, <2>1 DEF MarkersInv, MarkersTypeOK
<1>6. CASE origin = "none"
  <2>1. \A s \in Sides : markers'[s] = UpTo(n[s])
    <3> TAKE s \in Sides
    <3>1. markers[s] = <<>>  BY <1>6 DEF MarkersInv, Numbered
    <3>2. <<>> \o UpTo(n[s]) = UpTo(n[s])  BY <1>3, ConcatEmptySeq
    <3> QED BY <3>1, <3>2
  <2> QED BY <1>1, <1>3, <1>5, <1>6, <2>1 DEF MarkersInv, NamesDistinct, Numbered
<1>7. CASE origin # "none"
  BY <1>1, <1>5, <1>7 DEF MarkersInv, Numbered
<1> QED BY <1>6, <1>7

\* A new text for one marker.
LEMMA RenameInv == MarkersInv /\ Rename => MarkersInv'
<1> SUFFICES ASSUME MarkersInv, Rename PROVE MarkersInv'
  OBVIOUS
<1> PICK s \in Sides : \E i \in DOMAIN markers[s], m \in Names :
      markers' = [markers EXCEPT ![s][i] = m]
  BY DEF Rename
<1> PICK i \in DOMAIN markers[s], m \in Names :
      markers' = [markers EXCEPT ![s][i] = m]
  OBVIOUS
<1>1. origin' = "mixed" /\ UNCHANGED <<clicked, focus, photo, ended>>
  BY DEF Rename
<1>2. /\ markers \in [Sides -> Seq(Names)] /\ markers[s] \in Seq(Names)
      /\ \A t \in Sides : Len(markers[t]) <= MaxMarkers
  BY DEF MarkersInv, MarkersTypeOK
<1>3. /\ [markers[s] EXCEPT ![i] = m] \in Seq(Names)
      /\ Len([markers[s] EXCEPT ![i] = m]) = Len(markers[s])
  <2>1. i \in 1..Len(markers[s])  BY <1>2
  <2> QED BY <1>2, <2>1, ExceptSeq
<1>4. \A t \in Sides : markers'[t] = IF t = s THEN [markers[s] EXCEPT ![i] = m]
                                              ELSE markers[t]
  BY <1>2
<1>5. markers' \in [Sides -> Seq(Names)]
  BY <1>2, <1>3
<1>6. \A t \in Sides : Len(markers'[t]) <= MaxMarkers
  BY <1>2, <1>3, <1>4
<1> QED BY <1>1, <1>5, <1>6 DEF MarkersInv, MarkersTypeOK, Numbered

\* dealwithDeleteSignal, one marker.
LEMMA DeleteMarkerInv == MarkersInv /\ DeleteMarker => MarkersInv'
<1> SUFFICES ASSUME MarkersInv, DeleteMarker PROVE MarkersInv'
  OBVIOUS
<1> PICK s \in Sides : \E i \in DOMAIN markers[s] :
      markers' = [markers EXCEPT ![s] = RemoveAt(@, i)]
  BY DEF DeleteMarker
<1> PICK i \in DOMAIN markers[s] :
      markers' = [markers EXCEPT ![s] = RemoveAt(@, i)]
  OBVIOUS
<1> DEFINE rest == RemoveAt(markers[s], i)
<1>1. UNCHANGED <<clicked, focus, photo, origin, ended>>
  BY DEF DeleteMarker
<1>2. /\ markers \in [Sides -> Seq(Names)] /\ markers[s] \in Seq(Names)
      /\ \A t \in Sides : Len(markers[t]) <= MaxMarkers
      /\ Len(markers[s]) \in Nat /\ MaxMarkers \in Nat
      /\ i \in 1..Len(markers[s])
  BY MarkersAssumption DEF MarkersInv, MarkersTypeOK
<1>3. rest \in Seq(Names) /\ Len(rest) = Len(markers[s]) - 1
  BY <1>2, RemoveAtLemma
<1>4. IsInjective(markers[s]) =>
        IsInjective(rest) /\ ToSet(rest) \subseteq ToSet(markers[s])
  BY <1>2, RemoveAtElements
<1>5. \A t \in Sides : markers'[t] = IF t = s THEN rest ELSE markers[t]
  BY <1>2
<1>6. markers' \in [Sides -> Seq(Names)]
  BY <1>2, <1>3
<1> HIDE DEF rest
<1>7. \A t \in Sides : Len(markers'[t]) <= MaxMarkers
  <2> TAKE t \in Sides
  <2>1. CASE t = s  BY <2>1, <1>2, <1>3, <1>5
  <2>2. CASE t # s  BY <2>2, <1>2, <1>5
  <2> QED BY <2>1, <2>2
<1>8. MarkersTypeOK'
  BY <1>1, <1>6, <1>7 DEF MarkersInv, MarkersTypeOK
<1>9. origin # "none"
  <2>1. markers[s] # <<>>  BY <1>2, EmptySeq
  <2> QED BY <2>1 DEF MarkersInv, Numbered
<1>10. CASE origin # "mixed"
  <2>1. \A t \in Sides : IsInjective(markers[t])
    BY <1>10 DEF MarkersInv, NamesDistinct
  <2>2. NamesDistinct'  BY <1>4, <1>5, <2>1 DEF NamesDistinct
  <2>3. Numbered'
    <3>1. \A t \in Sides : ToSet(markers'[t]) \subseteq ToSet(markers[t])
      BY <1>4, <1>5, <2>1
    <3> QED BY <1>1, <1>9, <3>1 DEF MarkersInv, Numbered
  <2> QED BY <1>8, <2>2, <2>3 DEF MarkersInv
<1>11. CASE origin = "mixed"
  BY <1>1, <1>8, <1>11 DEF MarkersInv, Numbered
<1> QED BY <1>10, <1>11

LEMMA ReopenManualInv == MarkersInv /\ ReopenManual => MarkersInv'
<1> SUFFICES ASSUME MarkersInv, ReopenManual PROVE MarkersInv'
  OBVIOUS
<1>1. /\ markers' = [s \in Sides |-> <<>>] /\ focus' = "left" /\ origin' = "none"
      /\ UNCHANGED <<clicked, photo, ended>>
  BY DEF ReopenManual
<1>2. \A s \in Sides : markers'[s] = <<>>  BY <1>1
<1>3. MarkersTypeOK'
  <2>1. <<>> \in Seq(Names) /\ Len(<<>>) = 0  OBVIOUS
  <2>2. markers' \in [Sides -> Seq(Names)]  BY <1>1, <2>1
  <2>3. \A s \in Sides : Len(markers'[s]) <= MaxMarkers
    BY <1>2, <2>1, MarkersAssumption
  <2> QED BY <1>1, <2>2, <2>3 DEF MarkersInv, MarkersTypeOK, Sides
<1>4. NamesDistinct'  BY <1>2, EmptyNames DEF NamesDistinct
<1> QED BY <1>1, <1>2, <1>3, <1>4 DEF MarkersInv, Numbered

\* Every step keeps the invariant.
LEMMA MarkersNextInv == MarkersInv /\ [MarkersNext]_markerVars => MarkersInv'
<1> SUFFICES ASSUME MarkersInv, [MarkersNext]_markerVars PROVE MarkersInv'
  OBVIOUS
<1> DEFINE Same == UNCHANGED <<markers, clicked, origin>>
<1>1. ASSUME Same, focus' \in Sides, photo' \in BOOLEAN,
             ended' \in {"no", "overrun", "crashed"}
      PROVE  MarkersInv'
  BY <1>1 DEF MarkersInv, MarkersTypeOK, Numbered, NamesDistinct
<1>2. /\ focus \in Sides /\ photo \in BOOLEAN
      /\ ended \in {"no", "overrun", "crashed"}
  BY DEF MarkersInv, MarkersTypeOK
<1>3. CASE TakePhoto  BY <1>1, <1>2, <1>3 DEF TakePhoto
<1>4. CASE Focus  BY <1>1, <1>2, <1>4 DEF Focus
<1>5. CASE Click  BY <1>5, ClickInv
<1>6. CASE Detect  BY <1>6, DetectInv
<1>7. CASE DetectLights \/ UNCHANGED markerVars
  BY <1>1, <1>2, <1>7 DEF DetectLights, markerVars
<1>8. CASE DetectNothing  BY <1>1, <1>2, <1>8 DEF DetectNothing
<1>9. CASE Rename  BY <1>9, RenameInv
<1>10. CASE DeleteMarker  BY <1>10, DeleteMarkerInv
<1>11. CASE Calculate  BY <1>1, <1>2, <1>11 DEF Calculate
<1>12. CASE ReopenManual  BY <1>12, ReopenManualInv
<1> QED BY <1>3, <1>4, <1>5, <1>6, <1>7, <1>8, <1>9, <1>10, <1>11, <1>12
        DEF MarkersNext

LEMMA MarkersSpecInv == MarkersSpec => []MarkersInv
BY MarkersInitInv, MarkersNextInv, PTL DEF MarkersSpec

\* For any number of windows, clicks and deletions: a measurement with
\* markers of one origin pairs each left marker with a right one of its own.
THEOREM PairingTheorem == MarkersSpec => []PairingIsABijection
BY MarkersSpecInv, DistinctPairing, PTL
-----------------------------------------------------------------------------
(***************************************************************************)
(* CameraGain.                                                             *)
(***************************************************************************)
GainInv == GainTypeOK /\ GainInSync

\* The invariant holds before the first group, whatever the parameters are.
LEMMA GainInitInv == GainInit => GainInv
BY GainAssumption DEF GainInit, GainInv, GainTypeOK, GainInSync, Observed

\* What Configure leaves for a camera that came up and for one that did not.
LEMMA ConfigureLemma ==
  ASSUME GainInv, NEW found \in SUBSET Devices, NEW taken \in SUBSET found,
         Configure(found, taken)
  PROVE  /\ paras' \in [{0, 1} -> Gains]
         /\ gain' \in [Devices -> Gains]
         /\ missed' \in [Devices -> BOOLEAN]
         /\ \A d \in found : paras'[IdOf[d]] = gain'[d] \/ missed'[d]
         /\ \A d \in Devices \ found :
              IdOf[d] # NoId /\ (paras[IdOf[d]] = gain[d] \/ missed[d]) =>
                paras'[IdOf[d]] = gain'[d] \/ missed'[d]
<1> DEFINE set == {d \in taken : IdOf[d] # NoId /\ ConfigGain[d] >= 0}
           stored == Latest(set)
           Of(i) == CHOOSE d \in stored : IdOf[d] = i
<1>1. /\ gain' = [d \in Devices |-> IF d \in set THEN ConfigGain[d]
                                    ELSE IF d \in found THEN DefaultGain
                                    ELSE gain[d]]
      /\ paras' = [i \in {0, 1} |-> IF \E d \in stored : IdOf[d] = i
                                      THEN ConfigGain[Of(i)] ELSE paras[i]]
      /\ missed' = [d \in Devices |->
                      IF d \in found THEN d \notin stored
                      ELSE missed[d] \/ \E e \in stored : IdOf[e] = IdOf[d]]
  BY DEF Configure
<1>2. set \subseteq found /\ set \subseteq Devices /\ stored \subseteq set
  BY DEF Latest
<1>3. \A d \in set : ConfigGain[d] \in Gains /\ IdOf[d] \in {0, 1}
  <2>1. \A d \in set : ConfigGain[d] >= 0 /\ IdOf[d] # NoId  OBVIOUS
  <2> HIDE DEF set
  <2> QED BY <2>1, <1>2, GainAssumption
<1>4. \A i \in {0, 1} : (\E d \in stored : IdOf[d] = i) => Of(i) \in stored /\ IdOf[Of(i)] = i
  OBVIOUS
<1>5. \A c, d \in stored : IdOf[c] = IdOf[d] => c = d
  <2>1. \A c, d \in stored : IdOf[c] = IdOf[d] => c <= d /\ d <= c
    BY DEF Latest
  <2>2. stored \subseteq Nat  BY <1>2, GainAssumption
  <2> HIDE DEF stored
  <2> QED BY <2>1, <2>2
<1>6. /\ paras \in [{0, 1} -> Gains] /\ gain \in [Devices -> Gains]
      /\ missed \in [Devices -> BOOLEAN] /\ DefaultGain \in Gains
      /\ \A d \in Devices : IdOf[d] # NoId => IdOf[d] \in {0, 1}
  BY GainAssumption DEF GainInv, GainTypeOK
<1> HIDE DEF set, stored, Of
<1>7. paras' \in [{0, 1} -> Gains]
  BY <1>1, <1>2, <1>3, <1>4, <1>6
<1>8. gain' \in [Devices -> Gains]
  BY <1>1, <1>3, <1>6
<1>9. missed' \in [Devices -> BOOLEAN]
  <2>1. \A d \in Devices : missed[d] \in BOOLEAN  BY <1>6, Zenon
  <2> QED BY <2>1, <1>1, Zenon
<1>10. ASSUME NEW d \in found
       PROVE  paras'[IdOf[d]] = gain'[d] \/ missed'[d]
  <2>1. CASE d \in stored
    <3>1. d \in set /\ d \in Devices /\ IdOf[d] \in {0, 1}  BY <2>1, <1>2, <1>3
    <3>2. Of(IdOf[d]) = d  BY <2>1, <3>1, <1>4, <1>5
    <3>3. paras'[IdOf[d]] = ConfigGain[d]  BY <1>1, <2>1, <3>1, <3>2
    <3>4. gain'[d] = ConfigGain[d]  BY <1>1, <3>1
    <3> QED BY <3>3, <3>4
  <2>2. CASE d \notin stored
    <3>1. d \in Devices  OBVIOUS
    <3> QED BY <1>1, <2>2, <3>1
  <2> QED BY <2>1, <2>2
<1>11. ASSUME NEW d \in Devices \ found, IdOf[d] # NoId,
              paras[IdOf[d]] = gain[d] \/ missed[d]
       PROVE  paras'[IdOf[d]] = gain'[d] \/ missed'[d]
  <2>1. CASE \E e \in stored : IdOf[e] = IdOf[d]
    <3>1. missed'[d]  BY <1>1, <2>1
    <3> QED BY <3>1
  <2>2. CASE ~\E e \in stored : IdOf[e] = IdOf[d]
    <3>1. paras'[IdOf[d]] = paras[IdOf[d]]  BY <1>1, <1>6, <1>11, <2>2
    <3>2. gain'[d] = gain[d]  BY <1>1, <1>2
    <3>3. missed[d] => missed'[d]  BY <1>1
    <3> QED BY <1>11, <3>1, <3>2, <3>3
  <2> QED BY <2>1, <2>2
<1> QED BY <1>7, <1>8, <1>9, <1>10, <1>11

\* Every step keeps it.
LEMMA GainNextInv == GainInv /\ [GainNext]_gainVars => GainInv'
<1> SUFFICES ASSUME GainInv, [GainNext]_gainVars PROVE GainInv'
  OBVIOUS
<1>1. CASE GroupOpen
  <2> PICK g \in CameraGroups, found \in SUBSET Devices :
        \E taken \in SUBSET found :
          Configure(found, taken) /\ observers' = observers \union ({g} \X Kept(found))
    BY <1>1 DEF GroupOpen
  <2> PICK taken \in SUBSET found :
        Configure(found, taken) /\ observers' = observers \union ({g} \X Kept(found))
    OBVIOUS
  <2>0. Kept(found) \subseteq {d \in found : IdOf[d] # NoId}
    BY DEF Kept, Latest
  <2>1. GainTypeOK'
    <3>1. observers \subseteq CameraGroups \X {d \in Devices : IdOf[d] # NoId}
      BY DEF GainInv, GainTypeOK
    <3>2. observers' \subseteq CameraGroups \X {d \in Devices : IdOf[d] # NoId}
      BY <2>0, <3>1
    <3> QED BY <3>2, ConfigureLemma DEF GainTypeOK
  <2>2. ASSUME NEW d \in Devices, Observed(d)'
        PROVE  (paras[IdOf[d]] = gain[d] \/ missed[d])'
    <3>1. CASE d \in found  BY <3>1, ConfigureLemma
    <3>2. CASE d \notin found
      <4>1. Observed(d)  BY <2>0, <2>2, <3>2 DEF Observed
      <4>2. paras[IdOf[d]] = gain[d] \/ missed[d]
        BY <4>1 DEF GainInv, GainInSync
      <4>3. IdOf[d] # NoId  BY <4>1 DEF Observed, GainInv, GainTypeOK
      <4> QED BY <3>2, <4>2, <4>3, ConfigureLemma
    <3> QED BY <3>1, <3>2
  <2> QED BY <2>1, <2>2 DEF GainInv, GainInSync
<1>2. CASE GroupClose
  <2>1. /\ observers' \subseteq observers
        /\ UNCHANGED <<paras, gain, missed>>
    BY <1>2 DEF GroupClose
  <2> QED BY <2>1 DEF GainInv, GainTypeOK, GainInSync, Observed
<1>3. CASE SetGain
  <2> PICK id \in {0, 1}, v \in Gains : \E taken \in SUBSET Notified(id) :
        /\ v # paras[id]
        /\ paras' = [paras EXCEPT ![id] = v]
        /\ gain' = [d \in Devices |-> IF d \in taken THEN v ELSE gain[d]]
        /\ missed' = [d \in Devices |-> IF d \in Notified(id) THEN d \notin taken
                                                              ELSE missed[d]]
    BY <1>3, Zenon DEF SetGain
  <2> PICK taken \in SUBSET Notified(id) :
        /\ paras' = [paras EXCEPT ![id] = v]
        /\ gain' = [d \in Devices |-> IF d \in taken THEN v ELSE gain[d]]
        /\ missed' = [d \in Devices |-> IF d \in Notified(id) THEN d \notin taken
                                                              ELSE missed[d]]
    BY Zenon
  <2>1. observers' = observers  BY <1>3 DEF SetGain
  <2>2. GainTypeOK'
    <3>1. GainTypeOK  BY DEF GainInv
    <3>2. paras' \in [{0, 1} -> Gains]  BY <3>1 DEF GainTypeOK
    <3>3. gain' \in [Devices -> Gains]  BY <3>1 DEF GainTypeOK
    <3>4. missed' \in [Devices -> BOOLEAN]
      <4>1. \A d \in Devices : missed'[d] \in BOOLEAN
        BY <3>1, Zenon DEF GainTypeOK
      <4> QED BY <4>1, Zenon
    <3> QED BY <2>1, <3>1, <3>2, <3>3, <3>4 DEF GainTypeOK
  <2>3. ASSUME NEW d \in Devices, Observed(d)'
        PROVE  (paras[IdOf[d]] = gain[d] \/ missed[d])'
    <3>1. Observed(d)  BY <2>1, <2>3 DEF Observed
    <3>2. IdOf[d] \in {0, 1} /\ paras \in [{0, 1} -> Gains]
      BY <3>1, GainAssumption DEF Observed, GainInv, GainTypeOK
    <3>3. CASE IdOf[d] = id
      <4>1. d \in Notified(id)  BY <3>1, <3>3 DEF Notified
      <4>2. paras'[IdOf[d]] = v  BY <3>2, <3>3
      <4>3. d \in taken => gain'[d] = v  OBVIOUS
      <4>4. missed'[d] = (d \notin taken)  BY <4>1
      <4> QED BY <4>2, <4>3, <4>4
    <3>4. CASE IdOf[d] # id
      <4>1. d \notin Notified(id)  BY <3>4 DEF Notified
      <4>2. /\ paras'[IdOf[d]] = paras[IdOf[d]] /\ gain'[d] = gain[d]
            /\ missed'[d] = missed[d]
        BY <3>2, <3>4, <4>1
      <4> QED BY <3>1, <4>2 DEF GainInv, GainInSync
    <3> QED BY <3>3, <3>4
  <2> QED BY <2>2, <2>3 DEF GainInv, GainInSync
<1>4. CASE UNCHANGED gainVars
  BY <1>4 DEF GainInv, GainTypeOK, GainInSync, Observed, gainVars
<1> QED BY <1>1, <1>2, <1>3, <1>4 DEF GainNext

LEMMA GainSpecInv == GainSpec => []GainInv
BY GainInitInv, GainNextInv, PTL DEF GainSpec

\* For any number of cameras and groups, what the user sees is the gain of
\* the camera, unless it refused it, para.json has none, or a camera of its id
\* got another one.
THEOREM GainInSyncTheorem == GainSpec => []GainInSync
<1>1. GainInv => GainInSync  BY DEF GainInv
<1> QED BY <1>1, GainSpecInv, PTL

-----------------------------------------------------------------------------
(***************************************************************************)
(* The windows together: what runs next to a window leaves it alone, so    *)
(* each component of MCWindows behaves as it does on its own.              *)
(***************************************************************************)
LEMMA ComponentsRun ==
  WindowsSpec => GallerySpec /\ MarkersSpec /\ PlayerSpec /\ PointsSpec /\ GainSpec
<1>1. WindowsInit => GalleryInit /\ MarkersInit /\ PlayerInit /\ PointsInit /\ GainInit
  BY DEF WindowsInit
<1>2. [WindowsNext]_windowsVars =>
        /\ [GalleryNext]_galleryVars /\ [MarkersNext]_markerVars /\ [PlayerNext]_playerVars
        /\ [PointsNext]_pointVars /\ [GainNext]_gainVars
  BY DEF WindowsNext, Only, windowsVars
<1> QED BY <1>1, <1>2, PTL
        DEF WindowsSpec, GallerySpec, MarkersSpec, PlayerSpec, PointsSpec, GainSpec

(***************************************************************************)
(* Type correctness of the windows, whichever of them is used: the counter *)
(* and the numbers of the gallery, the names and markers of the manual     *)
(* windows, the slider and timers of the player, the tracking points and   *)
(* the gains stay what the code takes them for.                            *)
(***************************************************************************)
THEOREM WindowsTypeTheorem == WindowsSpec => []WindowsTypeOK
<1>1. GalleryInv /\ MarkersInv /\ PlayerInv /\ PointsInv /\ GainInv => WindowsTypeOK
  BY DEF GalleryInv, MarkersInv, PlayerInv, PointsInv, GainInv, WindowsTypeOK
<1> QED BY <1>1, ComponentsRun, GallerySpecInv, MarkersSpecInv, PlayerSpecInv, PointsSpecInv,
           GainSpecInv, PTL

(***************************************************************************)
(* Every property of the windows holds in the run of all of them.          *)
(***************************************************************************)
THEOREM WindowsTheorem ==
  WindowsSpec => [](/\ ListedComplete /\ GalleryOverrun /\ SelectionLag
                    /\ PairingIsABijection /\ PlayerShowsSlider /\ PointsAgree
                    /\ GainInSync)
BY ComponentsRun, ListedCompleteTheorem, GalleryOverrunTheorem, SelectionLagTheorem,
   PairingTheorem, PlayerTheorem, PointsTheorem, GainInSyncTheorem, PTL
=============================================================================
