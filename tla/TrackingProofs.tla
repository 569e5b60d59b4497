--------------------------- MODULE TrackingProofs ---------------------------
(***************************************************************************)
(* Proofs about TrackingPlayer, for every set of recordings, and about     *)
(* TrackingPoints, for every set of names.                                 *)
(***************************************************************************)
EXTENDS TrackingPlayer, TrackingPoints, SequenceLemmas

PlayerInv ==
  /\ PlayerTypeOK
  /\ mbPlay => timers > 0
  /\ PlayerShowsSlider

\* The numbers of an open recording, and the slider within them.
LEMMA OpenedFacts ==
  ASSUME PlayerInv, Opened, ~lost
  PROVE  /\ recording.first \in Nat /\ recording.last \in Nat /\ recording.lines \in Nat
         /\ recording.first <= recording.last
         /\ cursor.min = recording.first /\ cursor.max = recording.last
         /\ cursor.value \in cursor.min..cursor.max
         /\ cursor \in [min : Nat, max : Nat, value : Nat]
         /\ recording \in Recordings
BY RecordingsAssumption DEF PlayerInv, PlayerTypeOK, PlayerShowsSlider, Opened

\* An index within the range of a recording has a time if none is skipped.
LEMMA SkippedIndex ==
  ASSUME NEW r, r.first \in Nat, r.last \in Nat, r.lines \in Nat,
         NEW v \in r.first..r.last, ~HasTime(r, v)
  PROVE  r.lines <= r.last - r.first
<1> DEFINE f == r.first
           e == r.last
           n == r.lines
<1>1. f \in Nat /\ e \in Nat /\ n \in Nat /\ v \in f..e  OBVIOUS
<1>2. ~(v - f \in 0..(n - 1))  BY DEF HasTime
<1> HIDE DEF f, e, n
<1>3. n <= e - f  BY <1>1, <1>2
<1> QED BY <1>3 DEF f, e, n

\* A move of the slider within its range keeps the invariant.
LEMMA MoveToInv ==
  ASSUME PlayerInv, Opened, ~lost, NEW v \in cursor.min..cursor.max, MoveTo(v),
         UNCHANGED <<recording, mbPlay, timers>>
  PROVE  PlayerInv'
<1>1. /\ recording.first \in Nat /\ recording.last \in Nat /\ recording.lines \in Nat
      /\ cursor.min = recording.first /\ cursor.max = recording.last
      /\ cursor \in [min : Nat, max : Nat, value : Nat]
  BY OpenedFacts
<1>2. /\ cursor' = [cursor EXCEPT !.value = v] /\ painted' = <<recording.id, v>>
      /\ lost' = ~HasTime(recording, v)
  BY DEF MoveTo
<1>3. v \in Nat  BY <1>1
<1>4. /\ cursor' \in [min : Nat, max : Nat, value : Nat]
      /\ cursor'.min = cursor.min /\ cursor'.max = cursor.max /\ cursor'.value = v
  BY <1>1, <1>2, <1>3
<1>5. PlayerTypeOK'
  <2>1. lost' \in BOOLEAN  BY <1>2
  <2> QED BY <1>4, <2>1 DEF PlayerInv, PlayerTypeOK
<1>6. lost' => recording.lines <= recording.last - recording.first
  <2>1. v \in recording.first..recording.last  BY <1>1
  <2>2. lost' => ~HasTime(recording, v)  BY <1>2
  <2> QED BY <1>1, <2>1, <2>2, SkippedIndex
<1>7. HasTime(recording', v) <=> HasTime(recording, v)
  OBVIOUS
<1>8. PlayerShowsSlider'
  <2>1. painted' = <<recording'.id, cursor'.value>>  BY <1>2, <1>4
  <2>2. cursor'.min = recording'.first /\ cursor'.max = recording'.last
    BY <1>1, <1>4
  <2>3. cursor'.value \in cursor'.min..cursor'.max  BY <1>4
  <2>4. ~lost' => HasTime(recording, v)  BY <1>2
  <2>5. ~lost' => HasTime(recording', cursor'.value)
    BY <1>4, <2>4 DEF HasTime
  <2>6. lost' => recording'.lines <= recording'.last - recording'.first
    BY <1>6
  <2> QED BY <2>1, <2>2, <2>3, <2>5, <2>6 DEF PlayerShowsSlider, HasTime
<1> QED BY <1>5, <1>8 DEF PlayerInv

\* open(): no value that the slider takes on its way is outside the recording.
LEMMA OpenRecordingInv ==
  ASSUME PlayerInv, ~lost, OpenRecording
  PROVE  PlayerInv'
<1> DEFINE Up(r)   == IF cursor.value < r.first THEN r.first ELSE cursor.value
           Down(r) == IF Up(r) > r.last THEN r.last ELSE Up(r)
           Seen(r) == {r.first} \union ({Down(r)} \ {Up(r)})
<1> PICK r \in Recordings :
      /\ recording' = r
      /\ cursor' = RangeOf(r)
      /\ painted' = <<r.id, r.first>>
      /\ lost' = (\E v \in Seen(r) : ~HasTime(r, v))
  BY Zenon DEF OpenRecording
<1>1. mbPlay' = FALSE /\ timers' = timers
  BY DEF OpenRecording
<1>2. /\ r.first \in Nat /\ r.last \in Nat /\ r.lines \in Nat
      /\ cursor.value \in Nat
  BY RecordingsAssumption DEF PlayerInv, PlayerTypeOK
<1>down. CASE r.last < r.first
  <2>1. Down(r) = r.last /\ Down(r) # Up(r)  BY <1>2, <1>down
  <2>2. ~HasTime(r, r.last)  BY <1>2, <1>down DEF HasTime
  <2>3. lost'  BY <2>1, <2>2
  <2>4. cursor' \in [min : Nat, max : Nat, value : Nat]  BY <1>2, <1>down DEF RangeOf
  <2>5. PlayerTypeOK'  BY <1>1, <2>3, <2>4 DEF PlayerInv, PlayerTypeOK
  <2>6. PlayerShowsSlider'  BY <1>down, <2>3 DEF PlayerShowsSlider
  <2> QED BY <1>1, <2>5, <2>6 DEF PlayerInv
<1> SUFFICES ASSUME ~(r.last < r.first) PROVE PlayerInv'  BY <1>down
<1>up. r.first <= r.last  BY <1>2
<1>3. Down(r) \in r.first..r.last  BY <1>2, <1>up
<1> HIDE DEF Down, Up
<1>4. \A v \in Seen(r) : v \in r.first..r.last  BY <1>2, <1>3, <1>up
<1>5. r.first \in Seen(r)  OBVIOUS
<1> HIDE DEF Seen
<1>6. /\ cursor' \in [min : Nat, max : Nat, value : Nat]
      /\ cursor'.min = r.first /\ cursor'.max = r.last /\ cursor'.value = r.first
  BY <1>2, <1>up DEF RangeOf
<1>7. PlayerTypeOK'
  <2>1. lost' \in BOOLEAN  OBVIOUS
  <2> QED BY <1>1, <1>6, <2>1 DEF PlayerInv, PlayerTypeOK
<1>8. lost' => r.lines <= r.last - r.first
  <2>1. lost' => \E v \in Seen(r) : ~HasTime(r, v)  OBVIOUS
  <2> QED BY <2>1, <1>2, <1>4, SkippedIndex
<1>9. ~lost' => HasTime(r, r.first)
  BY <1>5
<1>10. PlayerShowsSlider'
  <2>1. r.first \in r.first..r.last  BY <1>2, <1>up
  <2>2. ~lost' => HasTime(recording', cursor'.value)
    BY <1>6, <1>9 DEF HasTime
  <2>3. painted' = <<recording'.id, cursor'.value>>  BY <1>6
  <2>4. cursor'.min = recording'.first /\ cursor'.max = recording'.last
    BY <1>6
  <2>5. cursor'.value \in cursor'.min..cursor'.max  BY <1>6, <2>1
  <2>6. lost' => recording'.lines <= recording'.last - recording'.first
    BY <1>8
  <2> QED BY <2>2, <2>3, <2>4, <2>5, <2>6 DEF PlayerShowsSlider, HasTime
<1> QED BY <1>1, <1>7, <1>10 DEF PlayerInv

LEMMA PlayerNextInv == PlayerInv /\ [PlayerNext]_playerVars => PlayerInv'
<1> SUFFICES ASSUME PlayerInv, [PlayerNext]_playerVars PROVE PlayerInv'
  OBVIOUS
<1>1. CASE UNCHANGED playerVars
  BY <1>1 DEF playerVars, PlayerInv, PlayerTypeOK, PlayerShowsSlider, Opened, HasTime
<1> SUFFICES ASSUME ~lost, PlayerNext PROVE PlayerInv'
  BY <1>1 DEF PlayerNext
<1>2. CASE OpenRecording  BY <1>2, OpenRecordingInv
<1>3. CASE Play
  <2>1. UNCHANGED <<recording, cursor, painted, lost>>  BY <1>3 DEF Play
  <2>2. timers' \in 0..MaxTimers /\ mbPlay' \in BOOLEAN /\ (mbPlay' => timers' > 0)
    BY <1>3, RecordingsAssumption DEF Play, PlayerInv, PlayerTypeOK
  <2> QED BY <2>1, <2>2
          DEF PlayerInv, PlayerTypeOK, PlayerShowsSlider, Opened, HasTime
<1>4. CASE StepOn
  <2>1. Opened /\ MoveTo(After(cursor.value)) /\ UNCHANGED <<recording, mbPlay, timers>>
    BY <1>4 DEF StepOn
  <2>2. After(cursor.value) \in cursor.min..cursor.max
    BY <2>1, OpenedFacts DEF After
  <2> QED BY <2>1, <2>2, MoveToInv
<1>5. CASE StepBack
  <2>1. Opened /\ MoveTo(Before(cursor.value)) /\ UNCHANGED <<recording, mbPlay, timers>>
    BY <1>5 DEF StepBack
  <2>2. Before(cursor.value) \in cursor.min..cursor.max
    BY <2>1, OpenedFacts DEF Before
  <2> QED BY <2>1, <2>2, MoveToInv
<1>6. CASE DragSlider  BY <1>6, MoveToInv DEF DragSlider
<1> QED BY <1>2, <1>3, <1>4, <1>5, <1>6 DEF PlayerNext

LEMMA PlayerSpecInv == PlayerSpec => []PlayerInv
<1>1. PlayerInit => PlayerInv
  <2> SUFFICES ASSUME PlayerInit PROVE PlayerInv
    OBVIOUS
  <2>1. 0 \in 0..MaxTimers  BY RecordingsAssumption
  <2>2. PlayerTypeOK  BY <2>1 DEF PlayerInit, PlayerTypeOK
  <2>3. PlayerShowsSlider  BY DEF PlayerInit, PlayerShowsSlider, Opened
  <2>4. ~mbPlay  BY DEF PlayerInit
  <2> QED BY <2>2, <2>3, <2>4 DEF PlayerInv
<1> QED BY <1>1, PlayerNextInv, PTL DEF PlayerSpec

\* Whatever is opened, played and dragged, the screen shows the frame at the
\* slider, and only a recording that skips an index, or counts down, is read out
\* of bounds.
THEOREM PlayerTheorem == PlayerSpec => []PlayerShowsSlider
<1>1. PlayerInv => PlayerShowsSlider  BY DEF PlayerInv
<1> QED BY <1>1, PlayerSpecInv, PTL

-----------------------------------------------------------------------------
PointsInv == PointsTypeOK /\ PointsAgree

\* Taking an element out of a list: which names are left, and how often.
LEMMA RemoveAtNames ==
  ASSUME NEW S, NEW s \in Seq(S), NEW i \in 1..Len(s)
  PROVE  /\ RemoveAt(s, i) \in Seq(S)
         /\ ToSet(RemoveAt(s, i)) \subseteq ToSet(s)
         /\ ToSet(s) \ {s[i]} \subseteq ToSet(RemoveAt(s, i))
         /\ \A n : AtMostOnce(s, n) => AtMostOnce(RemoveAt(s, i), n)
         /\ AtMostOnce(s, s[i]) => s[i] \notin ToSet(RemoveAt(s, i))
<1> DEFINE r == RemoveAt(s, i)
           At(j) == IF j < i THEN j ELSE j + 1
<1>1. /\ r \in Seq(S) /\ Len(r) = Len(s) - 1
      /\ \A j \in 1..(Len(s) - 1) : r[j] = IF j < i THEN s[j] ELSE s[j + 1]
  BY RemoveAtLemma
<1> HIDE DEF r
<1>2. DOMAIN r = 1..(Len(s) - 1) /\ DOMAIN s = 1..Len(s) /\ Len(s) \in Nat
  BY <1>1
<1>3. \A j \in DOMAIN r : At(j) \in DOMAIN s /\ r[j] = s[At(j)] /\ At(j) # i
  BY <1>1, <1>2
<1>4. \A j, k \in DOMAIN r : At(j) = At(k) => j = k
  BY <1>2
<1>5. \A k \in DOMAIN s \ {i} : \E j \in DOMAIN r : At(j) = k
  <2> TAKE k \in DOMAIN s \ {i}
  <2> DEFINE j == IF k < i THEN k ELSE k - 1
  <2>1. j \in DOMAIN r /\ At(j) = k  BY <1>2
  <2> QED BY <2>1
<1> HIDE DEF At
<1>6. ToSet(r) \subseteq ToSet(s)  BY <1>3 DEF ToSet
<1>7. ToSet(s) \ {s[i]} \subseteq ToSet(r)
  <2> SUFFICES ASSUME NEW e \in ToSet(s) \ {s[i]} PROVE e \in ToSet(r)
    OBVIOUS
  <2>1. PICK k \in DOMAIN s : s[k] = e  BY DEF ToSet
  <2>2. k # i  BY <2>1
  <2>3. PICK j \in DOMAIN r : At(j) = k  BY <1>5, <2>2
  <2> QED BY <1>3, <2>1, <2>3 DEF ToSet
<1>8. \A n : AtMostOnce(s, n) => AtMostOnce(r, n)
  BY <1>3, <1>4 DEF AtMostOnce
<1>9. AtMostOnce(s, s[i]) => s[i] \notin ToSet(r)
  <2> SUFFICES ASSUME AtMostOnce(s, s[i]), NEW j \in DOMAIN r, r[j] = s[i] PROVE FALSE
    BY DEF ToSet
  <2>1. At(j) \in DOMAIN s /\ s[At(j)] = s[i] /\ At(j) # i  BY <1>3
  <2> QED BY <1>2, <2>1 DEF AtMostOnce
<1> QED BY <1>1, <1>6, <1>7, <1>8, <1>9 DEF r

\* Putting an element into a list, anywhere or at its end.
LEMMA PutInNames ==
  ASSUME NEW S, NEW s \in Seq(S), NEW e \in S, NEW r,
         \/ r = Append(s, e)
         \/ \E i \in 1..(Len(s) + 1) : r = InsertAt(s, i, e)
  PROVE  /\ r \in Seq(S)
         /\ ToSet(r) = ToSet(s) \union {e}
         /\ \A n : n # e /\ AtMostOnce(s, n) => AtMostOnce(r, n)
         /\ e \notin ToSet(s) => AtMostOnce(r, e)
<1>1. \E i \in 1..(Len(s) + 1) :
        /\ r \in Seq(S) /\ Len(r) = Len(s) + 1
        /\ \A j \in 1..(Len(s) + 1) :
             r[j] = IF j < i THEN s[j] ELSE IF j = i THEN e ELSE s[j - 1]
  <2>1. CASE r = Append(s, e)
    <3>1. Len(s) + 1 \in 1..(Len(s) + 1)  OBVIOUS
    <3>2. /\ r \in Seq(S) /\ Len(r) = Len(s) + 1
          /\ \A j \in 1..Len(s) : r[j] = s[j]
          /\ r[Len(s) + 1] = e
      BY <2>1, AppendProperties
    <3>3. \A j \in 1..(Len(s) + 1) :
            r[j] = IF j < Len(s) + 1 THEN s[j] ELSE IF j = Len(s) + 1 THEN e ELSE s[j - 1]
      BY <3>2
    <3> QED BY <3>1, <3>2, <3>3
  <2>2. CASE \E i \in 1..(Len(s) + 1) : r = InsertAt(s, i, e)
    <3> PICK i \in 1..(Len(s) + 1) : r = InsertAt(s, i, e)  BY <2>2
    <3> DEFINE t == InsertAt(s, i, e)
    <3>1. /\ t \in Seq(S) /\ Len(t) = Len(s) + 1
          /\ \A j \in 1..(Len(s) + 1) :
               t[j] = IF j < i THEN s[j] ELSE IF j = i THEN e ELSE s[j - 1]
      BY ONLY e \in S, s \in Seq(S), i \in 1..(Len(s) + 1), InsertAtLemma
    <3>2. r = t  OBVIOUS
    <3> HIDE DEF t
    <3> QED BY <3>1, <3>2
  <2> QED BY <2>1, <2>2
<1> PICK i \in 1..(Len(s) + 1) :
       /\ r \in Seq(S) /\ Len(r) = Len(s) + 1
       /\ \A j \in 1..(Len(s) + 1) :
            r[j] = IF j < i THEN s[j] ELSE IF j = i THEN e ELSE s[j - 1]
  BY <1>1
<1> DEFINE At(j) == IF j < i THEN j ELSE j - 1
<1>2. DOMAIN r = 1..(Len(s) + 1) /\ DOMAIN s = 1..Len(s) /\ Len(s) \in Nat
  OBVIOUS
<1>3. i \in DOMAIN r /\ r[i] = e  BY <1>2
<1>4. \A j \in DOMAIN r \ {i} : At(j) \in DOMAIN s /\ r[j] = s[At(j)]
  BY <1>2
<1>5. \A j, k \in DOMAIN r \ {i} : At(j) = At(k) => j = k
  BY <1>2
<1>6. \A k \in DOMAIN s : \E j \in DOMAIN r \ {i} : At(j) = k
  <2> TAKE k \in DOMAIN s
  <2> DEFINE j == IF k < i THEN k ELSE k + 1
  <2>1. j \in DOMAIN r \ {i} /\ At(j) = k  BY <1>2
  <2> QED BY <2>1
<1> HIDE DEF At
<1>7. ToSet(r) = ToSet(s) \union {e}
  <2>1. ToSet(r) \subseteq ToSet(s) \union {e}
    BY <1>3, <1>4 DEF ToSet
  <2>2. ASSUME NEW k \in DOMAIN s PROVE s[k] \in ToSet(r)
    <3>1. PICK j \in DOMAIN r \ {i} : At(j) = k  BY <1>6
    <3> QED BY <1>4, <3>1 DEF ToSet
  <2>3. ToSet(s) \union {e} \subseteq ToSet(r)  BY <1>3, <2>2 DEF ToSet
  <2> QED BY <2>1, <2>3
<1>8. ASSUME NEW n, n # e, AtMostOnce(s, n) PROVE AtMostOnce(r, n)
  <2>1. \A j \in DOMAIN r : r[j] = n => j \in DOMAIN r \ {i}  BY <1>3, <1>8
  <2> QED BY <1>4, <1>5, <1>8, <2>1 DEF AtMostOnce
<1>9. ASSUME e \notin ToSet(s) PROVE AtMostOnce(r, e)
  <2>1. \A j \in DOMAIN r : r[j] = e => j = i  BY <1>4, <1>9 DEF ToSet
  <2> QED BY <2>1 DEF AtMostOnce
<1>10. r \in Seq(S)  OBVIOUS
<1> QED BY <1>7, <1>8, <1>9, <1>10

\* Unlinked only drops connections, and all of the name.
LEMMA UnlinkedLemma ==
  ASSUME NEW n
  PROVE  /\ Unlinked(n) \subseteq connections
         /\ \A c \in Unlinked(n) : c[1] # n /\ c[2] # n
BY DEF Unlinked

\* The connections that Unlinked leaves still join names the map knows, if it
\* forgot no other name, or one whose loss is accounted for.
LEMMA UnlinkedInv ==
  ASSUME PointsInv, ~dead, NEW x, connections' = Unlinked(x),
         point_map \ {x} \subseteq point_map' \union torn', torn \subseteq torn'
  PROVE  /\ connections' \subseteq PointNames \X PointNames
         /\ \A c \in connections' :
              /\ {c[1], c[2]} \subseteq point_map' \union torn'
              /\ c[1] # c[2] => <<c[2], c[1]>> \notin connections'
<1>1. /\ connections \subseteq PointNames \X PointNames
      /\ \A c \in connections :
           /\ {c[1], c[2]} \subseteq point_map \union torn
           /\ c[1] # c[2] => <<c[2], c[1]>> \notin connections
  BY DEF PointsInv, PointsTypeOK, PointsAgree
<1> QED BY <1>1, UnlinkedLemma

\* What the invariant says of one name, and of the list.
LEMMA NameFacts ==
  ASSUME PointsInv, ~dead
  PROVE  /\ points \in Seq(PointNames) /\ Len(points) \in Nat
         /\ DOMAIN points = 1..Len(points)
         /\ \A i \in DOMAIN points : points[i] \in PointNames /\ points[i] \in ToSet(points)
         /\ point_map \subseteq PointNames /\ kept \subseteq PointNames
         /\ torn \subseteq PointNames /\ dead = FALSE
         /\ connections \subseteq PointNames \X PointNames
         /\ \A n \in PointNames \ torn :
              /\ AtMostOnce(points, n)
              /\ n \in point_map <=> n \in ToSet(points) \union kept
              /\ ~(n \in kept /\ n \in ToSet(points))
<1>1. points \in Seq(PointNames)  BY DEF PointsInv, PointsTypeOK
<1>2. Len(points) \in Nat /\ DOMAIN points = 1..Len(points)  BY <1>1
<1>3. \A i \in DOMAIN points : points[i] \in PointNames
  BY <1>1, <1>2, ElementOfSeq
<1>4. \A i \in DOMAIN points : points[i] \in ToSet(points)  BY DEF ToSet
<1>5. /\ point_map \subseteq PointNames /\ kept \subseteq PointNames
      /\ torn \subseteq PointNames /\ dead = FALSE
      /\ connections \subseteq PointNames \X PointNames
  BY DEF PointsInv, PointsTypeOK
<1>6. \A n \in PointNames \ torn :
        /\ AtMostOnce(points, n)
        /\ n \in point_map <=> n \in ToSet(points) \union kept
        /\ ~(n \in kept /\ n \in ToSet(points))
  BY DEF PointsInv, PointsAgree
<1> QED BY <1>1, <1>2, <1>3, <1>4, <1>5, <1>6

LEMMA InsertPointInv ==
  ASSUME PointsInv, ~dead, InsertPoint
  PROVE  PointsInv'
<1> PICK n \in PointNames \ point_map :
      /\ point_map' = point_map \union {n}
      /\ \/ points' = Append(points, n)
         \/ \E i \in DOMAIN points : points' = InsertAt(points, i, n)
  BY DEF InsertPoint
<1>1. UNCHANGED <<connections, kept, torn, dead>>  BY DEF InsertPoint
<1>2. \/ points' = Append(points, n)
      \/ \E i \in 1..(Len(points) + 1) : points' = InsertAt(points, i, n)
  BY NameFacts
<1>3. /\ points' \in Seq(PointNames)
      /\ ToSet(points') = ToSet(points) \union {n}
      /\ \A m : m # n /\ AtMostOnce(points, m) => AtMostOnce(points', m)
      /\ n \notin ToSet(points) => AtMostOnce(points', n)
  BY <1>2, NameFacts, PutInNames
<1>4. PointsTypeOK'  BY <1>1, <1>3, NameFacts DEF PointsTypeOK
<1>5. ASSUME NEW m \in PointNames \ torn'
      PROVE  /\ AtMostOnce(points', m)
             /\ m \in point_map' <=> m \in ToSet(points') \union kept'
             /\ ~(m \in kept' /\ m \in ToSet(points'))
  BY <1>1, <1>3, <1>5, NameFacts
<1>6. \A c \in connections' :
        /\ {c[1], c[2]} \subseteq point_map' \union torn'
        /\ c[1] # c[2] => <<c[2], c[1]>> \notin connections'
  BY <1>1 DEF PointsInv, PointsAgree
<1> QED BY <1>4, <1>5, <1>6 DEF PointsInv, PointsAgree

\* A point is taken out of the list, and the map treats its name right or not.
LEMMA TakenOutInv ==
  ASSUME PointsInv, ~dead, NEW i \in DOMAIN points,
         points' = RemoveAt(points, i), connections' = Unlinked(points[i]),
         dead' = FALSE,
         \/ /\ point_map' = point_map \ {points[i]}
            /\ UNCHANGED <<kept, torn>>
         \/ /\ kept' = kept \union {points[i]}
            /\ UNCHANGED <<point_map, torn>>
         \/ \E n \in point_map \ {points[i]} :
              /\ point_map' = point_map \ {n}
              /\ kept' = kept \union {points[i]}
              /\ torn' = torn \union {n}
  PROVE  PointsInv'
<1> DEFINE x == points[i]
<1>1. /\ points' \in Seq(PointNames)
      /\ ToSet(points') \subseteq ToSet(points)
      /\ ToSet(points) \ {x} \subseteq ToSet(points')
      /\ \A n : AtMostOnce(points, n) => AtMostOnce(points', n)
      /\ AtMostOnce(points, x) => x \notin ToSet(points')
  BY NameFacts, RemoveAtNames
<1>2. x \in PointNames /\ x \in ToSet(points)  BY NameFacts
<1>3. connections' = Unlinked(x)  OBVIOUS
<1> HIDE DEF x
<1>4. CASE /\ point_map' = point_map \ {x}
           /\ UNCHANGED <<kept, torn>>
  <2>1. ASSUME NEW m \in PointNames \ torn'
        PROVE  /\ AtMostOnce(points', m)
               /\ m \in point_map' <=> m \in ToSet(points') \union kept'
               /\ ~(m \in kept' /\ m \in ToSet(points'))
    BY <1>1, <1>2, <1>4, <2>1, NameFacts
  <2>2. /\ connections' \subseteq PointNames \X PointNames
        /\ \A c \in connections' :
             /\ {c[1], c[2]} \subseteq point_map' \union torn'
             /\ c[1] # c[2] => <<c[2], c[1]>> \notin connections'
    <3>1. point_map \ {x} \subseteq point_map' \union torn' /\ torn \subseteq torn'
      BY <1>4
    <3> QED BY <1>3, <3>1, UnlinkedInv
  <2>3. PointsTypeOK'  BY <1>1, <1>4, <2>2, NameFacts DEF PointsTypeOK
  <2> QED BY <2>1, <2>2, <2>3 DEF PointsInv, PointsAgree
<1>5. CASE /\ kept' = kept \union {x}
           /\ UNCHANGED <<point_map, torn>>
  <2>1. ASSUME NEW m \in PointNames \ torn'
        PROVE  /\ AtMostOnce(points', m)
               /\ m \in point_map' <=> m \in ToSet(points') \union kept'
               /\ ~(m \in kept' /\ m \in ToSet(points'))
    BY <1>1, <1>2, <1>5, <2>1, NameFacts
  <2>2. /\ connections' \subseteq PointNames \X PointNames
        /\ \A c \in connections' :
             /\ {c[1], c[2]} \subseteq point_map' \union torn'
             /\ c[1] # c[2] => <<c[2], c[1]>> \notin connections'
    <3>1. point_map \ {x} \subseteq point_map' \union torn' /\ torn \subseteq torn'
      BY <1>5
    <3> QED BY <1>3, <3>1, UnlinkedInv
  <2>3. PointsTypeOK'  BY <1>1, <1>2, <1>5, <2>2, NameFacts DEF PointsTypeOK
  <2> QED BY <2>1, <2>2, <2>3 DEF PointsInv, PointsAgree
<1>6. CASE \E n \in point_map \ {x} :
             /\ point_map' = point_map \ {n}
             /\ kept' = kept \union {x}
             /\ torn' = torn \union {n}
  <2> PICK n \in point_map \ {x} :
        /\ point_map' = point_map \ {n}
        /\ kept' = kept \union {x}
        /\ torn' = torn \union {n}
    BY <1>6
  <2>1. ASSUME NEW m \in PointNames \ torn'
        PROVE  /\ AtMostOnce(points', m)
               /\ m \in point_map' <=> m \in ToSet(points') \union kept'
               /\ ~(m \in kept' /\ m \in ToSet(points'))
    <3>1. m \notin torn /\ m # n  BY <2>1
    <3>2. /\ AtMostOnce(points, m)
          /\ m \in point_map <=> m \in ToSet(points) \union kept
          /\ ~(m \in kept /\ m \in ToSet(points))
      BY <2>1, <3>1, NameFacts
    <3>3. CASE m = x  BY <1>1, <1>2, <3>2, <3>3
    <3>4. CASE m # x  BY <1>1, <3>1, <3>2, <3>4
    <3> QED BY <3>3, <3>4
  <2>2. /\ connections' \subseteq PointNames \X PointNames
        /\ \A c \in connections' :
             /\ {c[1], c[2]} \subseteq point_map' \union torn'
             /\ c[1] # c[2] => <<c[2], c[1]>> \notin connections'
    <3>1. point_map \ {x} \subseteq point_map' \union torn' /\ torn \subseteq torn'
      OBVIOUS
    <3> QED BY <1>3, <3>1, UnlinkedInv
  <2>3. PointsTypeOK'  BY <1>1, <1>2, <2>2, NameFacts DEF PointsTypeOK
  <2> QED BY <2>1, <2>2, <2>3 DEF PointsInv, PointsAgree
<1> QED BY <1>4, <1>5, <1>6 DEF x

LEMMA DeleteNameInv ==
  ASSUME PointsInv, ~dead, DeleteName
  PROVE  PointsInv'
<1> PICK i \in DOMAIN points :
      /\ points' = RemoveAt(points, i)
      /\ \/ /\ point_map' = point_map \ {points[i]}
            /\ connections' = Unlinked(points[i])
            /\ UNCHANGED <<kept, torn, dead>>
         \/ /\ connections' = Unlinked(points[i])
            /\ kept' = kept \union {points[i]}
            /\ UNCHANGED <<point_map, torn, dead>>
         \/ \E n \in point_map \ {points[i]} :
              /\ point_map' = point_map \ {n}
              /\ connections' = Unlinked(points[i])
              /\ kept' = kept \union {points[i]}
              /\ torn' = torn \union {n}
              /\ UNCHANGED dead
         \/ /\ dead' = TRUE
            /\ UNCHANGED <<point_map, connections, kept, torn>>
  BY DEF DeleteName
<1>1. CASE dead' = TRUE /\ UNCHANGED <<point_map, connections, kept, torn>>
  <2>1. points' \in Seq(PointNames)  BY NameFacts, RemoveAtNames
  <2> QED BY <1>1, <2>1, NameFacts DEF PointsInv, PointsTypeOK, PointsAgree
<1>2. CASE dead' = dead
  <2>1. dead' = FALSE  BY <1>2, NameFacts
  <2>2. connections' = Unlinked(points[i])  BY <2>1
  <2>3. \/ /\ point_map' = point_map \ {points[i]}
           /\ UNCHANGED <<kept, torn>>
        \/ /\ kept' = kept \union {points[i]}
           /\ UNCHANGED <<point_map, torn>>
        \/ \E n \in point_map \ {points[i]} :
             /\ point_map' = point_map \ {n}
             /\ kept' = kept \union {points[i]}
             /\ torn' = torn \union {n}
    BY <2>1
  <2> QED BY <2>1, <2>2, <2>3, TakenOutInv
<1>3. dead' = dead \/ (dead' = TRUE /\ UNCHANGED <<point_map, connections, kept, torn>>)
  OBVIOUS
<1> QED BY <1>1, <1>2, <1>3

LEMMA MoveInv ==
  ASSUME PointsInv, ~dead, Move
  PROVE  PointsInv'
<1> PICK from \in DOMAIN points, to \in DOMAIN points :
      /\ from # to
      /\ points' = InsertAt(RemoveAt(points, from), MoveTarget(from, to), points[from])
      /\ point_map' = point_map \union {points[from]}
      /\ connections' = Unlinked(points[from])
  BY DEF Move
<1>1. UNCHANGED <<kept, torn, dead>>  BY DEF Move
<1> DEFINE rest == RemoveAt(points, from)
           x    == points[from]
<1>2. /\ rest \in Seq(PointNames) /\ Len(rest) = Len(points) - 1
      /\ ToSet(rest) \subseteq ToSet(points)
      /\ ToSet(points) \ {x} \subseteq ToSet(rest)
      /\ \A n : AtMostOnce(points, n) => AtMostOnce(rest, n)
      /\ AtMostOnce(points, x) => x \notin ToSet(rest)
      /\ x \in PointNames /\ x \in ToSet(points)
  BY NameFacts, RemoveAtNames, RemoveAtLemma
<1>3. MoveTarget(from, to) \in 1..(Len(rest) + 1)
  BY <1>2, NameFacts DEF MoveTarget
<1> HIDE DEF rest, x
<1>4. points' = InsertAt(rest, MoveTarget(from, to), x)  BY DEF rest, x
<1>5. /\ points' \in Seq(PointNames)
      /\ ToSet(points') = ToSet(rest) \union {x}
      /\ \A n : n # x /\ AtMostOnce(rest, n) => AtMostOnce(points', n)
      /\ x \notin ToSet(rest) => AtMostOnce(points', x)
  BY <1>2, <1>3, <1>4, PutInNames
<1>6. ToSet(points') = ToSet(points)  BY <1>2, <1>5
<1>7. point_map' = point_map \union {x} /\ connections' = Unlinked(x)  BY DEF x
<1>8. ASSUME NEW m \in PointNames \ torn'
      PROVE  /\ AtMostOnce(points', m)
             /\ m \in point_map' <=> m \in ToSet(points') \union kept'
             /\ ~(m \in kept' /\ m \in ToSet(points'))
  BY <1>1, <1>2, <1>5, <1>6, <1>7, <1>8, NameFacts
<1>9. /\ connections' \subseteq PointNames \X PointNames
      /\ \A c \in connections' :
           /\ {c[1], c[2]} \subseteq point_map' \union torn'
           /\ c[1] # c[2] => <<c[2], c[1]>> \notin connections'
  <2>1. point_map \ {x} \subseteq point_map' \union torn' /\ torn \subseteq torn'
    BY <1>1, <1>7
  <2> QED BY <1>7, <2>1, UnlinkedInv
<1>10. PointsTypeOK'  BY <1>1, <1>2, <1>5, <1>7, <1>9, NameFacts DEF PointsTypeOK
<1> QED BY <1>8, <1>9, <1>10 DEF PointsInv, PointsAgree

LEMMA ConnectPointsInv ==
  ASSUME PointsInv, ~dead, ConnectPoints
  PROVE  PointsInv'
<1> PICK m \in point_map, n \in point_map :
      /\ <<m, n>> \notin connections /\ <<n, m>> \notin connections
      /\ connections' = connections \union {<<m, n>>}
  BY DEF ConnectPoints
<1>1. UNCHANGED <<points, point_map, kept, torn, dead>>  BY DEF ConnectPoints
<1>2. \A c \in connections :
        /\ {c[1], c[2]} \subseteq point_map \union torn
        /\ c[1] # c[2] => <<c[2], c[1]>> \notin connections
  BY DEF PointsInv, PointsAgree
<1>3. ASSUME NEW c \in connections'
      PROVE  /\ {c[1], c[2]} \subseteq point_map' \union torn'
             /\ c[1] # c[2] => <<c[2], c[1]>> \notin connections'
  <2>1. CASE c \in connections
    <3>1. c = <<c[1], c[2]>>  BY <2>1, NameFacts
    <3>2. <<c[2], c[1]>> = <<m, n>> => c = <<n, m>>  BY <3>1
    <3> QED BY <1>1, <1>2, <2>1, <3>2
  <2>2. CASE c = <<m, n>>  BY <1>1, <2>2
  <2> QED BY <2>1, <2>2
<1>4. PointsTypeOK'  BY <1>1, NameFacts DEF PointsTypeOK
<1>5. \A k \in PointNames \ torn' :
        /\ AtMostOnce(points', k)
        /\ k \in point_map' <=> k \in ToSet(points') \union kept'
        /\ ~(k \in kept' /\ k \in ToSet(points'))
  BY <1>1, NameFacts DEF AtMostOnce, ToSet
<1> QED BY <1>3, <1>4, <1>5 DEF PointsInv, PointsAgree

LEMMA PointsNextInv == PointsInv /\ [PointsNext]_pointVars => PointsInv'
<1> SUFFICES ASSUME PointsInv, [PointsNext]_pointVars PROVE PointsInv'
  OBVIOUS
<1>1. CASE UNCHANGED pointVars
  BY <1>1 DEF pointVars, PointsInv, PointsTypeOK, PointsAgree, AtMostOnce, ToSet
<1> SUFFICES ASSUME ~dead, PointsNext PROVE PointsInv'
  BY <1>1 DEF PointsNext
<1>2. CASE InsertPoint  BY <1>2, InsertPointInv
<1>3. CASE DeleteIndex
  <2> PICK i \in DOMAIN points :
        /\ points' = RemoveAt(points, i)
        /\ point_map' = point_map \ {points[i]}
        /\ connections' = Unlinked(points[i])
    BY <1>3 DEF DeleteIndex
  <2>1. UNCHANGED <<kept, torn, dead>>  BY <1>3 DEF DeleteIndex
  <2>2. dead' = FALSE  BY <2>1, NameFacts
  <2> QED BY <2>1, <2>2, TakenOutInv
<1>4. CASE DeleteName  BY <1>4, DeleteNameInv
<1>5. CASE Move  BY <1>5, MoveInv
<1>6. CASE ConnectPoints  BY <1>6, ConnectPointsInv
<1> QED BY <1>2, <1>3, <1>4, <1>5, <1>6 DEF PointsNext

LEMMA PointsSpecInv == PointsSpec => []PointsInv
<1>1. PointsInit => PointsInv
  <2> SUFFICES ASSUME PointsInit PROVE PointsInv
    OBVIOUS
  <2>1. /\ points = <<>> /\ point_map = {} /\ connections = {} /\ kept = {}
        /\ torn = {} /\ dead = FALSE
    BY DEF PointsInit
  <2>2. points \in Seq(PointNames) /\ Len(points) = 0  BY <2>1
  <2>3. DOMAIN points = {}  BY <2>2
  <2>4. \A n : AtMostOnce(points, n)  BY <2>3 DEF AtMostOnce
  <2>5. ToSet(points) = {}  BY <2>3 DEF ToSet
  <2> QED BY <2>1, <2>2, <2>4, <2>5 DEF PointsInv, PointsTypeOK, PointsAgree
<1> QED BY <1>1, PointsNextInv, PTL DEF PointsSpec

\* List, map and connections agree after any sequence of calls, on every name
\* that no read of an erased node has torn.
THEOREM PointsTheorem == PointsSpec => []PointsAgree
<1>1. PointsInv => PointsAgree  BY DEF PointsInv
<1> QED BY <1>1, PointsSpecInv, PTL
=============================================================================
