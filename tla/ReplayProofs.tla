------------------------------ MODULE ReplayProofs --------------------------
(***************************************************************************)
(* Proofs about Replay: its types and its safety properties, whatever the  *)
(* folders hold, whatever an uninitialised record holds, for every speed   *)
(* and any number of timers.                                               *)
(***************************************************************************)
EXTENDS Replay, TLAPS

-----------------------------------------------------------------------------
(***************************************************************************)
(* Numbers and lists.                                                      *)
(***************************************************************************)
LEMMA MaxOfTwo ==
  ASSUME NEW a \in Int, NEW b \in Int
  PROVE  Max({a, b}) = IF a >= b THEN a ELSE b
<1> DEFINE m == IF a >= b THEN a ELSE b
<1>1. m \in {a, b} /\ \A y \in {a, b} : m >= y  OBVIOUS
<1>2. /\ Max({a, b}) \in {a, b}
      /\ \A y \in {a, b} : Max({a, b}) >= y
  BY <1>1 DEF Max
<1> QED BY <1>2

LEMMA MinOfTwo ==
  ASSUME NEW a \in Int, NEW b \in Int
  PROVE  Min({a, b}) = IF a <= b THEN a ELSE b
<1> DEFINE m == IF a <= b THEN a ELSE b
<1>1. m \in {a, b} /\ \A y \in {a, b} : m <= y  OBVIOUS
<1>2. /\ Min({a, b}) \in {a, b}
      /\ \A y \in {a, b} : Min({a, b}) <= y
  BY <1>1 DEF Min
<1> QED BY <1>2

\* A clamped value is in the range, and unchanged if it was.
LEMMA ClampFacts ==
  ASSUME NEW lo \in Int, NEW hi \in Int, NEW v \in Int, lo <= hi
  PROVE  Clamp(lo, hi, v) = IF v < lo THEN lo ELSE IF v > hi THEN hi ELSE v
<1>1. Min({hi, v}) = IF hi <= v THEN hi ELSE v  BY MinOfTwo
<1>2. Min({hi, v}) \in Int  BY <1>1
<1>3. Max({lo, Min({hi, v})}) = IF lo >= Min({hi, v}) THEN lo ELSE Min({hi, v})
  BY <1>2, MaxOfTwo
<1> QED BY <1>1, <1>3 DEF Clamp

\* What LoadList makes of an image list, empty or not.
LEMMA LoadedFacts ==
  ASSUME NEW list \in Seq(Nat), NEW junk \in Junk(list), NEW s
  PROVE  /\ LoadList(s, list, junk) \in Seq(Int)
         /\ LoadList(s, list, junk) # <<>>
         /\ Len(LoadList(s, list, junk)) = Len(list) + 1
         /\ \A i \in 1..Len(list) : LoadList(s, list, junk)[i] = list[i]
         /\ Last(LoadList(s, list, junk)) = junk
         /\ Len(list) \in Nat /\ junk \in Int
<1>1. Len(list) \in Nat /\ list \in Seq(Int)  OBVIOUS
<1>2. junk \in Int
  <2>1. \A i \in {Len(list)} \ {0} : list[i] \in Int  BY <1>1
  <2>2. CASE junk \in Garbage  BY <2>2, ReplayAssumption
  <2>3. CASE junk \in {list[i] : i \in {Len(list)} \ {0}}
    <3> PICK i \in {Len(list)} \ {0} : junk = list[i]  BY <2>3
    <3> QED BY <2>1
  <2> QED BY <2>2, <2>3 DEF Junk
<1>3. /\ Append(list, junk) \in Seq(Int)
      /\ Len(Append(list, junk)) = Len(list) + 1
      /\ \A i \in 1..Len(list) : Append(list, junk)[i] = list[i]
      /\ Append(list, junk)[Len(list) + 1] = junk
  BY <1>1, <1>2
<1> QED BY <1>1, <1>2, <1>3 DEF LoadList, Last

-----------------------------------------------------------------------------
(***************************************************************************)
(* The inductive invariant.                                                *)
(***************************************************************************)
\* Of the timers that run, mTimer is the one pausing deletes, and none of
\* those open() forgot.
TimersHeld ==
  /\ TimersExplained
  /\ mbPlay => mTimer \in timers /\ mTimer \notin leaked

\* In a complete recording both sides have the same pictures, and a record
\* more; and if that one's number is an index of a record, so is every place
\* of the slider.
CompleteHeld ==
  whole > 0 =>
    /\ \A s \in Sides : Len(frames[s]) = whole + 1
    /\ \A i \in 1..whole : frames["left"][i] = frames["right"][i]
    /\ mEndIndex \in 0..whole => ~overrun /\ slider.min >= 0 /\ slider.max <= whole

Inv == TypeOK /\ TimersHeld /\ CompleteHeld

LEMMA InitInv == Init => Inv
<1> SUFFICES ASSUME Init PROVE Inv  OBVIOUS
<1>1. TypeOK
  <2>1. \A s \in Sides : frames[s] \in Seq(Int)
    <3>1. <<>> \in Seq(Int)  OBVIOUS
    <3> QED BY <3>1 DEF Init
  <2>2. /\ slider \in [min : Int, max : Int, value : Int]
        /\ slider.value \in slider.min..slider.max
    BY DEF Init
  <2>3. /\ {mStartIndex, mEndIndex, cursor, shown, slider.min} \subseteq Nat
        /\ {mStartIndex, mEndIndex, cursor, shown} \subseteq Int
        /\ speed \in Speeds /\ mTimer \in 0..MaxTimers /\ whole \in Nat
    BY ReplayAssumption DEF Init, NoTimer
  <2>4. /\ {mbOpen, mbPlay, overrun} \subseteq BOOLEAN
        /\ enabled \subseteq Controls
        /\ timers \subseteq 1..MaxTimers /\ leaked \subseteq timers
    BY DEF Init
  <2> QED BY <2>1, <2>2, <2>3, <2>4 DEF TypeOK
<1>2. TimersHeld /\ CompleteHeld
  BY DEF Init, TimersHeld, TimersExplained, CompleteHeld
<1> QED BY <1>1, <1>2 DEF Inv

\* A handler that moves the slider, and perhaps the cursor: the slider stays in
\* its range, and a complete recording in its bounds.
LEMMA SliderFacts ==
  ASSUME Inv, NEW v \in Int, SetSlider(v), UNCHANGED <<frames, whole, mEndIndex>>,
         ~overrun
  PROVE  /\ slider' \in [min : Int, max : Int, value : Int]
         /\ slider'.value \in slider'.min..slider'.max
         /\ shown' \in Nat /\ overrun' \in BOOLEAN
         /\ slider'.min \in Nat
         /\ CompleteHeld'
<1> DEFINE w == Clamp(slider.min, slider.max, v)
<1>1. /\ slider \in [min : Int, max : Int, value : Int]
      /\ slider.min \in Nat /\ slider.max \in Int /\ slider.value \in Int
      /\ slider.min <= slider.max /\ shown \in Nat
  BY DEF Inv, TypeOK
<1>2. w \in slider.min..slider.max /\ w \in Nat  BY <1>1, ClampFacts
<1>3. slider' = [slider EXCEPT !.value = w]  BY DEF SetSlider
<1>4. /\ slider' \in [min : Int, max : Int, value : Int]
      /\ slider'.min = slider.min /\ slider'.max = slider.max /\ slider'.value = w
  <2> HIDE DEF w
  <2> QED BY <1>1, <1>2, <1>3
<1>5. shown' \in Nat /\ overrun' \in BOOLEAN
  BY <1>1, <1>2 DEF SetSlider
<1>6. CompleteHeld'
  <2> SUFFICES ASSUME whole > 0
               PROVE  /\ \A s \in Sides : Len(frames[s]) = whole + 1
                      /\ \A i \in 1..whole : frames["left"][i] = frames["right"][i]
                      /\ mEndIndex \in 0..whole =>
                           ~overrun' /\ slider.min >= 0 /\ slider.max <= whole
    BY <1>4 DEF CompleteHeld
  <2>1. /\ \A s \in Sides : Len(frames[s]) = whole + 1
        /\ \A i \in 1..whole : frames["left"][i] = frames["right"][i]
        /\ mEndIndex \in 0..whole => slider.min >= 0 /\ slider.max <= whole
    BY DEF Inv, CompleteHeld
  <2>2. ASSUME mEndIndex \in 0..whole PROVE ~overrun'
    <3>1. w <= whole /\ whole \in Nat
      <4> HIDE DEF w
      <4> QED BY <1>1, <1>2, <2>1, <2>2 DEF Inv, TypeOK
    <3>2. InRange(frames, w)
      <4> HIDE DEF w
      <4> QED BY <1>2, <2>1, <3>1 DEF InRange
    <3> QED BY <3>2 DEF SetSlider
  <2> QED BY <2>1, <2>2
<1> QED BY <1>1, <1>2, <1>4, <1>5, <1>6

\* The records a failing load leaves.
LEMMA PartlyFacts ==
  ASSUME NEW f \in Folders, NEW r \in PartlyLoaded(f), NEW s \in Sides
  PROVE  r[s] \in Seq(Int)
<1>1. f.left \in Seq(Nat) /\ f.right \in Seq(Nat)  BY ReplayAssumption
<1>2. <<>> \in Seq(Int)  OBVIOUS
<1>3. ASSUME NEW q \in Seq(Nat), NEW n \in 0..(Len(q) - 1)
      PROVE  SubSeq(q, 1, n) \in Seq(Int)
  BY <1>3
<1>4. CASE r = [left |-> <<>>, right |-> <<>>]
  <2>1. r["left"] = <<>> /\ r["right"] = <<>>  BY <1>4
  <2> QED BY <1>2, <2>1 DEF Sides
<1>5. CASE \E n \in 0..(Len(f.left) - 1) :
             r = [left |-> SubSeq(f.left, 1, n), right |-> <<>>]
  <2>1. PICK n \in 0..(Len(f.left) - 1) :
               r = [left |-> SubSeq(f.left, 1, n), right |-> <<>>]
    BY <1>5
  <2>2. SubSeq(f.left, 1, n) \in Seq(Int)  BY <1>1, <1>3
  <2>3. r["left"] = SubSeq(f.left, 1, n) /\ r["right"] = <<>>  BY <2>1
  <2> QED BY <1>2, <2>2, <2>3 DEF Sides
<1>6. CASE \E j \in Junk(f.left), m \in 0..(Len(f.right) - 1) :
             r = [left |-> LoadList("left", f.left, j), right |-> SubSeq(f.right, 1, m)]
  <2>1. PICK j \in Junk(f.left), m \in 0..(Len(f.right) - 1) :
             r = [left |-> LoadList("left", f.left, j), right |-> SubSeq(f.right, 1, m)]
    BY <1>6
  <2>2. SubSeq(f.right, 1, m) \in Seq(Int)  BY <1>1, <1>3
  <2>3. LoadList("left", f.left, j) \in Seq(Int)  BY <1>1, LoadedFacts
  <2> QED BY <2>1, <2>2, <2>3 DEF Sides
<1> QED BY <1>4, <1>5, <1>6 DEF PartlyLoaded

\* The numbers between the first and the last one of a list, whichever of the
\* two is larger.
Places(l) == {v \in Int : /\ v >= l[1] \/ v >= Last(l)
                          /\ v <= l[1] \/ v <= Last(l)}

\* open() with the list l, read in full: where the slider ends up, and when a
\* record is missing on its way.
LEMMA OpenLoadedFacts ==
  ASSUME Inv, ~overrun, NEW l \in Seq(Int), l # <<>>, OpenLoaded(l)
  PROVE  /\ {mStartIndex', mEndIndex', cursor', shown'} \subseteq Int
         /\ slider' \in [min : Int, max : Int, value : Int]
         /\ slider'.value \in slider'.min..slider'.max
         /\ overrun' \in BOOLEAN
         /\ ~overrun' => {mStartIndex', mEndIndex', cursor', shown', slider'.min}
                            \subseteq Nat
         /\ mEndIndex' = Last(l) /\ slider'.max = Last(l)
         /\ slider'.min = l[1] \/ slider'.min = Last(l)
         /\ overrun' => \E v \in Places(l) : ~InRange(frames', v)
<1> DEFINE start == Head(l)
           end   == Last(l)
           min   == Min({start, end})
           v1    == Clamp(start, Max({start, slider.max}), slider.value)
           v2    == Clamp(min, end, v1)
           v3    == Clamp(min, end, start)
<1>1. start \in Int /\ end \in Int /\ start = l[1]
  BY DEF Last
<1>2. /\ slider.min \in Nat /\ slider.max \in Int /\ slider.value \in Int
      /\ slider.min <= slider.value /\ slider.value <= slider.max
  BY DEF Inv, TypeOK
<1>3. min = (IF start <= end THEN start ELSE end)  BY <1>1, MinOfTwo
<1>4. Max({start, slider.max}) = (IF start >= slider.max THEN start ELSE slider.max)
  BY <1>1, <1>2, MaxOfTwo
<1>5. v1 = (IF slider.value < start THEN start ELSE slider.value)
  <2> HIDE DEF start
  <2> DEFINE top == Max({start, slider.max})
  <2>1. top \in Int /\ start <= top /\ slider.value <= top
    BY <1>1, <1>2, <1>4
  <2>2. v1 = IF slider.value < start THEN start
             ELSE IF slider.value > top THEN top ELSE slider.value
    <3> HIDE DEF top
    <3>1. Clamp(start, top, slider.value) = IF slider.value < start THEN start
             ELSE IF slider.value > top THEN top ELSE slider.value
      BY <1>1, <1>2, <2>1, ClampFacts
    <3> QED BY <3>1 DEF top
  <2>3. slider.value <= top /\ slider.value \in Int /\ top \in Int  BY <1>2, <2>1
  <2> HIDE DEF v1, top
  <2> QED BY <2>2, <2>3
<1>6. min \in Int /\ min <= end /\ v1 \in Int
  <2> HIDE DEF start, end, min, v1
  <2> QED BY <1>1, <1>2, <1>3, <1>5
<1>7. v2 \in min..end /\ v3 \in min..end
  <2> HIDE DEF start, end, min, v1
  <2>1. /\ v2 = IF v1 < min THEN min ELSE IF v1 > end THEN end ELSE v1
        /\ v3 = IF start < min THEN min ELSE IF start > end THEN end ELSE start
    BY <1>1, <1>6, ClampFacts
  <2> HIDE DEF v2, v3
  <2> QED BY <1>1, <1>6, <2>1
<1>8. /\ mStartIndex' = start /\ mEndIndex' = end /\ cursor' = 2 * start
      /\ slider' = [min |-> min, max |-> end, value |-> v3]
      /\ shown' = start
      /\ overrun' = \E v \in ({v1, v2, v3} \ {slider.value}) \union {start} :
                       ~InRange(frames', v)
  BY DEF OpenLoaded
<1>9. end = Last(l) /\ start = l[1]  BY <1>1 DEF end
<1> HIDE DEF start, end, min, v1, v2, v3
<1>10. ASSUME overrun'
       PROVE  \E v \in Places(l) : ~InRange(frames', v)
  <2>1. PICK v \in ({v1, v2, v3} \ {slider.value}) \union {start} : ~InRange(frames', v)
    BY <1>8, <1>10
  <2>2. v \in Int /\ (v >= start \/ v >= end) /\ (v <= start \/ v <= end)
    BY <1>1, <1>3, <1>5, <1>6, <1>7, <2>1
  <2> QED BY <1>9, <2>1, <2>2 DEF Places
<1>11. ASSUME ~overrun'
       PROVE  start \in Nat /\ end \in Nat /\ min \in Nat /\ cursor' \in Nat
  <2>1. InRange(frames', start)  BY <1>8, <1>11
  <2>2. start \in Nat  BY <1>1, <2>1 DEF InRange
  <2>3. v3 >= 0
    <3>1. CASE v3 = slider.value  BY <1>2, <3>1
    <3>2. CASE v3 # slider.value
      <4>1. InRange(frames', v3)  BY <1>8, <1>11, <3>2
      <4> QED BY <4>1 DEF InRange
    <3> QED BY <3>1, <3>2
  <2>4. end \in Nat  BY <1>1, <1>6, <1>7, <2>3
  <2> QED BY <1>3, <1>8, <2>2, <2>4
<1>12. overrun' \in BOOLEAN  BY <1>8
<1>13. /\ slider' \in [min : Int, max : Int, value : Int]
       /\ slider'.value \in slider'.min..slider'.max
       /\ slider'.max = end /\ slider'.min = min
       /\ min = start \/ min = end
  BY <1>1, <1>3, <1>6, <1>7, <1>8
<1>14. {mStartIndex', mEndIndex', cursor', shown'} \subseteq Int
  BY <1>1, <1>8
<1>15. ~overrun' => {mStartIndex', mEndIndex', cursor', shown', slider'.min} \subseteq Nat
  BY <1>8, <1>11, <1>13
<1>16. mEndIndex' = Last(l) /\ slider'.max = Last(l)
  BY <1>8, <1>9, <1>13
<1>17. slider'.min = l[1] \/ slider'.min = Last(l)
  BY <1>9, <1>13
<1> QED BY <1>10, <1>12, <1>13, <1>14, <1>15, <1>16, <1>17

-----------------------------------------------------------------------------
(***************************************************************************)
(* The handlers.                                                           *)
(***************************************************************************)
\* open() of a complete recording of n frames, n > 0: whatever the two extra
\* records hold, both sides have n + 1 records, the first n agree, and no
\* place of the slider is outside them if the last number of the left is not.
LEMMA OpenCompleteFacts ==
  ASSUME NEW f \in Folders, IsComplete(f), Len(f.left) > 0,
         NEW jl \in Junk(f.left), NEW jr \in Junk(f.right),
         NEW l, l = LoadList("left", f.left, jl),
         NEW r, r = LoadList("right", f.right, jr),
         NEW fs, fs["left"] = l, fs["right"] = r
  PROVE  /\ \A s \in Sides : Len(fs[s]) = Len(f.left) + 1
         /\ \A i \in 1..Len(f.left) : fs["left"][i] = fs["right"][i]
         /\ l[1] = 1
         /\ Last(l) \in 0..Len(f.left) => \A v \in Places(l) : InRange(fs, v)
<1> DEFINE n == Len(f.left)
<1>1. f.left \in Seq(Nat) /\ f.right \in Seq(Nat)  BY ReplayAssumption
<1>2. f.left = f.right /\ f.left = [i \in 1..n |-> i]  BY DEF IsComplete
<1>3. n \in Nat /\ n > 0  BY <1>1
<1>4. /\ Len(l) = n + 1
      /\ \A i \in 1..n : l[i] = f.left[i]
  BY <1>1, LoadedFacts
<1>5. /\ Len(r) = n + 1
      /\ \A i \in 1..n : r[i] = f.left[i]
  BY <1>1, <1>2, LoadedFacts
<1>6. l[1] = 1
  <2> HIDE DEF n
  <2>1. f.left[1] = 1  BY <1>2, <1>3
  <2> QED BY <1>3, <1>4, <2>1
<1>7. \A s \in Sides : Len(fs[s]) = n + 1  BY <1>4, <1>5 DEF Sides
<1>8. ASSUME Last(l) \in 0..n, NEW v \in Places(l)
      PROVE  InRange(fs, v)
  <2> HIDE DEF n
  <2>1. v \in Int /\ 0 <= v /\ v <= n  BY <1>3, <1>6, <1>8 DEF Places
  <2> QED BY <1>3, <1>7, <2>1 DEF InRange
<1> QED BY <1>4, <1>5, <1>6, <1>7, <1>8

LEMMA OpenInv ==
  ASSUME Inv, Open
  PROVE  Inv'
<1>1. ~overrun /\ UNCHANGED <<speed, timers, mTimer>>  BY DEF Open
<1>2. PICK f \in Folders :
         IF f.ok
         THEN \E jl \in Junk(f.left), jr \in Junk(f.right) :
                /\ frames' = [s \in Sides |-> IF s = "left" THEN LoadList("left", f.left, jl)
                                              ELSE LoadList("right", f.right, jr)]
                /\ OpenLoaded(LoadList("left", f.left, jl))
                /\ mbOpen' = TRUE
                /\ mbPlay' = FALSE
                /\ enabled' = Controls
                /\ whole' = IF IsComplete(f) THEN Len(f.left) ELSE 0
                /\ leaked' = IF mbPlay THEN leaked \union {mTimer} ELSE leaked
         ELSE /\ frames' \in PartlyLoaded(f)
              /\ whole' = 0
              /\ UNCHANGED <<mStartIndex, mEndIndex, cursor, slider, enabled,
                             mbOpen, mbPlay, shown, overrun, leaked>>
  BY DEF Open
<1>3. CASE ~f.ok
  <2>1. /\ frames' \in PartlyLoaded(f) /\ whole' = 0
        /\ UNCHANGED <<mStartIndex, mEndIndex, cursor, slider, enabled,
                       mbOpen, mbPlay, shown, overrun, leaked>>
    BY <1>2, <1>3
  <2>2. \A s \in Sides : frames'[s] \in Seq(Int)  BY <2>1, PartlyFacts
  <2>3. TypeOK'  BY <1>1, <2>1, <2>2 DEF Inv, TypeOK
  <2>4. TimersHeld' /\ CompleteHeld'
    BY <1>1, <2>1 DEF Inv, TimersHeld, TimersExplained, CompleteHeld
  <2> QED BY <2>3, <2>4 DEF Inv
<1>4. CASE f.ok
  <2>1. PICK jl \in Junk(f.left), jr \in Junk(f.right) :
          /\ frames' = [s \in Sides |-> IF s = "left" THEN LoadList("left", f.left, jl)
                                        ELSE LoadList("right", f.right, jr)]
          /\ OpenLoaded(LoadList("left", f.left, jl))
          /\ mbOpen' = TRUE
          /\ mbPlay' = FALSE
          /\ enabled' = Controls
          /\ whole' = IF IsComplete(f) THEN Len(f.left) ELSE 0
          /\ leaked' = IF mbPlay THEN leaked \union {mTimer} ELSE leaked
    BY <1>2, <1>4
  <2> DEFINE l == LoadList("left", f.left, jl)
             r == LoadList("right", f.right, jr)
  <2>2. f.left \in Seq(Nat) /\ f.right \in Seq(Nat)
    BY ReplayAssumption
  <2>3. l \in Seq(Int) /\ l # <<>> /\ r \in Seq(Int) /\ Len(f.left) \in Nat
    BY <2>2, LoadedFacts
  <2>4. frames'["left"] = l /\ frames'["right"] = r  BY <2>1 DEF Sides
  <2>5. OpenLoaded(l)  BY <2>1
  <2>6. IsComplete(f) /\ Len(f.left) > 0 =>
          /\ \A s \in Sides : Len(frames'[s]) = Len(f.left) + 1
          /\ \A i \in 1..Len(f.left) : frames'["left"][i] = frames'["right"][i]
          /\ l[1] = 1
          /\ Last(l) \in 0..Len(f.left) => \A v \in Places(l) : InRange(frames', v)
    BY <2>4, OpenCompleteFacts
  <2> HIDE DEF l, r
  <2>7. /\ {mStartIndex', mEndIndex', cursor', shown'} \subseteq Int
        /\ slider' \in [min : Int, max : Int, value : Int]
        /\ slider'.value \in slider'.min..slider'.max
        /\ overrun' \in BOOLEAN
        /\ ~overrun' => {mStartIndex', mEndIndex', cursor', shown', slider'.min}
                           \subseteq Nat
        /\ mEndIndex' = Last(l) /\ slider'.max = Last(l)
        /\ slider'.min = l[1] \/ slider'.min = Last(l)
        /\ overrun' => \E v \in Places(l) : ~InRange(frames', v)
    BY <1>1, <2>3, <2>5, OpenLoadedFacts
  <2>8. whole' \in Nat  BY <2>1, <2>3
  <2>9. leaked' \subseteq timers' /\ timers' = leaked' /\ mbPlay' = FALSE
    BY <1>1, <2>1 DEF Inv, TimersHeld, TimersExplained
  <2>10. TypeOK'
    <3>1. \A s \in Sides : frames'[s] \in Seq(Int)  BY <2>3, <2>4 DEF Sides
    <3>2. /\ speed' \in Speeds /\ enabled' \subseteq Controls
          /\ timers' \subseteq 1..MaxTimers /\ mTimer' \in 0..MaxTimers
          /\ {mbOpen', mbPlay'} \subseteq BOOLEAN
      BY <1>1, <2>1 DEF Inv, TypeOK
    <3> QED BY <2>7, <2>8, <2>9, <3>1, <3>2 DEF TypeOK
  <2>11. TimersHeld'  BY <2>9 DEF TimersHeld, TimersExplained
  <2>12. CompleteHeld'
    <3> SUFFICES ASSUME whole' > 0
                 PROVE  /\ \A s \in Sides : Len(frames'[s]) = whole' + 1
                        /\ \A i \in 1..whole' : frames'["left"][i] = frames'["right"][i]
                        /\ mEndIndex' \in 0..whole' =>
                             ~overrun' /\ slider'.min >= 0 /\ slider'.max <= whole'
      BY DEF CompleteHeld
    <3>1. IsComplete(f) /\ whole' = Len(f.left)  BY <2>1
    <3>2. ASSUME mEndIndex' \in 0..whole'
          PROVE  ~overrun' /\ slider'.min >= 0 /\ slider'.max <= whole'
      <4>1. Last(l) \in 0..Len(f.left) /\ l[1] = 1  BY <2>6, <2>7, <3>1, <3>2
      <4>2. ~overrun'  BY <2>6, <2>7, <3>1, <4>1
      <4>3. slider'.min >= 0 /\ slider'.max <= whole'
        BY <2>3, <2>7, <3>1, <4>1
      <4> QED BY <4>2, <4>3
    <3> QED BY <2>6, <3>1, <3>2
  <2> QED BY <2>10, <2>11, <2>12 DEF Inv
<1> QED BY <1>3, <1>4

LEMMA PlayInv ==
  ASSUME Inv, Play
  PROVE  Inv'
<1>1. /\ ~overrun
      /\ UNCHANGED <<frames, mStartIndex, mEndIndex, speed, cursor, slider,
                     mbOpen, shown, overrun, whole, leaked>>
  BY DEF Play
<1>2. CompleteHeld'  BY <1>1 DEF Inv, CompleteHeld
<1>3. CASE mbPlay /\ Pause
  <2>1. /\ mbPlay' = FALSE /\ timers' = timers \ {mTimer}
        /\ enabled' = enabled \union {"next", "before"} /\ mTimer' = mTimer
    BY <1>3 DEF Pause
  <2>2. timers' = leaked /\ TimersHeld'
    BY <1>1, <1>3, <2>1 DEF Inv, TimersHeld, TimersExplained
  <2>3. TypeOK'  BY <1>1, <2>1, <2>2 DEF Inv, TypeOK, Controls
  <2> QED BY <1>2, <2>2, <2>3 DEF Inv
<1>4. CASE ~mbPlay /\ Resume
  <2>1. PICK t \in (1..MaxTimers) \ timers :
          /\ timers' = timers \union {t} /\ mTimer' = t /\ mbPlay' = TRUE
          /\ enabled' = enabled \ {"next", "before"}
    BY <1>4 DEF Resume
  <2>2. t \in 0..MaxTimers  BY ReplayAssumption
  <2>3. TypeOK'  BY <1>1, <2>1, <2>2 DEF Inv, TypeOK
  <2>4. TimersHeld'
    BY <1>1, <1>4, <2>1 DEF Inv, TypeOK, TimersHeld, TimersExplained
  <2> QED BY <1>2, <2>3, <2>4 DEF Inv
<1> QED BY <1>3, <1>4 DEF Play

\* The handlers that move the slider to v, and perhaps the cursor to c.
LEMMA MoveInv ==
  ASSUME Inv, NEW v \in Int, SetSlider(v), ~overrun, cursor' \in Nat,
         UNCHANGED <<frames, mStartIndex, mEndIndex, speed, enabled, mbOpen,
                     mbPlay, timers, mTimer, whole, leaked>>
  PROVE  Inv'
<1>1. /\ slider' \in [min : Int, max : Int, value : Int]
      /\ slider'.value \in slider'.min..slider'.max
      /\ shown' \in Nat /\ overrun' \in BOOLEAN
      /\ slider'.min \in Nat
      /\ CompleteHeld'
  BY SliderFacts
<1>2. TypeOK'  BY <1>1 DEF Inv, TypeOK
<1>3. TimersHeld'  BY DEF Inv, TimersHeld, TimersExplained
<1> QED BY <1>1, <1>2, <1>3 DEF Inv

\* next() and before() leave the cursor at a place that exists.
LEMMA CursorFacts ==
  ASSUME Inv, ~overrun, StepForward \/ StepBack
  PROVE  /\ cursor' \in Nat
         /\ cursor' \div 2 \in Int /\ SetSlider(cursor' \div 2)
<1>1. /\ mStartIndex \in Nat /\ mEndIndex \in Nat /\ cursor \in Nat
      /\ speed \in Nat
  BY ReplayAssumption DEF Inv, TypeOK
<1>2. cursor' \in Nat
  <2>1. CASE StepForward  BY <1>1, <2>1 DEF StepForward
  <2>2. CASE StepBack
    <3>1. cursor' = IF cursor - speed < 2 * mStartIndex THEN 2 * mEndIndex
                                                      ELSE cursor - speed
      BY <2>2 DEF StepBack
    <3> QED BY <1>1, <3>1
  <2> QED BY <2>1, <2>2
<1>3. cursor' \div 2 \in Int  BY <1>2
<1>4. SetSlider(cursor' \div 2)  BY DEF StepForward, StepBack
<1> QED BY <1>2, <1>3, <1>4

LEMMA NextInv == Inv /\ [Next]_vars => Inv'
<1> SUFFICES ASSUME Inv, [Next]_vars PROVE Inv'  OBVIOUS
<1>1. CASE Open  BY <1>1, OpenInv
<1>2. CASE Play  BY <1>2, PlayInv
<1>3. CASE PressNext \/ PressBefore \/ \E t \in 1..MaxTimers : Timeout(t)
  <2>1. /\ ~overrun /\ (StepForward \/ StepBack)
        /\ UNCHANGED <<frames, mStartIndex, mEndIndex, speed, enabled, mbOpen,
                       mbPlay, timers, mTimer, whole, leaked>>
    BY <1>3 DEF PressNext, PressBefore, Timeout
  <2>2. /\ cursor' \in Nat /\ cursor' \div 2 \in Int
        /\ SetSlider(cursor' \div 2)
    BY <2>1, CursorFacts
  <2> QED BY <2>1, <2>2, MoveInv
<1>4. CASE Drag
  <2>1. PICK v \in slider.min..slider.max : SetSlider(v)  BY <1>4 DEF Drag
  <2>2. v \in Int /\ cursor \in Nat  BY <1>4 DEF Drag, Inv, TypeOK
  <2>3. /\ ~overrun /\ cursor' = cursor
        /\ UNCHANGED <<frames, mStartIndex, mEndIndex, speed, enabled, mbOpen,
                       mbPlay, timers, mTimer, whole, leaked>>
    BY <1>4 DEF Drag
  <2> QED BY <2>1, <2>2, <2>3, MoveInv
<1>5. CASE UNCHANGED vars
  BY <1>5 DEF vars, Inv, TypeOK, TimersHeld, TimersExplained, CompleteHeld
<1>6. CASE Stopped  BY <1>5, <1>6 DEF Stopped
<1> QED BY <1>1, <1>2, <1>3, <1>4, <1>5, <1>6 DEF Next

-----------------------------------------------------------------------------
(***************************************************************************)
(* The theorems.                                                           *)
(***************************************************************************)
\* The player's places stay numbers in their ranges: cursor, slider, timers
\* and the records, whatever a list holds and a failing load leaves.
THEOREM TypeTheorem == Spec => []TypeOK
<1>1. Inv => TypeOK  BY DEF Inv
<1> QED BY <1>1, InitInv, NextInv, PTL DEF Spec

\* A complete recording of any length is read past its records only when the
\* number nobody set, of the left list's extra record, is no index of one: at
\* any speed, with any number of forgotten timers, and opened over any other.
THEOREM OverrunTheorem == Spec => []OverrunExplained
<1>1. Inv => OverrunExplained
  BY DEF Inv, CompleteHeld, OverrunExplained
<1> QED BY <1>1, InitInv, NextInv, PTL DEF Spec

\* The two pictures of a complete recording were taken together, whatever the
\* extra records of the two sides hold.
THEOREM SidesTheorem == Spec => []SidesInStep
<1>1. Inv => SidesInStep
  <2> SUFFICES ASSUME Inv, shown \in 0..(whole - 1)
               PROVE  frames["left"][shown + 1] = frames["right"][shown + 1]
    BY DEF SidesInStep
  <2>1. whole \in Nat /\ whole > 0 /\ shown + 1 \in 1..whole
    BY DEF Inv, TypeOK
  <2> QED BY <2>1 DEF Inv, CompleteHeld
<1> QED BY <1>1, InitInv, NextInv, PTL DEF Spec

\* Only open() loses timers, any number of them: pausing deletes the one that
\* play() created last.
THEOREM TimersTheorem == Spec => []TimersExplained
<1>1. Inv => TimersExplained  BY DEF Inv, TimersHeld
<1> QED BY <1>1, InitInv, NextInv, PTL DEF Spec
=============================================================================
