---------------------------- MODULE CameraProofs ----------------------------
(***************************************************************************)
(* Proofs about CameraSession, for every set of windows and groups.        *)
(***************************************************************************)
EXTENDS CameraSession, SequenceTheorems, FiniteSetTheorems, FunctionTheorems, TLAPS

\* The current window exists, and the pointer of its kind names it.
CurrentLives ==
  /\ windows[current] # Null
  /\ pointer[windows[current]] = current
  /\ ~stale => \A k \in Kinds : pointer[k] = current => windows[current] = k

\* What a preview holds: a group of its own, which lives and is not about to
\* be destroyed.
PreviewsHold ==
  /\ \A a \in Addresses : mCameras[a] # Null =>
       windows[a] # Null /\ group[mCameras[a]].alive /\ mCameras[a] # dying
  /\ \A a, b \in Addresses : mCameras[a] # Null /\ mCameras[a] = mCameras[b] => a = b

\* What may run and be called.
GroupsHeld ==
  \A g \in Groups :
    /\ group[g].pumping /\ ~group[g].orphan => \E a \in Addresses : mCameras[a] = g
    /\ group[g].callback # Null =>
         mCameras[group[g].callback] = g /\ windows[group[g].callback] = "record"
    /\ ~group[g].alive => ~group[g].pumping /\ ~group[g].posting

SessionInv ==
  TypeOK /\ CurrentLives /\ PreviewsHold /\ GroupsHeld /\ FramesReachTheLiving

LEMMA SessionFacts ==
  /\ Null \notin Addresses /\ Null \notin Groups /\ Null \notin Kinds /\ "record" \in Kinds
  /\ Dead \in Group /\ ~Dead.alive /\ ~Dead.pumping /\ ~Dead.posting /\ ~Dead.orphan
  /\ Dead.callback = Null
  /\ \A o \in BOOLEAN : [Dead EXCEPT !.orphan = o] \in Group
BY SessionAssumption DEF Dead, Group

\* The closures on the UI loop, as a set.
LEMMA TaskQueue ==
  ASSUME NEW q \in Seq(Groups)
  PROVE  /\ ToSet(q) \subseteq Groups
         /\ \A g \in Groups : /\ Append(q, g) \in Seq(Groups)
                              /\ Len(Append(q, g)) = Len(q) + 1
                              /\ ToSet(Append(q, g)) = ToSet(q) \union {g}
         /\ q # <<>> => /\ Head(q) \in ToSet(q) /\ Tail(q) \in Seq(Groups)
                        /\ Len(Tail(q)) = Len(q) - 1 /\ Len(q) \in Nat
                        /\ ToSet(Tail(q)) \subseteq ToSet(q)
                        /\ ToSet(q) = ToSet(Tail(q)) \union {Head(q)}
<1>1. ToSet(q) \subseteq Groups
  <2> SUFFICES ASSUME NEW i \in DOMAIN q PROVE q[i] \in Groups
    BY DEF ToSet
  <2> QED OBVIOUS
<1>2. ASSUME NEW g \in Groups
      PROVE  /\ Append(q, g) \in Seq(Groups) /\ Len(Append(q, g)) = Len(q) + 1
             /\ ToSet(Append(q, g)) = ToSet(q) \union {g}
  <2> DEFINE r == Append(q, g)
  <2>1. /\ r \in Seq(Groups) /\ Len(r) = Len(q) + 1 /\ r[Len(q) + 1] = g
        /\ \A i \in 1..Len(q) : r[i] = q[i]
    BY AppendProperties
  <2>2. DOMAIN r = 1..(Len(q) + 1) /\ DOMAIN q = 1..Len(q) /\ Len(q) \in Nat
    BY <2>1
  <2>3. \A i \in DOMAIN r : r[i] \in ToSet(q) \union {g}
    BY <2>1, <2>2 DEF ToSet
  <2>4. \A i \in DOMAIN q : i \in DOMAIN r /\ r[i] = q[i]
    BY <2>1, <2>2
  <2>5. Len(q) + 1 \in DOMAIN r  BY <2>2
  <2> HIDE DEF r
  <2>6. ToSet(r) = ToSet(q) \union {g}
    BY <2>1, <2>3, <2>4, <2>5 DEF ToSet
  <2> QED BY <2>1, <2>6 DEF r
<1>3. ASSUME q # <<>>
      PROVE  /\ Head(q) \in ToSet(q) /\ Tail(q) \in Seq(Groups)
             /\ Len(Tail(q)) = Len(q) - 1 /\ Len(q) \in Nat
             /\ ToSet(q) = ToSet(Tail(q)) \union {Head(q)}
  <2> DEFINE u == Tail(q)
  <2>1. /\ u \in Seq(Groups) /\ Len(u) = Len(q) - 1 /\ Len(q) \in Nat \ {0}
        /\ Head(q) = q[1] /\ \A i \in 1..Len(u) : u[i] = q[i + 1]
    BY <1>3
  <2>2. DOMAIN u = 1..Len(u) /\ DOMAIN q = 1..Len(q)  BY <2>1
  <2>3. \A i \in DOMAIN u : i + 1 \in DOMAIN q /\ u[i] = q[i + 1]
    BY <2>1, <2>2
  <2>4. 1 \in DOMAIN q  BY <2>1, <2>2
  <2>5. \A i \in DOMAIN q : i # 1 => i - 1 \in DOMAIN u /\ q[i] = u[i - 1]
    <3> SUFFICES ASSUME NEW i \in DOMAIN q, i # 1
                 PROVE  i - 1 \in DOMAIN u /\ q[i] = u[i - 1]
      OBVIOUS
    <3>1. i \in Nat /\ i - 1 \in 1..Len(u) /\ (i - 1) + 1 = i  BY <2>1, <2>2
    <3> QED BY <3>1, <2>1, <2>2
  <2> HIDE DEF u
  <2>6. ToSet(q) = ToSet(u) \union {Head(q)}
    <3>1. \A i \in DOMAIN q : q[i] \in ToSet(u) \union {Head(q)}
      <4> SUFFICES ASSUME NEW i \in DOMAIN q PROVE q[i] \in ToSet(u) \union {Head(q)}
        OBVIOUS
      <4>1. CASE i = 1  BY <4>1, <2>1
      <4>2. CASE i # 1  BY <4>2, <2>5 DEF ToSet
      <4> QED BY <4>1, <4>2
    <3>2. \A i \in DOMAIN u : u[i] \in ToSet(q)  BY <2>3 DEF ToSet
    <3>3. Head(q) \in ToSet(q)  BY <2>1, <2>4 DEF ToSet
    <3> QED BY <3>1, <3>2, <3>3 DEF ToSet
  <2> QED BY <2>1, <2>6 DEF u
<1> QED BY <1>1, <1>2, <1>3

\* The part of TypeOK that is about windows.
WindowsTyped ==
  /\ windows \in [Addresses -> Kinds \union {Null}]
  /\ current \in Addresses
  /\ pointer \in [Kinds -> Addresses \union {Null}]
  /\ closing = {a \in Addresses : windows[a] # Null} \ {current}
  /\ stale \in BOOLEAN

\* The three things that may become of a group when a reference is given up.
LEMMA ReleaseFacts ==
  ASSUME group \in [Groups -> Group], dying = Null, NEW g \in Groups, NEW q \in Group,
         NEW cams, NEW queue, Release(g, q, cams, queue)
  PROVE  /\ mCameras' = cams /\ tasks' = queue
         /\ group' \in [Groups -> Group]
         /\ \A h \in Groups \ {g} : group'[h] = group[h]
         /\ \/ group'[g] = q /\ dying' = Null
            \/ group'[g] = q /\ dying' = g /\ ~Held(g, cams, queue)
            \/ group'[g] = Dead /\ dying' = Null /\ ~Held(g, cams, queue)
<1>1. CASE Held(g, cams, queue)
  BY <1>1 DEF Release
<1>2. CASE ~Held(g, cams, queue) /\ q.pumping
  BY <1>2 DEF Release
<1>3. CASE ~Held(g, cams, queue) /\ ~q.pumping
  <2>1. /\ mCameras' = cams /\ tasks' = queue
        /\ group' = [group EXCEPT ![g] = Dead] /\ dying' = dying
    BY <1>3 DEF Release
  <2> QED BY <2>1, <1>3, SessionFacts
<1> QED BY <1>1, <1>2, <1>3

\* Giving up a reference keeps the invariant if only holders of g let go, no
\* closures are added, and what g has become is still explained.
LEMMA ReleaseInv ==
  ASSUME SessionInv, dying = Null, NEW g \in Groups, NEW q \in Group,
         NEW cams \in [Addresses -> Groups \union {Null}],
         NEW queue \in Seq(Groups), Len(queue) <= MaxTasks,
         Release(g, q, cams, queue), wild = FALSE, wild' = FALSE,
         ToSet(queue) \subseteq ToSet(tasks),
         \A b \in Addresses : cams[b] = mCameras[b] \/ (cams[b] = Null /\ mCameras[b] = g),
         q.alive, q.posting = group[g].posting,
         q.pumping /\ ~q.orphan => \E a \in Addresses : cams[a] = g,
         q.callback # Null => cams[q.callback] = g /\ windows'[q.callback] = "record",
         WindowsTyped', CurrentLives',
         \A b \in Addresses : cams[b] # Null => windows'[b] = windows[b]
  PROVE  SessionInv'
<1>1. /\ group \in [Groups -> Group] /\ mCameras \in [Addresses -> Groups \union {Null}]
      /\ PreviewsHold /\ GroupsHeld /\ FramesReachTheLiving
  BY DEF SessionInv, TypeOK
<1>2. /\ mCameras' = cams /\ tasks' = queue
      /\ group' \in [Groups -> Group]
      /\ \A h \in Groups \ {g} : group'[h] = group[h]
      /\ \/ group'[g] = q /\ dying' = Null
         \/ group'[g] = q /\ dying' = g /\ ~Held(g, cams, queue)
         \/ group'[g] = Dead /\ dying' = Null /\ ~Held(g, cams, queue)
  BY <1>1, ReleaseFacts
<1>3. ~Held(g, cams, queue) =>
        /\ \A b \in Addresses : cams[b] # g
        /\ g \notin ToSet(queue) /\ ~group[g].posting
  BY DEF Held
<1>4. TypeOK'
  <2>1. dying' \in Groups \union {Null}  BY <1>2
  <2> QED BY <1>2, <2>1 DEF WindowsTyped, TypeOK
<1>5. PreviewsHold'
  <2>1. ASSUME NEW b \in Addresses, cams[b] # Null
        PROVE  windows'[b] # Null /\ group'[cams[b]].alive /\ cams[b] # dying'
    <3>1. cams[b] = mCameras[b] /\ cams[b] \in Groups  BY <2>1
    <3>2. windows[b] # Null /\ group[cams[b]].alive
      BY <1>1, <2>1, <3>1 DEF PreviewsHold
    <3>3. windows'[b] # Null  BY <2>1, <3>2
    <3>4. CASE cams[b] = g
      <4>1. Held(g, cams, queue)  BY <3>4 DEF Held
      <4>2. group'[g] = q /\ dying' = Null  BY <4>1, <1>2
      <4> QED BY <2>1, <3>3, <3>4, <4>2
    <3>5. CASE cams[b] # g
      <4>1. group'[cams[b]] = group[cams[b]]  BY <1>2, <3>1, <3>5
      <4>2. cams[b] # dying'  BY <1>2, <2>1, <3>5
      <4> QED BY <3>2, <3>3, <4>1, <4>2
    <3> QED BY <3>4, <3>5
  <2>2. ASSUME NEW a \in Addresses, NEW b \in Addresses, cams[a] # Null, cams[a] = cams[b]
        PROVE  a = b
    <3>1. cams[a] = mCameras[a] /\ cams[b] = mCameras[b]  BY <2>2
    <3> QED BY <1>1, <2>2, <3>1 DEF PreviewsHold
  <2> QED BY <1>2, <2>1, <2>2 DEF PreviewsHold
<1>6. GroupsHeld'
  <2>1. ASSUME NEW h \in Groups
        PROVE  /\ group'[h].pumping /\ ~group'[h].orphan => \E a \in Addresses : cams[a] = h
               /\ group'[h].callback # Null =>
                    cams[group'[h].callback] = h /\ windows'[group'[h].callback] = "record"
               /\ ~group'[h].alive => ~group'[h].pumping /\ ~group'[h].posting
    <3>1. CASE h # g
      <4>1. group'[h] = group[h]  BY <1>2, <3>1
      <4>2. group[h].pumping /\ ~group[h].orphan => \E a \in Addresses : cams[a] = h
        <5>1. ASSUME NEW a \in Addresses, mCameras[a] = h PROVE cams[a] = h
          BY <3>1, <5>1
        <5> QED BY <5>1, <1>1 DEF GroupsHeld
      <4>3. group[h].callback # Null =>
              cams[group[h].callback] = h /\ windows'[group[h].callback] = "record"
        <5> DEFINE b == group[h].callback
        <5> SUFFICES ASSUME b # Null PROVE cams[b] = h /\ windows'[b] = "record"
          OBVIOUS
        <5>1. b \in Addresses /\ mCameras[b] = h /\ windows[b] = "record"
          BY <1>1 DEF GroupsHeld, Group
        <5>2. cams[b] = h /\ h # Null  BY <5>1, <3>1, SessionFacts
        <5> QED BY <5>1, <5>2
      <4> QED BY <4>1, <4>2, <4>3, <1>1 DEF GroupsHeld
    <3>2. CASE h = g /\ group'[g] = q  BY <3>2
    <3>3. CASE h = g /\ group'[g] = Dead  BY <3>3, SessionFacts
    <3> QED BY <3>1, <3>2, <3>3, <1>2
  <2> QED BY <1>2, <2>1 DEF GroupsHeld
<1>7. FramesReachTheLiving'
  <2>1. ASSUME NEW h \in ToSet(queue) PROVE group'[h].alive \/ group'[h].orphan
    <3>1. h \in Groups  BY TaskQueue
    <3>2. group[h].alive \/ group[h].orphan
      BY <1>1 DEF FramesReachTheLiving
    <3>3. CASE h # g  BY <3>1, <3>2, <3>3, <1>2
    <3>4. CASE h = g
      <4>1. Held(g, cams, queue)  BY <3>4 DEF Held
      <4> QED BY <3>4, <4>1, <1>2
    <3> QED BY <3>3, <3>4
  <2> QED BY <1>2, <2>1 DEF FramesReachTheLiving
<1> QED BY <1>4, <1>5, <1>6, <1>7 DEF SessionInv

-----------------------------------------------------------------------------
LEMMA SessionInit == Init => SessionInv
<1> SUFFICES ASSUME Init PROVE SessionInv
  OBVIOUS
<1>1. current \in Addresses  BY SessionAssumption DEF Init
<1>2. windows = [a \in Addresses |-> IF a = current THEN "record" ELSE Null]
  BY DEF Init
<1>3. windows[current] = "record" /\ "record" # Null  BY <1>1, <1>2, SessionFacts
<1>4. closing = {a \in Addresses : windows[a] # Null} \ {current}
  BY <1>2 DEF Init
<1>5. tasks \in Seq(Groups) /\ Len(tasks) = 0 /\ ToSet(tasks) = {}
  <2>1. tasks = <<>>  BY DEF Init
  <2>2. tasks \in Seq(Groups) /\ Len(tasks) = 0 /\ DOMAIN tasks = {}  BY <2>1
  <2> QED BY <2>2 DEF ToSet
<1>6. TypeOK
  <2>1. windows \in [Addresses -> Kinds \union {Null}]  BY <1>2, SessionFacts
  <2>2. pointer \in [Kinds -> Addresses \union {Null}]  BY <1>1 DEF Init
  <2>3. mCameras \in [Addresses -> Groups \union {Null}] /\ group \in [Groups -> Group]
    BY SessionFacts DEF Init
  <2>4. Len(tasks) <= MaxTasks  BY <1>5, SessionAssumption
  <2> QED BY <1>1, <1>4, <1>5, <2>1, <2>2, <2>3, <2>4 DEF Init, TypeOK
<1>7. CurrentLives
  BY <1>1, <1>3, SessionFacts DEF Init, CurrentLives
<1>8. PreviewsHold  BY DEF Init, PreviewsHold
<1>9. GroupsHeld  BY SessionFacts DEF Init, GroupsHeld
<1>10. FramesReachTheLiving  BY <1>5 DEF Init, FramesReachTheLiving
<1> QED BY <1>6, <1>7, <1>8, <1>9, <1>10 DEF SessionInv

\* A window appears at a free address, where nobody previews.
LEMMA ShowInv == ASSUME SessionInv, NEW k \in Kinds, Show(k) PROVE SessionInv'
<1> PICK a \in Addresses : windows[a] = Null /\ Adopt(a, k)
  BY DEF Show
<1>1. /\ windows' = [windows EXCEPT ![a] = k] /\ current' = a
      /\ pointer' = [pointer EXCEPT ![k] = a]
      /\ closing' = closing \union {current}
      /\ stale' = (\E j \in Kinds \ {k} : pointer[j] = a)
      /\ UNCHANGED <<mCameras, group, tasks, dying, wild>>
  BY DEF Show, Adopt, groupVars
<1>2. TypeOK /\ CurrentLives /\ PreviewsHold /\ GroupsHeld /\ FramesReachTheLiving
  BY DEF SessionInv
<1>3. k # Null /\ a # current  BY <1>2, SessionFacts DEF CurrentLives
<1>4. /\ windows \in [Addresses -> Kinds \union {Null}]
      /\ pointer \in [Kinds -> Addresses \union {Null}] /\ current \in Addresses
      /\ closing = {b \in Addresses : windows[b] # Null} \ {current}
  BY <1>2 DEF TypeOK
<1>5. windows'[a] = k /\ \A b \in Addresses \ {a} : windows'[b] = windows[b]
  BY <1>1, <1>4
<1>6. pointer'[k] = a /\ \A j \in Kinds \ {k} : pointer'[j] = pointer[j]
  BY <1>1, <1>4
<1>7. closing' = {b \in Addresses : windows'[b] # Null} \ {current'}
  BY <1>1, <1>2, <1>3, <1>4, <1>5 DEF CurrentLives
<1>8. stale' \in BOOLEAN  BY <1>1
<1>9. TypeOK'
  BY <1>1, <1>2, <1>4, <1>7, <1>8 DEF TypeOK
<1>10. CurrentLives'
  BY <1>1, <1>3, <1>5, <1>6 DEF CurrentLives
<1>11. mCameras[a] = Null  BY <1>2 DEF PreviewsHold
<1>12. PreviewsHold'
  BY <1>1, <1>2, <1>5, <1>11 DEF PreviewsHold
<1>13. GroupsHeld'
  <2>1. ASSUME NEW g \in Groups, group[g].callback # Null
        PROVE  windows'[group[g].callback] = "record"
    <3>1. mCameras[group[g].callback] = g /\ windows[group[g].callback] = "record"
      BY <1>2, <2>1 DEF GroupsHeld
    <3>2. group[g].callback \in Addresses /\ group[g].callback # a
      BY <1>2, <1>11, <2>1, <3>1, SessionFacts DEF TypeOK, Group
    <3> QED BY <3>1, <3>2, <1>5
  <2> QED BY <1>1, <1>2, <2>1 DEF GroupsHeld
<1>14. FramesReachTheLiving'  BY <1>1, <1>2 DEF FramesReachTheLiving
<1> QED BY <1>9, <1>10, <1>12, <1>13, <1>14 DEF SessionInv

\* A new group where none was, for the current window.
LEMMA PreviewStartInv == ASSUME SessionInv, PreviewStart PROVE SessionInv'
<1> DEFINE n == NextGroup
<1>1. /\ dying = Null /\ windows[current] # "replay" /\ mCameras[current] = Null
      /\ Fresh # {}
      /\ mCameras' = [mCameras EXCEPT ![current] = n]
      /\ UNCHANGED <<windows, current, pointer, closing, stale, tasks, dying, wild>>
  BY DEF PreviewStart, UiFree, Previewing, windowVars
<1>2. n \in Groups /\ ~group[n].alive /\ n \notin ToSet(tasks)
  <2>1. n \in Fresh  BY <1>1 DEF NextGroup
  <2> QED BY <2>1 DEF Fresh
<1>3. PICK runs \in BOOLEAN :
       group' = [group EXCEPT ![n] =
         [Dead EXCEPT !.alive = TRUE, !.pumping = runs,
                      !.callback = IF windows[current] = "record" THEN current ELSE Null]]
  BY DEF PreviewStart
<1> HIDE DEF n
<1>4. TypeOK /\ CurrentLives /\ PreviewsHold /\ GroupsHeld /\ FramesReachTheLiving
  BY DEF SessionInv
<1>5. /\ group \in [Groups -> Group] /\ mCameras \in [Addresses -> Groups \union {Null}]
      /\ current \in Addresses /\ tasks \in Seq(Groups)
  BY <1>4 DEF TypeOK
<1> DEFINE q == [Dead EXCEPT !.alive = TRUE, !.pumping = runs,
                      !.callback = IF windows[current] = "record" THEN current ELSE Null]
<1>6. /\ q \in Group /\ q.alive /\ ~q.posting
      /\ q.callback = (IF windows[current] = "record" THEN current ELSE Null)
  BY <1>5 DEF Dead, Group
<1>7. group' = [group EXCEPT ![n] = q]  BY <1>3
<1> HIDE DEF q
<1>8. /\ group'[n] = q /\ \A h \in Groups \ {n} : group'[h] = group[h]
      /\ group' \in [Groups -> Group]
  BY <1>2, <1>5, <1>6, <1>7
<1>9. /\ mCameras'[current] = n
      /\ \A b \in Addresses \ {current} : mCameras'[b] = mCameras[b] /\ mCameras[b] # n
      /\ mCameras' \in [Addresses -> Groups \union {Null}]
  <2>1. \A b \in Addresses : mCameras[b] # n
    BY <1>2, <1>4, SessionFacts DEF PreviewsHold
  <2> QED BY <2>1, <1>1, <1>2, <1>5
<1>10. TypeOK'  BY <1>1, <1>4, <1>8, <1>9 DEF TypeOK
<1>11. CurrentLives'  BY <1>1, <1>4 DEF CurrentLives
<1>12. PreviewsHold'
  <2>1. n # Null /\ n # dying  BY <1>1, <1>2, SessionFacts
  <2>2. ASSUME NEW b \in Addresses, mCameras'[b] # Null
        PROVE  windows'[b] # Null /\ group'[mCameras'[b]].alive /\ mCameras'[b] # dying'
    <3>1. CASE b = current
      BY <3>1, <2>1, <1>1, <1>4, <1>6, <1>8, <1>9 DEF CurrentLives
    <3>2. CASE b # current
      <4>1. mCameras'[b] = mCameras[b] /\ mCameras[b] # n /\ mCameras[b] \in Groups
        BY <3>2, <2>2, <1>5, <1>9
      <4> QED BY <4>1, <2>2, <1>1, <1>4, <1>8 DEF PreviewsHold
    <3> QED BY <3>1, <3>2
  <2>3. ASSUME NEW b \in Addresses, NEW c \in Addresses,
               mCameras'[b] # Null, mCameras'[b] = mCameras'[c]
        PROVE  b = c
    BY <2>3, <1>4, <1>9 DEF PreviewsHold
  <2> QED BY <2>2, <2>3 DEF PreviewsHold
<1>13. GroupsHeld'
  <2>1. ASSUME NEW h \in Groups
        PROVE  /\ group'[h].pumping /\ ~group'[h].orphan => \E a \in Addresses : mCameras'[a] = h
               /\ group'[h].callback # Null =>
                    /\ mCameras'[group'[h].callback] = h
                    /\ windows'[group'[h].callback] = "record"
               /\ ~group'[h].alive => ~group'[h].pumping /\ ~group'[h].posting
    <3>1. CASE h = n  BY <3>1, <1>1, <1>5, <1>6, <1>8, <1>9
    <3>2. CASE h # n
      <4>1. group'[h] = group[h]  BY <3>2, <1>8
      <4>2. \A a \in Addresses : mCameras[a] = h => mCameras'[a] = h
        BY <1>1, <1>9, SessionFacts
      <4>3. group[h].callback # Null => group[h].callback \in Addresses
        BY <1>5 DEF Group
      <4> QED BY <4>1, <4>2, <4>3, <1>1, <1>4 DEF GroupsHeld
    <3> QED BY <3>1, <3>2
  <2> QED BY <2>1 DEF GroupsHeld
<1>14. FramesReachTheLiving'
  <2>1. \A h \in ToSet(tasks) : group'[h] = group[h]
    BY <1>2, <1>5, <1>8, TaskQueue
  <2>2. wild = FALSE  BY <1>4 DEF PreviewStart, UiFree, TypeOK
  <2> QED BY <2>1, <2>2, <1>1, <1>4 DEF FramesReachTheLiving
<1> QED BY <1>10, <1>11, <1>12, <1>13, <1>14 DEF SessionInv

\* preview() lets a group go that it has stopped: for any change of the
\* windows that spares those with a preview.
LEMMA LetGoInv ==
  ASSUME SessionInv, UiFree, wild' = FALSE, NEW a \in Addresses, Previewing(a), LetGo(a),
         WindowsTyped', CurrentLives',
         \A b \in Addresses \ {a} : windows'[b] = windows[b]
  PROVE  SessionInv'
<1>1. TypeOK /\ PreviewsHold /\ dying = Null /\ wild = FALSE
  BY DEF SessionInv, UiFree, TypeOK
<1> DEFINE g == mCameras[a]
<1>2. g \in Groups /\ group[g] \in Group /\ g # Null /\ group[g].alive
  BY <1>1 DEF TypeOK, Previewing, PreviewsHold
<1>3. Stop(a) = [group[g] EXCEPT !.pumping = FALSE, !.callback = Null]  BY DEF Stop
<1>4. /\ Stop(a) \in Group /\ Stop(a).alive /\ ~Stop(a).pumping
      /\ Stop(a).posting = group[g].posting /\ Stop(a).callback = Null
  BY <1>2, <1>3 DEF Group
<1>5. Release(g, Stop(a), Without(a), tasks)  BY DEF LetGo
<1>6. /\ Without(a) \in [Addresses -> Groups \union {Null}]
      /\ Without(a)[a] = Null /\ \A b \in Addresses \ {a} : Without(a)[b] = mCameras[b]
  BY <1>1 DEF TypeOK, Without
<1>7. tasks \in Seq(Groups) /\ Len(tasks) <= MaxTasks  BY <1>1 DEF TypeOK
<1> HIDE DEF g
<1>8. \A b \in Addresses : Without(a)[b] = mCameras[b] \/ (Without(a)[b] = Null /\ mCameras[b] = g)
  BY <1>6 DEF g
<1>9. \A b \in Addresses : Without(a)[b] # Null => windows'[b] = windows[b]
  BY <1>6
<1> QED BY <1>1, <1>2, <1>4, <1>5, <1>6, <1>7, <1>8, <1>9, ReleaseInv

LEMMA PreviewStopInv == ASSUME SessionInv, PreviewStop PROVE SessionInv'
<1>1. /\ UiFree /\ Previewing(current) /\ LetGo(current)
      /\ UNCHANGED <<windows, current, pointer, closing, stale, wild>>
  BY DEF PreviewStop, windowVars
<1>2. current \in Addresses /\ wild' = FALSE
  BY <1>1 DEF SessionInv, UiFree, TypeOK
<1>3. WindowsTyped'  BY <1>1 DEF SessionInv, TypeOK, WindowsTyped
<1>4. CurrentLives'  BY <1>1 DEF SessionInv, CurrentLives
<1> QED BY <1>1, <1>2, <1>3, <1>4, LetGoInv

\* The deferred deletion, with no preview, with one it stops, and with the
\* one ~ManualWindow forgets.
LEMMA DestroyWindowInv ==
  ASSUME SessionInv, NEW a \in Addresses, DestroyWindow(a)
  PROVE  SessionInv'
<1>1. /\ UiFree /\ a \in closing
      /\ windows' = [windows EXCEPT ![a] = Null]
      /\ closing' = closing \ {a}
      /\ UNCHANGED <<current, pointer, stale, wild>>
      /\ IF ~Previewing(a)
           THEN UNCHANGED groupVars
           ELSE IF windows[a] = "manual"
                  THEN Release(mCameras[a], Orphaned(a), Without(a), tasks)
                  ELSE LetGo(a)
  BY DEF DestroyWindow
<1>2. /\ TypeOK /\ CurrentLives /\ PreviewsHold /\ GroupsHeld /\ FramesReachTheLiving
      /\ dying = Null /\ wild = FALSE
  BY <1>1 DEF SessionInv, UiFree, TypeOK
<1>3. /\ windows \in [Addresses -> Kinds \union {Null}] /\ current \in Addresses
      /\ closing = {b \in Addresses : windows[b] # Null} \ {current}
  BY <1>2 DEF TypeOK
<1>4. /\ windows'[a] = Null /\ \A b \in Addresses \ {a} : windows'[b] = windows[b]
      /\ windows' \in [Addresses -> Kinds \union {Null}]
  BY <1>1, <1>3
<1>5. a # current  BY <1>1, <1>3
<1>6. WindowsTyped'
  <2>1. closing' = {b \in Addresses : windows'[b] # Null} \ {current'}
    BY <1>1, <1>3, <1>4
  <2> QED BY <1>1, <1>2, <1>4, <2>1 DEF WindowsTyped, TypeOK
<1>7. CurrentLives'
  BY <1>1, <1>2, <1>3, <1>4, <1>5 DEF CurrentLives
<1>8. CASE ~Previewing(a)
  <2>1. mCameras[a] = Null /\ UNCHANGED <<mCameras, group, tasks, dying>>
    BY <1>1, <1>8 DEF Previewing, groupVars
  <2>2. TypeOK'  BY <1>1, <1>2, <1>6, <2>1 DEF TypeOK, WindowsTyped
  <2>3. PreviewsHold'  BY <1>2, <1>4, <2>1 DEF PreviewsHold
  <2>4. GroupsHeld'
    <3>1. ASSUME NEW g \in Groups, group[g].callback # Null
          PROVE  windows'[group[g].callback] = "record"
      <4>1. mCameras[group[g].callback] = g /\ windows[group[g].callback] = "record"
        BY <1>2, <3>1 DEF GroupsHeld
      <4>2. group[g].callback \in Addresses /\ group[g].callback # a
        BY <1>2, <2>1, <3>1, <4>1, SessionFacts DEF TypeOK, Group
      <4> QED BY <4>1, <4>2, <1>4
    <3> QED BY <1>2, <2>1, <3>1 DEF GroupsHeld
  <2>5. FramesReachTheLiving'  BY <1>1, <1>2, <2>1 DEF FramesReachTheLiving
  <2> QED BY <1>7, <2>2, <2>3, <2>4, <2>5 DEF SessionInv
<1>9. CASE Previewing(a) /\ windows[a] # "manual"
  BY <1>1, <1>2, <1>4, <1>6, <1>7, <1>9, LetGoInv
<1>10. CASE Previewing(a) /\ windows[a] = "manual"
  <2> DEFINE g == mCameras[a]
  <2>1. g \in Groups /\ group[g] \in Group /\ g # Null /\ group[g].alive
    BY <1>2, <1>10 DEF TypeOK, Previewing, PreviewsHold
  <2>2. Orphaned(a) = [group[g] EXCEPT !.orphan = group[g].pumping]  BY DEF Orphaned
  <2>3. /\ Orphaned(a) \in Group /\ Orphaned(a).alive
        /\ Orphaned(a).pumping => Orphaned(a).orphan
        /\ Orphaned(a).posting = group[g].posting
        /\ Orphaned(a).callback = group[g].callback
    BY <2>1, <2>2 DEF Group
  <2>4. group[g].callback = Null
    <3> SUFFICES ASSUME group[g].callback # Null PROVE FALSE
      OBVIOUS
    <3>1. /\ group[g].callback \in Addresses
          /\ mCameras[group[g].callback] = g /\ windows[group[g].callback] = "record"
      BY <1>2, <2>1 DEF GroupsHeld, Group
    <3>2. group[g].callback = a  BY <1>2, <2>1, <3>1 DEF PreviewsHold
    <3> QED BY <3>1, <3>2, <1>10
  <2>5. Release(g, Orphaned(a), Without(a), tasks)  BY <1>1, <1>10
  <2>6. /\ Without(a) \in [Addresses -> Groups \union {Null}]
        /\ Without(a)[a] = Null /\ \A b \in Addresses \ {a} : Without(a)[b] = mCameras[b]
    BY <1>2 DEF TypeOK, Without
  <2>7. tasks \in Seq(Groups) /\ Len(tasks) <= MaxTasks  BY <1>2 DEF TypeOK
  <2> HIDE DEF g
  <2>8. \A b \in Addresses : Without(a)[b] = mCameras[b] \/ (Without(a)[b] = Null /\ mCameras[b] = g)
    BY <2>6 DEF g
  <2>9. \A b \in Addresses : Without(a)[b] # Null => windows'[b] = windows[b]
    BY <1>4, <2>6
  <2>10. wild' = FALSE  BY <1>1, <1>2
  <2> DEFINE q == Orphaned(a)
             c == Without(a)
  <2>11. /\ q.pumping /\ ~q.orphan => \E b \in Addresses : c[b] = g
         /\ q.callback # Null => c[q.callback] = g /\ windows'[q.callback] = "record"
    BY <2>3, <2>4
  <2>12. /\ q \in Group /\ q.alive /\ q.posting = group[g].posting
         /\ Release(g, q, c, tasks) /\ c \in [Addresses -> Groups \union {Null}]
    BY <2>3, <2>5, <2>6
  <2>13. /\ \A b \in Addresses : c[b] = mCameras[b] \/ (c[b] = Null /\ mCameras[b] = g)
         /\ \A b \in Addresses : c[b] # Null => windows'[b] = windows[b]
    BY <2>8, <2>9
  <2>14. dying = Null /\ wild = FALSE /\ ToSet(tasks) \subseteq ToSet(tasks)
    BY <1>2
  <2> HIDE DEF q, c
  <2> QED BY <1>6, <1>7, <2>1, <2>7, <2>10, <2>11, <2>12, <2>13, <2>14, ReleaseInv
<1> QED BY <1>8, <1>9, <1>10

LEMMA PumpPostInv == ASSUME SessionInv, NEW g \in Groups, PumpPost(g) PROVE SessionInv'
<1>1. /\ ~wild /\ group[g].pumping /\ Len(tasks) < MaxTasks
      /\ tasks' = Append(tasks, g)
      /\ group' = [group EXCEPT ![g].posting = TRUE]
      /\ UNCHANGED <<windows, current, pointer, closing, stale, mCameras, dying, wild>>
  BY DEF PumpPost, windowVars
<1>2. TypeOK /\ CurrentLives /\ PreviewsHold /\ GroupsHeld /\ FramesReachTheLiving
  BY DEF SessionInv
<1>3. group \in [Groups -> Group] /\ tasks \in Seq(Groups) /\ group[g].alive
  BY <1>1, <1>2 DEF TypeOK, GroupsHeld
<1> DEFINE q == [group[g] EXCEPT !.posting = TRUE]
<1>4. /\ q \in Group /\ q.alive /\ q.pumping = group[g].pumping
      /\ q.orphan = group[g].orphan /\ q.callback = group[g].callback
  BY <1>3 DEF Group
<1>5. group' = [group EXCEPT ![g] = q]  BY <1>1
<1> HIDE DEF q
<1>6. /\ group' \in [Groups -> Group] /\ group'[g] = q
      /\ \A h \in Groups \ {g} : group'[h] = group[h]
  BY <1>3, <1>4, <1>5
<1>7. tasks' \in Seq(Groups) /\ Len(tasks') <= MaxTasks
      /\ ToSet(tasks') = ToSet(tasks) \union {g} /\ ToSet(tasks) \subseteq Groups
  <2>1. tasks' \in Seq(Groups) /\ Len(tasks') = Len(tasks) + 1
        /\ ToSet(tasks') = ToSet(tasks) \union {g} /\ ToSet(tasks) \subseteq Groups
    BY <1>1, <1>3, TaskQueue
  <2>2. Len(tasks) \in Nat /\ MaxTasks \in Nat  BY <1>3, SessionAssumption
  <2> QED BY <1>1, <2>1, <2>2
<1>8. TypeOK'  BY <1>1, <1>2, <1>6, <1>7 DEF TypeOK
<1>9. CurrentLives'  BY <1>1, <1>2 DEF CurrentLives
<1>10. PreviewsHold'
  <2>1. \A b \in Addresses : mCameras[b] # Null => mCameras[b] \in Groups
    BY <1>2 DEF TypeOK
  <2> QED BY <1>1, <1>2, <1>4, <1>6, <2>1 DEF PreviewsHold
<1>11. GroupsHeld'
  <2>1. ASSUME NEW h \in Groups
        PROVE  /\ group'[h].pumping /\ ~group'[h].orphan => \E a \in Addresses : mCameras[a] = h
               /\ group'[h].callback # Null =>
                    mCameras[group'[h].callback] = h /\ windows[group'[h].callback] = "record"
               /\ ~group'[h].alive => ~group'[h].pumping /\ ~group'[h].posting
    <3>1. CASE h = g  BY <3>1, <1>2, <1>4, <1>6 DEF GroupsHeld
    <3>2. CASE h # g  BY <3>2, <1>2, <1>6 DEF GroupsHeld
    <3> QED BY <3>1, <3>2
  <2> QED BY <1>1, <2>1 DEF GroupsHeld
<1>12. FramesReachTheLiving'
  <2>1. wild' = FALSE  BY <1>1, <1>2 DEF TypeOK
  <2>2. \A h \in ToSet(tasks') : group'[h].alive \/ group'[h].orphan
    BY <1>2, <1>4, <1>6, <1>7 DEF FramesReachTheLiving
  <2> QED BY <2>1, <2>2 DEF FramesReachTheLiving
<1> QED BY <1>8, <1>9, <1>10, <1>11, <1>12 DEF SessionInv

\* The group thread leaves PostTask, with the last reference or not.
LEMMA PumpPostedInv == ASSUME SessionInv, NEW g \in Groups, PumpPosted(g) PROVE SessionInv'
<1>1. /\ ~wild /\ group[g].posting
      /\ UNCHANGED <<windows, current, pointer, closing, stale, mCameras, tasks, dying, wild>>
  BY DEF PumpPosted, windowVars
<1>2. TypeOK /\ CurrentLives /\ PreviewsHold /\ GroupsHeld /\ FramesReachTheLiving
  BY DEF SessionInv
<1>3. group \in [Groups -> Group] /\ tasks \in Seq(Groups) /\ ToSet(tasks) \subseteq Groups
  BY <1>2, TaskQueue DEF TypeOK
<1> DEFINE p == [group[g] EXCEPT !.posting = FALSE]
<1>4. /\ p \in Group /\ p.alive = group[g].alive /\ p.pumping = group[g].pumping
      /\ p.orphan = group[g].orphan /\ p.callback = group[g].callback /\ ~p.posting
  BY <1>3 DEF Group
<1>5. \/ /\ group' = [group EXCEPT ![g] = p]
      \/ /\ group' = [group EXCEPT ![g] = Dead]
         /\ (\A b \in Addresses : mCameras[b] # g) /\ g \notin ToSet(tasks)
  <2>1. CASE (\E b \in Addresses : mCameras[b] = g) \/ g \in ToSet(tasks)
    BY <2>1 DEF PumpPosted
  <2>2. CASE ~((\E b \in Addresses : mCameras[b] = g) \/ g \in ToSet(tasks))
    BY <2>2 DEF PumpPosted
  <2> QED BY <2>1, <2>2
<1> HIDE DEF p
<1>6. /\ group' \in [Groups -> Group]
      /\ \A h \in Groups \ {g} : group'[h] = group[h]
      /\ \/ group'[g] = p
         \/ /\ group'[g] = Dead
            /\ (\A b \in Addresses : mCameras[b] # g) /\ g \notin ToSet(tasks)
  BY <1>3, <1>4, <1>5, SessionFacts
<1>7. TypeOK'  BY <1>1, <1>2, <1>6 DEF TypeOK
<1>8. CurrentLives'  BY <1>1, <1>2 DEF CurrentLives
<1>9. PreviewsHold'
  <2>1. ASSUME NEW b \in Addresses, mCameras[b] # Null PROVE group'[mCameras[b]].alive
    <3>1. mCameras[b] \in Groups /\ group[mCameras[b]].alive
      BY <1>2, <2>1 DEF TypeOK, PreviewsHold
    <3> QED BY <3>1, <1>4, <1>6
  <2> QED BY <1>1, <1>2, <2>1 DEF PreviewsHold
<1>10. GroupsHeld'
  <2>1. ASSUME NEW h \in Groups
        PROVE  /\ group'[h].pumping /\ ~group'[h].orphan => \E a \in Addresses : mCameras[a] = h
               /\ group'[h].callback # Null =>
                    mCameras[group'[h].callback] = h /\ windows[group'[h].callback] = "record"
               /\ ~group'[h].alive => ~group'[h].pumping /\ ~group'[h].posting
    <3>1. CASE h = g /\ group'[g] = p  BY <3>1, <1>2, <1>4 DEF GroupsHeld
    <3>2. CASE h = g /\ group'[g] = Dead  BY <3>2, SessionFacts
    <3>3. CASE h # g  BY <3>3, <1>2, <1>6 DEF GroupsHeld
    <3> QED BY <3>1, <3>2, <3>3, <1>6
  <2> QED BY <1>1, <2>1 DEF GroupsHeld
<1>11. FramesReachTheLiving'
  <2>1. wild' = FALSE  BY <1>1, <1>2 DEF TypeOK
  <2>2. \A h \in ToSet(tasks) : group'[h].alive \/ group'[h].orphan
    BY <1>2, <1>3, <1>4, <1>6 DEF FramesReachTheLiving
  <2> QED BY <1>1, <2>1, <2>2 DEF FramesReachTheLiving
<1> QED BY <1>7, <1>8, <1>9, <1>10, <1>11 DEF SessionInv

\* A closure is run: its group lives, or ~ManualWindow orphaned it.
LEMMA RunTaskInv == ASSUME SessionInv, RunTask PROVE SessionInv'
<1> DEFINE g  == Head(tasks)
           to == group[g].callback
<1>1. /\ dying = Null /\ ~wild /\ tasks # <<>>
      /\ UNCHANGED <<windows, current, pointer, closing, stale>>
      /\ IF group[g].alive /\ (to # Null => windows[to] = "record")
           THEN /\ Release(g, group[g], mCameras, Tail(tasks))
                /\ wild' = wild
           ELSE wild' = TRUE /\ UNCHANGED <<mCameras, group, tasks, dying>>
  BY DEF RunTask, UiFree, windowVars
<1>2. /\ TypeOK /\ CurrentLives /\ PreviewsHold /\ GroupsHeld /\ FramesReachTheLiving
      /\ wild = FALSE
  BY <1>1 DEF SessionInv, TypeOK
<1>3. /\ group \in [Groups -> Group] /\ tasks \in Seq(Groups) /\ Len(tasks) <= MaxTasks
      /\ mCameras \in [Addresses -> Groups \union {Null}]
  BY <1>2 DEF TypeOK
<1>4. /\ g \in Groups /\ g \in ToSet(tasks)
      /\ Tail(tasks) \in Seq(Groups) /\ Len(Tail(tasks)) <= MaxTasks
      /\ ToSet(Tail(tasks)) \subseteq ToSet(tasks)
  <2>1. /\ ToSet(tasks) \subseteq Groups /\ g \in ToSet(tasks)
        /\ Tail(tasks) \in Seq(Groups) /\ Len(Tail(tasks)) = Len(tasks) - 1
        /\ Len(tasks) \in Nat /\ ToSet(Tail(tasks)) \subseteq ToSet(tasks)
    BY <1>1, <1>3, TaskQueue
  <2> QED BY <2>1, <1>3, SessionAssumption
<1> HIDE DEF g
<1>5. to # Null => mCameras[to] = g /\ windows[to] = "record"
  BY <1>2, <1>4 DEF GroupsHeld
<1>6. WindowsTyped' /\ CurrentLives'
  <2>1. UNCHANGED <<windows, current, pointer, closing, stale>>  BY <1>1
  <2>2. WindowsTyped  BY <1>2 DEF WindowsTyped, TypeOK
  <2>3. WindowsTyped'  BY <2>1, <2>2 DEF WindowsTyped
  <2> QED BY <2>1, <2>3, <1>2 DEF CurrentLives
<1>7. CASE group[g].alive
  <2>1. Release(g, group[g], mCameras, Tail(tasks)) /\ wild' = FALSE
    BY <1>1, <1>2, <1>5, <1>7
  <2> DEFINE q == group[g]
  <2>2. /\ q \in Group /\ q.alive /\ q.posting = group[g].posting
        /\ q.pumping /\ ~q.orphan => \E a \in Addresses : mCameras[a] = g
        /\ q.callback # Null => mCameras[q.callback] = g /\ windows'[q.callback] = "record"
    BY <1>1, <1>2, <1>3, <1>4, <1>7 DEF GroupsHeld
  <2>3. \A b \in Addresses : mCameras[b] # Null => windows'[b] = windows[b]
    BY <1>1
  <2> HIDE DEF q
  <2> QED BY <1>1, <1>2, <1>3, <1>4, <1>6, <2>1, <2>2, <2>3, ReleaseInv DEF q
<1>8. CASE ~group[g].alive
  <2>1. wild' = TRUE /\ UNCHANGED <<mCameras, group, tasks, dying>>  BY <1>1, <1>8
  <2>2. TypeOK'  BY <1>1, <1>2, <2>1 DEF TypeOK
  <2>3. PreviewsHold' /\ GroupsHeld'
    BY <1>1, <1>2, <2>1 DEF PreviewsHold, GroupsHeld
  <2>4. group[g].orphan  BY <1>2, <1>4, <1>8 DEF FramesReachTheLiving
  <2>5. FramesReachTheLiving'
    BY <1>2, <2>1, <2>4 DEF FramesReachTheLiving, g
  <2> QED BY <1>6, <2>2, <2>3, <2>5 DEF SessionInv
<1> QED BY <1>7, <1>8

LEMMA FinishDestroyInv == ASSUME SessionInv, FinishDestroy PROVE SessionInv'
<1> DEFINE d == [Dead EXCEPT !.orphan = dying \in ToSet(tasks)]
<1>1. /\ dying # Null /\ ~wild /\ dying' = Null
      /\ group' = [group EXCEPT ![dying] = d]
      /\ UNCHANGED <<windows, current, pointer, closing, stale, mCameras, tasks, wild>>
  BY DEF FinishDestroy, windowVars
<1>2. /\ TypeOK /\ CurrentLives /\ PreviewsHold /\ GroupsHeld /\ FramesReachTheLiving
      /\ wild = FALSE
  BY <1>1 DEF SessionInv, TypeOK
<1>3. /\ group \in [Groups -> Group] /\ dying \in Groups
      /\ tasks \in Seq(Groups) /\ ToSet(tasks) \subseteq Groups
  BY <1>1, <1>2, TaskQueue DEF TypeOK
<1>4. /\ d \in Group /\ ~d.alive /\ ~d.pumping /\ ~d.posting /\ d.callback = Null
      /\ dying \in ToSet(tasks) => d.orphan
  <2> DEFINE o == dying \in ToSet(tasks)
  <2>1. o \in BOOLEAN  OBVIOUS
  <2>2. d = [Dead EXCEPT !.orphan = o]  OBVIOUS
  <2>3. dying \in ToSet(tasks) => o  OBVIOUS
  <2> HIDE DEF d, o
  <2>4. d \in Group  BY <2>1, <2>2, SessionFacts
  <2>5. ~d.alive /\ ~d.pumping /\ ~d.posting /\ d.callback = Null
    BY <2>2 DEF Dead
  <2>6. o => d.orphan  BY <2>2 DEF Dead
  <2> QED BY <2>3, <2>4, <2>5, <2>6
<1> HIDE DEF d
<1>5. /\ group'[dying] = d /\ \A h \in Groups \ {dying} : group'[h] = group[h]
      /\ group' \in [Groups -> Group]
  BY <1>1, <1>3, <1>4
<1>6. TypeOK'  BY <1>1, <1>2, <1>5 DEF TypeOK
<1>7. CurrentLives'  BY <1>1, <1>2 DEF CurrentLives
<1>8. PreviewsHold'
  <2>1. ASSUME NEW b \in Addresses, mCameras[b] # Null PROVE group'[mCameras[b]].alive
    <3>1. mCameras[b] \in Groups /\ mCameras[b] # dying /\ group[mCameras[b]].alive
      BY <1>2, <2>1 DEF TypeOK, PreviewsHold
    <3> QED BY <3>1, <1>5
  <2> QED BY <1>1, <1>2, <2>1 DEF PreviewsHold
<1>9. GroupsHeld'
  <2>1. ASSUME NEW h \in Groups
        PROVE  /\ group'[h].pumping /\ ~group'[h].orphan => \E a \in Addresses : mCameras[a] = h
               /\ group'[h].callback # Null =>
                    mCameras[group'[h].callback] = h /\ windows[group'[h].callback] = "record"
               /\ ~group'[h].alive => ~group'[h].pumping /\ ~group'[h].posting
    <3>1. CASE h = dying  BY <3>1, <1>4, <1>5
    <3>2. CASE h # dying  BY <3>2, <1>2, <1>5 DEF GroupsHeld
    <3> QED BY <3>1, <3>2
  <2> QED BY <1>1, <2>1 DEF GroupsHeld
<1>10. FramesReachTheLiving'
  <2>1. \A h \in ToSet(tasks) : group'[h].alive \/ group'[h].orphan
    BY <1>2, <1>3, <1>4, <1>5 DEF FramesReachTheLiving
  <2> QED BY <1>1, <1>2, <2>1 DEF FramesReachTheLiving
<1> QED BY <1>6, <1>7, <1>8, <1>9, <1>10 DEF SessionInv

LEMMA SessionNext == SessionInv /\ [Next]_vars => SessionInv'
<1> SUFFICES ASSUME SessionInv, [Next]_vars PROVE SessionInv'
  OBVIOUS
<1>1. CASE UNCHANGED vars
  <2>1. UNCHANGED <<windows, current, pointer, closing, stale, mCameras, group, tasks,
                    dying, wild>>
    BY <1>1 DEF vars, windowVars, groupVars
  <2> QED BY <2>1 DEF SessionInv, TypeOK, CurrentLives, PreviewsHold, GroupsHeld,
                      FramesReachTheLiving
<1>2. CASE Stopped  BY <1>1, <1>2 DEF Stopped
<1> QED BY <1>1, <1>2, ShowInv, PreviewStartInv, PreviewStopInv, DestroyWindowInv,
           PumpPostInv, PumpPostedInv, RunTaskInv, FinishDestroyInv DEF Next

THEOREM SessionTypeTheorem == Spec => []TypeOK
<1>1. SessionInv => TypeOK  BY DEF SessionInv
<1> QED BY <1>1, SessionInit, SessionNext, PTL DEF Spec

\* A frame set finds its group and its window alive, however many windows and
\* groups share the addresses, unless ~ManualWindow let the group go.
THEOREM FramesTheorem == Spec => []FramesReachTheLiving
<1>1. SessionInv => FramesReachTheLiving  BY DEF SessionInv
<1> QED BY <1>1, SessionInit, SessionNext, PTL DEF Spec

\* A pump that runs is explained by a window, or by ~ManualWindow.
THEOREM PumpsTheorem == Spec => []PumpsExplained
<1>1. SessionInv => PumpsExplained
  <2> SUFFICES ASSUME SessionInv PROVE PumpsExplained
    OBVIOUS
  <2>1. TypeOK /\ PreviewsHold /\ GroupsHeld  BY DEF SessionInv
  <2>2. ASSUME NEW g \in Groups, group[g].pumping, ~group[g].orphan
        PROVE  \E a \in closing \union {current} : mCameras[a] = g
    <3>1. PICK a \in Addresses : mCameras[a] = g  BY <2>1, <2>2 DEF GroupsHeld
    <3>2. windows[a] # Null  BY <2>1, <3>1, SessionFacts DEF PreviewsHold
    <3>3. a \in closing \union {current}  BY <2>1, <3>2 DEF TypeOK
    <3> QED BY <3>1, <3>3
  <2> QED BY <2>1, <2>2 DEF PreviewsHold, PumpsExplained, Previewing
<1> QED BY <1>1, SessionInit, SessionNext, PTL DEF Spec

\* The pointers of the main window are right, but for a reused address.
THEOREM PointersTheorem == Spec => []PointerNamesWindow
<1>1. SessionInv => PointerNamesWindow
  BY DEF SessionInv, CurrentLives, PointerNamesWindow
<1> QED BY <1>1, SessionInit, SessionNext, PTL DEF Spec
-----------------------------------------------------------------------------
(***************************************************************************)
(* When a group goes: it lives as long as it is referred to, and no longer.*)
(***************************************************************************)
\* Nothing leaks: a group lives while a window, a closure or the closure being
\* posted refers to it, or while the UI thread is in its destructor.
NoGroupLeaks ==
  ~wild => \A g \in Groups :
    group[g].alive => Held(g, mCameras, tasks) \/ dying = g

\* Only a pump that runs posts, and the destructor only waits for such a one;
\* what is posted while it waits stays, for the UI thread runs no closures.
PostersPump ==
  /\ \A g \in Groups : group[g].posting => group[g].pumping
  /\ dying # Null =>
       group[dying].pumping /\ (group[dying].posting => dying \in ToSet(tasks))

HoldInv == NoGroupLeaks /\ PostersPump

\* A reference to g is given up and the other groups keep theirs.
LEMMA ReleaseHolds ==
  ASSUME TypeOK, HoldInv, dying = Null, wild = FALSE, wild' = FALSE,
         NEW g \in Groups, NEW q \in Group, NEW cams, NEW queue,
         Release(g, q, cams, queue),
         q.posting = group[g].posting, q.posting => q.pumping,
         \A b \in Addresses : cams[b] = mCameras[b] \/ mCameras[b] = g,
         ToSet(tasks) \subseteq ToSet(queue) \union {g}
  PROVE  HoldInv'
<1>1. group \in [Groups -> Group]  BY DEF TypeOK
<1>2. mCameras' = cams /\ tasks' = queue /\ \A h \in Groups \ {g} : group'[h] = group[h]
  BY <1>1, ReleaseFacts
<1>3. \/ group'[g] = q /\ dying' = Null /\ Held(g, cams, queue)
      \/ group'[g] = q /\ dying' = g /\ q.pumping /\ ~Held(g, cams, queue)
      \/ group'[g] = Dead /\ dying' = Null
  BY <1>1 DEF Release
<1>4. NoGroupLeaks'
  <2> SUFFICES ASSUME NEW h \in Groups, group'[h].alive
               PROVE  Held(h, mCameras, tasks)' \/ dying' = h
    BY DEF NoGroupLeaks
  <2>1. CASE h = g
    <3>1. CASE group'[g] = q /\ Held(g, cams, queue)
      <4>1. group'[g].posting = group[g].posting  BY <3>1
      <4> QED BY <2>1, <3>1, <4>1, <1>2 DEF Held
    <3> QED BY <2>1, <3>1, <1>3, SessionFacts
  <2>2. CASE h # g
    <3>1. group'[h] = group[h]  BY <1>2, <2>2
    <3>2. Held(h, mCameras, tasks)  BY <3>1, SessionFacts DEF HoldInv, NoGroupLeaks
    <3>3. \A b \in Addresses : mCameras[b] = h => cams[b] = h  BY <2>2
    <3>4. h \in ToSet(tasks) => h \in ToSet(queue)  BY <2>2
    <3> QED BY <3>1, <3>2, <3>3, <3>4, <1>2 DEF Held
  <2> QED BY <2>1, <2>2
<1>5. PostersPump'
  <2>1. ASSUME NEW h \in Groups, group'[h].posting PROVE group'[h].pumping
    BY <2>1, <1>2, <1>3, SessionFacts DEF HoldInv, PostersPump
  <2>2. dying' # Null => group'[dying'].pumping /\ ~group'[dying'].posting
    BY <1>3 DEF Held
  <2> QED BY <2>1, <2>2 DEF PostersPump
<1> QED BY <1>4, <1>5 DEF HoldInv

\* What a window makes of the group it gives up, stopped or forgotten.
LEMMA GivenUp ==
  ASSUME SessionInv, PostersPump, NEW a \in Addresses, Previewing(a)
  PROVE  /\ mCameras[a] \in Groups /\ mCameras[a] # Null
         /\ Stop(a) \in Group /\ ~Stop(a).pumping
         /\ Stop(a).posting = group[mCameras[a]].posting
         /\ Orphaned(a) \in Group
         /\ Orphaned(a).posting = group[mCameras[a]].posting
         /\ Orphaned(a).posting => Orphaned(a).pumping
         /\ \A b \in Addresses : Without(a)[b] = mCameras[b] \/ mCameras[b] = mCameras[a]
         /\ \A b \in Addresses : Without(a)[b] = mCameras[b] \/ Without(a)[b] = Null
<1>1. mCameras \in [Addresses -> Groups \union {Null}] /\ group \in [Groups -> Group]
  BY DEF SessionInv, TypeOK
<1>2. mCameras[a] \in Groups /\ mCameras[a] # Null  BY <1>1 DEF Previewing
<1> DEFINE p == group[mCameras[a]]
<1>3. p \in Group /\ (p.posting => p.pumping)  BY <1>1, <1>2 DEF PostersPump
<1>4. /\ Stop(a) = [p EXCEPT !.pumping = FALSE, !.callback = Null]
      /\ Orphaned(a) = [p EXCEPT !.orphan = p.pumping]
  BY DEF Stop, Orphaned
<1> HIDE DEF p
<1>5. /\ Stop(a) \in Group /\ ~Stop(a).pumping /\ Stop(a).posting = p.posting
      /\ Orphaned(a) \in Group /\ Orphaned(a).posting = p.posting
      /\ Orphaned(a).posting => Orphaned(a).pumping
  BY <1>3, <1>4 DEF Group
<1>6. Without(a) = [mCameras EXCEPT ![a] = Null]  BY DEF Without
<1> QED BY <1>1, <1>2, <1>5, <1>6 DEF p

LEMMA LetGoHolds ==
  ASSUME SessionInv, HoldInv, UiFree, wild' = FALSE, NEW a \in Addresses, Previewing(a),
         LetGo(a) \/ Release(mCameras[a], Orphaned(a), Without(a), tasks)
  PROVE  HoldInv'
<1>1. TypeOK /\ dying = Null /\ wild = FALSE  BY DEF SessionInv, UiFree, TypeOK
<1> DEFINE g == mCameras[a]
           c == Without(a)
<1>2. PICK q \in Group :
        Release(g, q, c, tasks) /\ q.posting = group[g].posting /\ (q.posting => q.pumping)
  <2>1. CASE LetGo(a)
    <3>1. Release(g, Stop(a), c, tasks) /\ ~group[g].posting  BY <2>1 DEF LetGo
    <3>2. Stop(a) \in Group /\ Stop(a).posting = group[g].posting
      BY GivenUp DEF HoldInv
    <3> HIDE DEF g, c
    <3> QED BY <3>1, <3>2
  <2>2. CASE Release(g, Orphaned(a), c, tasks)
    <3>1. /\ Orphaned(a) \in Group /\ Orphaned(a).posting = group[g].posting
          /\ Orphaned(a).posting => Orphaned(a).pumping
      BY GivenUp DEF HoldInv
    <3> HIDE DEF g, c
    <3> QED BY <2>2, <3>1
  <2> QED BY <2>1, <2>2
<1>3. g \in Groups /\ \A b \in Addresses : c[b] = mCameras[b] \/ mCameras[b] = g
  BY GivenUp DEF HoldInv
<1> HIDE DEF g, c
<1> QED BY <1>1, <1>2, <1>3, ReleaseHolds

LEMMA HoldNext == SessionInv /\ HoldInv /\ [Next]_vars => HoldInv'
<1> SUFFICES ASSUME SessionInv, HoldInv, [Next]_vars PROVE HoldInv'
  OBVIOUS
<1>1. /\ group \in [Groups -> Group] /\ mCameras \in [Addresses -> Groups \union {Null}]
      /\ tasks \in Seq(Groups) /\ dying \in Groups \union {Null} /\ wild \in BOOLEAN
      /\ current \in Addresses /\ TypeOK
      /\ closing \subseteq Addresses
  BY DEF SessionInv, TypeOK
<1>2. CASE UNCHANGED groupVars /\ (wild' = wild \/ wild')
  <2>1. UNCHANGED <<mCameras, group, tasks, dying>>  BY <1>2 DEF groupVars
  <2>2. PostersPump'  BY <2>1 DEF HoldInv, PostersPump
  <2>3. NoGroupLeaks'  BY <1>2, <2>1 DEF HoldInv, NoGroupLeaks, Held
  <2> QED BY <2>2, <2>3 DEF HoldInv
<1>3. CASE UNCHANGED vars \/ Stopped
  BY <1>2, <1>3 DEF Stopped, vars, groupVars
<1>4. CASE \E k \in Kinds : Show(k)
  BY <1>2, <1>4 DEF Show
<1>5. CASE PreviewStart
  <2> DEFINE n == NextGroup
  <2>1. /\ mCameras[current] = Null /\ Fresh # {} /\ ~wild /\ dying = Null
        /\ mCameras' = [mCameras EXCEPT ![current] = n]
        /\ UNCHANGED <<tasks, dying, wild>>
    BY <1>5 DEF PreviewStart, UiFree, Previewing
  <2>2. PICK p \in Group : group' = [group EXCEPT ![n] = p] /\ ~p.posting
    <3>1. PICK r \in BOOLEAN : group' = [group EXCEPT ![n] =
            [Dead EXCEPT !.alive = TRUE, !.pumping = r,
                         !.callback = IF windows[current] = "record" THEN current ELSE Null]]
      BY <1>5 DEF PreviewStart
    <3>2. [Dead EXCEPT !.alive = TRUE, !.pumping = r,
                       !.callback = IF windows[current] = "record" THEN current ELSE Null]
            \in [alive : BOOLEAN, pumping : BOOLEAN, posting : {FALSE},
                 callback : Addresses \union {Null}, orphan : BOOLEAN]
      BY <1>1 DEF Dead
    <3> QED BY <3>1, <3>2 DEF Group
  <2>3. n \in Groups
    <3>1. n \in Fresh  BY <2>1 DEF NextGroup
    <3> QED BY <3>1 DEF Fresh
  <2> HIDE DEF n
  <2>4. group'[n] = p /\ \A h \in Groups \ {n} : group'[h] = group[h]
    BY <1>1, <2>2, <2>3
  <2>5. mCameras'[current] = n /\ \A b \in Addresses : mCameras[b] # Null => mCameras'[b] = mCameras[b]
    BY <1>1, <2>1
  <2>6. NoGroupLeaks'
    <3> SUFFICES ASSUME NEW h \in Groups, group'[h].alive PROVE Held(h, mCameras, tasks)'
      BY DEF NoGroupLeaks
    <3>1. CASE h = n  BY <3>1, <1>1, <2>5 DEF Held
    <3>2. CASE h # n
      <4>1. group'[h] = group[h] /\ h # Null  BY <2>4, <3>2, SessionFacts
      <4>2. Held(h, mCameras, tasks)  BY <4>1, <2>1 DEF HoldInv, NoGroupLeaks
      <4> QED BY <4>1, <4>2, <2>1, <2>5 DEF Held
    <3> QED BY <3>1, <3>2
  <2>7. PostersPump'  BY <2>1, <2>2, <2>4 DEF HoldInv, PostersPump
  <2> QED BY <2>6, <2>7 DEF HoldInv
<1>6. CASE PreviewStop
  <2>1. UiFree /\ Previewing(current) /\ LetGo(current) /\ wild' = FALSE
    BY <1>6 DEF PreviewStop, UiFree
  <2> QED BY <1>1, <2>1, LetGoHolds
<1>7. CASE \E a \in Addresses : DestroyWindow(a)
  <2> PICK a \in Addresses : DestroyWindow(a)
    BY <1>7
  <2>1. UiFree /\ wild' = wild /\ wild' = FALSE
    BY <1>1 DEF DestroyWindow, UiFree
  <2>2. CASE Previewing(a)
    <3>1. LetGo(a) \/ Release(mCameras[a], Orphaned(a), Without(a), tasks)
      BY <2>2 DEF DestroyWindow
    <3> QED BY <2>1, <2>2, <3>1, LetGoHolds
  <2>3. CASE ~Previewing(a)
    BY <2>1, <2>3, <1>2 DEF DestroyWindow
  <2> QED BY <2>2, <2>3
<1>8. CASE \E g \in Groups : PumpPost(g)
  <2> PICK g \in Groups : PumpPost(g)
    BY <1>8
  <2>1. /\ ~wild /\ group[g].pumping
        /\ tasks' = Append(tasks, g)
        /\ group' = [group EXCEPT ![g].posting = TRUE]
        /\ UNCHANGED <<mCameras, dying, wild>>
    BY DEF PumpPost
  <2>2. /\ \A h \in Groups \ {g} : group'[h] = group[h]
        /\ group'[g].posting /\ group'[g].pumping
    BY <1>1, <2>1 DEF Group
  <2>3. ToSet(tasks') = ToSet(tasks) \union {g}  BY <1>1, <2>1, TaskQueue
  <2>4. NoGroupLeaks'
    BY <2>1, <2>2, <2>3 DEF HoldInv, NoGroupLeaks, Held
  <2>5. PostersPump'
    <3>1. \A h \in Groups : group'[h].posting => group'[h].pumping
      BY <2>2 DEF HoldInv, PostersPump
    <3>2. ASSUME dying # Null
          PROVE  group'[dying].pumping /\ (group'[dying].posting => dying \in ToSet(tasks'))
      BY <3>2, <1>1, <2>2, <2>3 DEF HoldInv, PostersPump
    <3> QED BY <3>1, <3>2, <2>1 DEF PostersPump
  <2> QED BY <2>4, <2>5 DEF HoldInv
<1>9. CASE \E g \in Groups : PumpPosted(g)
  <2> PICK g \in Groups : PumpPosted(g)
    BY <1>9
  <2> DEFINE p == [group[g] EXCEPT !.posting = FALSE]
  <2>1. /\ ~wild
        /\ \/ /\ group' = [group EXCEPT ![g] = p]
              /\ (\E a \in Addresses : mCameras[a] = g) \/ g \in ToSet(tasks)
           \/ group' = [group EXCEPT ![g] = Dead]
        /\ UNCHANGED <<mCameras, tasks, dying, wild>>
    BY DEF PumpPosted
  <2>2. p \in Group /\ p.pumping = group[g].pumping /\ ~p.posting
    BY <1>1 DEF Group
  <2> HIDE DEF p
  <2>3. /\ \A h \in Groups \ {g} : group'[h] = group[h]
        /\ \/ group'[g] = p /\ ((\E a \in Addresses : mCameras[a] = g) \/ g \in ToSet(tasks))
           \/ group'[g] = Dead
    BY <1>1, <2>1, <2>2
  <2>4. NoGroupLeaks'
    <3> SUFFICES ASSUME NEW h \in Groups, group'[h].alive
                 PROVE  Held(h, mCameras, tasks)' \/ dying = h
      BY <2>1 DEF NoGroupLeaks
    <3>1. CASE h = g  BY <3>1, <2>1, <2>3, SessionFacts DEF Held
    <3>2. CASE h # g  BY <3>2, <2>1, <2>3 DEF HoldInv, NoGroupLeaks, Held
    <3> QED BY <3>1, <3>2
  <2>5. PostersPump'
    <3>1. \A h \in Groups : group'[h].posting => group'[h].pumping
      BY <2>2, <2>3, SessionFacts DEF HoldInv, PostersPump
    <3>2. ASSUME dying # Null
          PROVE  group'[dying].pumping /\ (group'[dying].posting => dying \in ToSet(tasks))
      <4>1. CASE dying # g  BY <3>2, <4>1, <1>1, <2>3 DEF HoldInv, PostersPump
      <4>2. CASE dying = g
        \* what it posts keeps it: the destructor cannot run on its own thread
        <5>1. g \in ToSet(tasks)
          BY <3>2, <4>2 DEF PumpPosted, HoldInv, PostersPump
        <5>2. group' = [group EXCEPT ![g] = p]  BY <5>1 DEF PumpPosted, p
        <5> QED BY <3>2, <4>2, <5>1, <5>2, <1>1, <2>2 DEF HoldInv, PostersPump
      <4> QED BY <4>1, <4>2
    <3> QED BY <3>1, <3>2, <2>1 DEF PostersPump
  <2> QED BY <2>4, <2>5 DEF HoldInv
<1>10. CASE RunTask
  <2> DEFINE g == Head(tasks)
             u == Tail(tasks)
  <2>1. UiFree /\ dying = Null /\ wild = FALSE /\ tasks # <<>>
    BY <1>1, <1>10 DEF RunTask, UiFree
  <2>2. CASE wild'
    BY <2>2, <1>2, <1>10, <2>1 DEF RunTask, Release, groupVars
  <2>3. CASE wild' = FALSE
    <3>1. Release(g, group[g], mCameras, u)  BY <1>10, <2>3 DEF RunTask
    <3>2. g \in Groups /\ ToSet(tasks) \subseteq ToSet(u) \union {g}
      BY <1>1, <2>1, TaskQueue
    <3> HIDE DEF g, u
    <3>3. group[g] \in Group /\ (group[g].posting => group[g].pumping)
      BY <1>1, <3>2 DEF HoldInv, PostersPump
    <3> QED BY <1>1, <2>1, <2>3, <3>1, <3>2, <3>3, ReleaseHolds
  <2> QED BY <1>10, <2>1, <2>2, <2>3 DEF RunTask
<1>11. CASE FinishDestroy
  <2> DEFINE d == [Dead EXCEPT !.orphan = dying \in ToSet(tasks)]
  <2>1. /\ dying \in Groups /\ ~wild /\ dying' = Null
        /\ group' = [group EXCEPT ![dying] = d]
        /\ UNCHANGED <<mCameras, tasks, wild>>
    BY <1>1, <1>11 DEF FinishDestroy
  <2>2. ~d.alive /\ ~d.posting
    <3> DEFINE o == dying \in ToSet(tasks)
    <3>1. d = [Dead EXCEPT !.orphan = o]  OBVIOUS
    <3> HIDE DEF d, o
    <3> QED BY <3>1 DEF Dead
  <2> HIDE DEF d
  <2>3. group'[dying] = d /\ \A h \in Groups \ {dying} : group'[h] = group[h]
    BY <1>1, <2>1
  <2>4. NoGroupLeaks'
    BY <2>1, <2>2, <2>3 DEF HoldInv, NoGroupLeaks, Held
  <2>5. PostersPump'
    BY <2>1, <2>2, <2>3 DEF HoldInv, PostersPump
  <2> QED BY <2>4, <2>5 DEF HoldInv
<1> QED BY <1>3, <1>4, <1>5, <1>6, <1>7, <1>8, <1>9, <1>10, <1>11 DEF Next

LEMMA HoldInit == Init => HoldInv
<1> SUFFICES ASSUME Init PROVE HoldInv
  OBVIOUS
<1>1. dying = Null /\ \A g \in Groups : group[g] = Dead
  BY DEF Init
<1> QED BY <1>1, SessionFacts DEF HoldInv, NoGroupLeaks, PostersPump

\* No group outlives the last reference to it: the memory of every preview is
\* given back, also when ~ManualWindow lost it, as long as nothing was freed
\* too early.
THEOREM LeaksTheorem == Spec => []NoGroupLeaks
<1>1. HoldInv => NoGroupLeaks  BY DEF HoldInv
<1> QED BY <1>1, SessionInit, SessionNext, HoldInit, HoldNext, PTL DEF Spec

\* The tasks up to the last closure of g: their number is a natural one, what
\* others post does not add to it, and running the first one is progress.
LEMMA UpToLastFacts ==
  ASSUME NEW q \in Seq(Groups), NEW g \in Groups
  PROVE  /\ IsFiniteSet(UpToLast(q, g)) /\ Cardinality(UpToLast(q, g)) \in Nat
         /\ \A h \in Groups \ {g} : UpToLast(Append(q, h), g) = UpToLast(q, g)
         /\ q # <<>> /\ g \in ToSet(q) =>
              Cardinality(UpToLast(Tail(q), g)) < Cardinality(UpToLast(q, g))
<1>1. DOMAIN q = 1..Len(q) /\ Len(q) \in Nat  OBVIOUS
<1>2. IsFiniteSet(UpToLast(q, g)) /\ Cardinality(UpToLast(q, g)) \in Nat
  <2>1. IsFiniteSet(DOMAIN q)  BY <1>1, FS_Interval
  <2>2. UpToLast(q, g) \subseteq DOMAIN q  BY DEF UpToLast
  <2>3. IsFiniteSet(UpToLast(q, g))  BY <2>1, <2>2, FS_Subset
  <2> QED BY <2>3, FS_CardinalityType
<1>3. ASSUME NEW h \in Groups \ {g}
      PROVE  UpToLast(Append(q, h), g) = UpToLast(q, g)
  <2> DEFINE r == Append(q, h)
  <2>1. /\ r \in Seq(Groups) /\ Len(r) = Len(q) + 1 /\ r[Len(q) + 1] = h
        /\ \A i \in 1..Len(q) : r[i] = q[i]
    BY AppendProperties
  <2>2. DOMAIN r = 1..(Len(q) + 1)  BY <2>1
  <2> HIDE DEF r
  <2>3. ASSUME NEW j \in DOMAIN r, NEW i \in DOMAIN r, j <= i, r[i] = g
        PROVE  j \in DOMAIN q /\ i \in DOMAIN q /\ q[i] = g
    <3>1. i # Len(q) + 1  BY <2>1, <2>3
    <3>2. i \in 1..Len(q) /\ j \in 1..Len(q)  BY <3>1, <2>2, <2>3, <1>1
    <3> QED BY <3>2, <2>1, <2>3, <1>1
  <2>4. \A i \in DOMAIN q : i \in DOMAIN r /\ r[i] = q[i]  BY <1>1, <2>1, <2>2
  <2> QED BY <2>3, <2>4 DEF UpToLast, r
<1>4. ASSUME q # <<>>, g \in ToSet(q)
      PROVE  Cardinality(UpToLast(Tail(q), g)) < Cardinality(UpToLast(q, g))
  <2> DEFINE u == Tail(q)
             U == UpToLast(u, g)
             Q == UpToLast(q, g)
  <2>1. /\ u \in Seq(Groups) /\ Len(u) = Len(q) - 1 /\ Len(q) \in Nat \ {0}
        /\ \A i \in 1..Len(u) : u[i] = q[i + 1]
    BY <1>4
  <2>2. DOMAIN u = 1..Len(u) /\ Len(u) \in Nat  BY <2>1
  <2> HIDE DEF u
  <2>3. \A i \in DOMAIN u : i + 1 \in DOMAIN q /\ u[i] = q[i + 1] /\ i + 1 # 1
    BY <1>1, <2>1, <2>2
  <2>4. \A j \in U : j + 1 \in Q \ {1}
    <3> SUFFICES ASSUME NEW j \in U PROVE j + 1 \in Q \ {1}
      OBVIOUS
    <3>1. PICK i \in DOMAIN u : j \in DOMAIN u /\ j <= i /\ u[i] = g  BY DEF UpToLast
    <3>2. j + 1 <= i + 1  BY <3>1, <2>2
    <3> QED BY <3>1, <3>2, <2>3 DEF UpToLast
  <2>5. 1 \in Q
    <3>1. PICK i \in DOMAIN q : q[i] = g  BY <1>4 DEF ToSet
    <3>2. 1 \in DOMAIN q /\ 1 <= i  BY <3>1, <1>1
    <3> QED BY <3>1, <3>2 DEF UpToLast
  <2>6. U \subseteq Nat  BY <2>2 DEF UpToLast
  <2> HIDE DEF U, Q
  <2>7. IsFiniteSet(Q \ {1}) /\ Cardinality(Q \ {1}) = Cardinality(Q) - 1
    BY <1>2, <2>5, FS_RemoveElement DEF Q
  <2> DEFINE f == [j \in U |-> j + 1]
  <2>8. f \in Injection(U, Q \ {1})
    <3>1. f \in [U -> Q \ {1}]  BY <2>4
    <3>2. \A a, b \in U : f[a] = f[b] => a = b  BY <2>6
    <3> QED BY <3>1, <3>2, Fun_IsInj
  <2> HIDE DEF f
  <2>9. IsFiniteSet(U) /\ Cardinality(U) <= Cardinality(Q \ {1})
    BY <2>7, <2>8, FS_Injection
  <2>10. Cardinality(U) \in Nat /\ Cardinality(Q) \in Nat
    BY <2>9, <1>2, FS_CardinalityType DEF Q
  <2> QED BY <2>7, <2>9, <2>10 DEF U, Q, u
<1> QED BY <1>2, <1>3, <1>4

\* Of a group that was stopped and let go only closures are left.
LEMMA StoppedGroup ==
  ASSUME SessionInv, HoldInv, NEW g \in Groups, LetGoStopped(g)
  PROVE  /\ g # Null /\ dying # g /\ ~group[g].posting
         /\ wild \/ g \in ToSet(tasks)
<1>1. g # Null /\ dying # g /\ ~group[g].posting
  BY SessionFacts DEF LetGoStopped, HoldInv, PostersPump
<1>2. wild \/ g \in ToSet(tasks)
  BY <1>1 DEF LetGoStopped, HoldInv, NoGroupLeaks, Held
<1> QED BY <1>1, <1>2

\* A window gives up another group.
LEMMA DrainsBesideLetGo ==
  ASSUME SessionInv, HoldInv, UiFree, NEW g \in Groups, LetGoStopped(g),
         NEW a \in Addresses, Previewing(a),
         LetGo(a) \/ Release(mCameras[a], Orphaned(a), Without(a), tasks)
  PROVE  LetGoStopped(g)' /\ tasks' = tasks
<1>1. group \in [Groups -> Group] /\ dying = Null  BY DEF SessionInv, TypeOK, UiFree
<1> DEFINE h == mCameras[a]
           c == Without(a)
<1>2. PICK q \in Group : Release(h, q, c, tasks)
  <2>1. Stop(a) \in Group /\ Orphaned(a) \in Group  BY GivenUp DEF HoldInv
  <2> QED BY <2>1 DEF LetGo
<1>3. /\ h \in Groups /\ h # g
      /\ \A b \in Addresses : c[b] = mCameras[b] \/ c[b] = Null
  BY GivenUp DEF HoldInv, LetGoStopped
<1> HIDE DEF h, c
<1>4. mCameras' = c /\ tasks' = tasks /\ group'[g] = group[g]
  BY <1>1, <1>2, <1>3, ReleaseFacts
<1> QED BY <1>3, <1>4, SessionFacts DEF LetGoStopped

\* The UI loop runs the first closure.
LEMMA DrainsByRunning ==
  ASSUME SessionInv, HoldInv, NEW g \in Groups, LetGoStopped(g), RunTask, ~wild'
  PROVE  /\ ~group'[g].alive \/ LetGoStopped(g)'
         /\ Ahead(g)' < Ahead(g)
<1>1. /\ group \in [Groups -> Group] /\ tasks \in Seq(Groups) /\ dying = Null
      /\ ~wild /\ tasks # <<>>
  BY DEF SessionInv, TypeOK, RunTask, UiFree
<1> DEFINE h == Head(tasks)
           u == Tail(tasks)
<1>2. Release(h, group[h], mCameras, u)  BY DEF RunTask
<1>3. h \in Groups  BY <1>1, TaskQueue
<1>4. Cardinality(UpToLast(u, g)) < Cardinality(UpToLast(tasks, g))
  BY <1>1, StoppedGroup, UpToLastFacts
<1> HIDE DEF h, u
<1>5. /\ mCameras' = mCameras /\ tasks' = u
      /\ group'[g] = group[g] \/ group'[g] = Dead
  <2>1. group[h] \in Group  BY <1>1, <1>3
  <2> QED BY <1>1, <1>2, <1>3, <2>1, ReleaseFacts
<1>6. ~group'[g].alive \/ LetGoStopped(g)'  BY <1>5, SessionFacts DEF LetGoStopped
<1> QED BY <1>4, <1>5, <1>6 DEF Ahead

\* All the others leave it alone.
LEMMA DrainsMeanwhile ==
  ASSUME SessionInv, HoldInv, NEW g \in Groups, LetGoStopped(g), [Next]_vars,
         ~(RunTask /\ ~wild')
  PROVE  LetGoStopped(g)' /\ Ahead(g)' <= Ahead(g)
<1>1. /\ group \in [Groups -> Group] /\ mCameras \in [Addresses -> Groups \union {Null}]
      /\ tasks \in Seq(Groups) /\ dying \in Groups \union {Null} /\ current \in Addresses
      /\ closing \subseteq Addresses /\ g # Null
  BY SessionFacts DEF SessionInv, TypeOK
<1>2. Ahead(g) \in Nat  BY <1>1, UpToLastFacts DEF Ahead
<1> SUFFICES LetGoStopped(g)' /\ UpToLast(tasks', g) = UpToLast(tasks, g)
  BY <1>2 DEF Ahead
<1>3. CASE UNCHANGED groupVars
  BY <1>3 DEF groupVars, LetGoStopped
<1>4. CASE UNCHANGED vars \/ Stopped \/ \E k \in Kinds : Show(k)
  BY <1>3, <1>4 DEF Stopped, Show, vars
<1>5. CASE PreviewStart
  <2> DEFINE n == NextGroup
  <2>1. /\ Fresh # {}
        /\ mCameras' = [mCameras EXCEPT ![current] = n]
        /\ tasks' = tasks
    BY <1>5 DEF PreviewStart
  <2>2. n \in Fresh  BY <2>1 DEF NextGroup
  <2>3. n # g  BY <2>2 DEF Fresh, LetGoStopped
  <2>4. group'[g] = group[g]
    <3>1. \E p : group' = [group EXCEPT ![n] = p]  BY <1>5 DEF PreviewStart
    <3> HIDE DEF n
    <3> QED BY <3>1, <2>3, <1>1
  <2> HIDE DEF n
  <2> QED BY <1>1, <2>1, <2>3, <2>4 DEF LetGoStopped
<1>6. CASE PreviewStop
  <2>1. UiFree /\ Previewing(current) /\ LetGo(current)  BY <1>6 DEF PreviewStop
  <2> QED BY <1>1, <2>1, DrainsBesideLetGo
<1>7. CASE \E a \in Addresses : DestroyWindow(a)
  <2> PICK a \in Addresses : DestroyWindow(a)
    BY <1>7
  <2>1. UiFree  BY DEF DestroyWindow
  <2>2. CASE Previewing(a)
    <3>1. LetGo(a) \/ Release(mCameras[a], Orphaned(a), Without(a), tasks)
      BY <2>2 DEF DestroyWindow
    <3> QED BY <2>1, <2>2, <3>1, DrainsBesideLetGo
  <2>3. CASE ~Previewing(a)
    BY <2>3, <1>3 DEF DestroyWindow
  <2> QED BY <2>2, <2>3
<1>8. CASE \E h \in Groups : PumpPost(h)
  <2> PICK h \in Groups : PumpPost(h)
    BY <1>8
  <2>1. /\ h # g /\ tasks' = Append(tasks, h) /\ mCameras' = mCameras
        /\ group' = [group EXCEPT ![h].posting = TRUE]
    BY DEF PumpPost, LetGoStopped
  <2>2. group'[g] = group[g]  BY <1>1, <2>1
  <2>3. UpToLast(tasks', g) = UpToLast(tasks, g)  BY <1>1, <2>1, UpToLastFacts
  <2> QED BY <2>1, <2>2, <2>3 DEF LetGoStopped
<1>9. CASE \E h \in Groups : PumpPosted(h)
  <2> PICK h \in Groups : PumpPosted(h)
    BY <1>9
  <2>1. h # g  BY StoppedGroup DEF PumpPosted
  <2>2. /\ mCameras' = mCameras /\ tasks' = tasks
        /\ \E p : group' = [group EXCEPT ![h] = p]
    BY DEF PumpPosted
  <2>3. group'[g] = group[g]  BY <1>1, <2>1, <2>2
  <2> QED BY <2>2, <2>3 DEF LetGoStopped
<1>10. CASE RunTask
  <2>1. wild'  BY <1>10
  <2>2. UNCHANGED groupVars  BY <1>10, <2>1 DEF RunTask, UiFree, groupVars
  <2> QED BY <2>2, <1>3
<1>11. CASE FinishDestroy
  <2>1. /\ mCameras' = mCameras /\ tasks' = tasks
        /\ \E p : group' = [group EXCEPT ![dying] = p]
    BY <1>11 DEF FinishDestroy
  <2>2. group'[g] = group[g]  BY <1>1, <2>1, StoppedGroup
  <2> QED BY <2>1, <2>2 DEF LetGoStopped
<1> QED BY <1>4, <1>5, <1>6, <1>7, <1>8, <1>9, <1>10, <1>11 DEF Next

\* What is left to do for a group that was stopped only shrinks, whatever the
\* windows and the other groups do: with a UI loop that runs, it is freed.
THEOREM GroupDrainsTheorem == Spec => StoppedGroupDrains
<1> DEFINE Drains(g) ==
             LetGoStopped(g) =>
               \/ ~group'[g].alive
               \/ /\ LetGoStopped(g)'
                  /\ Ahead(g)' <= Ahead(g)
                  /\ RunTask /\ ~wild' => Ahead(g)' < Ahead(g)
<1>1. SessionInv /\ SessionInv' /\ HoldInv /\ [Next]_vars => \A g \in Groups : Drains(g)
  <2> SUFFICES ASSUME SessionInv, SessionInv', HoldInv, [Next]_vars,
                      NEW g \in Groups, LetGoStopped(g)
               PROVE  \/ ~group'[g].alive
                      \/ /\ LetGoStopped(g)'
                         /\ Ahead(g)' <= Ahead(g)
                         /\ RunTask /\ ~wild' => Ahead(g)' < Ahead(g)
    OBVIOUS
  <2>1. tasks \in Seq(Groups) /\ tasks' \in Seq(Groups)  BY DEF SessionInv, TypeOK
  <2>2. Ahead(g) \in Nat /\ Ahead(g)' \in Nat
    <3>1. \A q \in Seq(Groups) : Cardinality(UpToLast(q, g)) \in Nat
      BY UpToLastFacts
    <3> QED BY <2>1, <3>1 DEF Ahead
  <2>3. CASE RunTask /\ ~wild'
    <3>1. (~group'[g].alive \/ LetGoStopped(g)') /\ Ahead(g)' < Ahead(g)
      BY <2>3, DrainsByRunning
    <3>2. Ahead(g)' <= Ahead(g)  BY <2>2, <3>1
    <3> QED BY <3>1, <3>2
  <2>4. CASE ~(RunTask /\ ~wild')
    <3>1. LetGoStopped(g)' /\ Ahead(g)' <= Ahead(g)  BY <2>4, DrainsMeanwhile
    <3> QED BY <2>4, <3>1
  <2> QED BY <2>3, <2>4
<1>2. SessionInv /\ SessionInv' /\ HoldInv /\ [Next]_vars => [\A g \in Groups : Drains(g)]_vars
  BY <1>1
<1> HIDE DEF Drains
<1>3. Spec => [][\A g \in Groups : Drains(g)]_vars
  BY <1>2, SessionInit, SessionNext, HoldInit, HoldNext, PTL DEF Spec
<1> QED BY <1>3 DEF StoppedGroupDrains, Drains
=============================================================================
