---------------------------- MODULE TrackingPoints --------------------------
(***************************************************************************)
(* TrackingPointList (tracking_point.cc): an ordered list of named points, *)
(* a map that finds them by name, and connections between names.  No       *)
(* window of the program uses it yet; its callers are its public methods.  *)
(*                                                                         *)
(* points[i + 1] is position i of point_list_, connections are pairs.      *)
(***************************************************************************)
EXTENDS Integers, Sequences, SequencesExt, Functions

CONSTANT PointNames

VARIABLES
  points,       \* point_list_, as names
  point_map,    \* the names in point_map_
  connections,  \* connections_
  kept,         \* auxiliary: names whose map entry Delete(name) has missed
  torn,         \* auxiliary: names whose map entry it erased instead
  dead          \* the erased node could not be read

pointVars == <<points, point_map, connections, kept, torn, dead>>

PointsTypeOK ==
  /\ points \in Seq(PointNames)
  /\ point_map \subseteq PointNames
  /\ connections \subseteq PointNames \X PointNames
  /\ kept \subseteq PointNames /\ torn \subseteq PointNames
  /\ dead \in BOOLEAN

PointsInit ==
  /\ points = <<>>
  /\ point_map = {}
  /\ connections = {}
  /\ kept = {} /\ torn = {}
  /\ dead = FALSE

-----------------------------------------------------------------------------
\* Insert at the end or before position i: refused for a name the map knows.
InsertPoint ==
  /\ \E n \in PointNames \ point_map :
       /\ point_map' = point_map \union {n}
       /\ \/ points' = Append(points, n)
          \/ \E i \in DOMAIN points : points' = InsertAt(points, i, n)
  /\ UNCHANGED <<connections, kept, torn, dead>>

\* Mutant: only the first end of a connection is looked at.
UnlinkedFirst(n) == {c \in connections : c[1] # n}

\* DeleteConnections: all that name n.
Unlinked(n) == {c \in connections : n \notin {c[1], c[2]}}

\* Delete(index): the point is held while its map entry is erased.
DeleteIndex ==
  /\ \E i \in DOMAIN points :
       /\ points' = RemoveAt(points, i)
       /\ point_map' = point_map \ {points[i]}
       /\ connections' = Unlinked(points[i])
  /\ UNCHANGED <<kept, torn, dead>>

\* Delete(name): the first point of that name; the name is read once more
\* through the iterator that was just erased.  The freed node still holds it,
\* or a name the map does not know, or that of another point, which then loses
\* its map entry, or it cannot be read at all.
DeleteName ==
  \E i \in DOMAIN points :
    /\ \A j \in 1..(i - 1) : points[j] # points[i]
    /\ points' = RemoveAt(points, i)
    /\ \/ /\ point_map' = point_map \ {points[i]}
          /\ connections' = Unlinked(points[i])
          /\ UNCHANGED <<kept, torn, dead>>
       \/ /\ connections' = Unlinked(points[i])
          /\ kept' = kept \union {points[i]}
          /\ UNCHANGED <<point_map, torn, dead>>
       \/ \E n \in point_map \ {points[i]} :
            /\ point_map' = point_map \ {n}
            /\ connections' = Unlinked(points[i])
            /\ kept' = kept \union {points[i]}
            /\ torn' = torn \union {n}
            /\ UNCHANGED dead
       \/ /\ dead' = TRUE
          /\ UNCHANGED <<point_map, connections, kept, torn>>

\* Move: Delete and Insert again, so the connections are gone.  A target to
\* the right is counted down before the point is taken out.  The map knows the
\* name afterwards, if it did before or not.
MoveTarget(from, to) == IF from < to THEN to - 1 ELSE to

Move ==
  /\ \E from, to \in DOMAIN points :
       /\ from # to
       /\ points' = InsertAt(RemoveAt(points, from), MoveTarget(from, to),
                             points[from])
       /\ point_map' = point_map \union {points[from]}
       /\ connections' = Unlinked(points[from])
  /\ UNCHANGED <<kept, torn, dead>>

\* Connect: both names are in the map, and not connected either way.
ConnectPoints ==
  /\ \E m, n \in point_map :
       /\ <<m, n>> \notin connections /\ <<n, m>> \notin connections
       /\ connections' = connections \union {<<m, n>>}
  /\ UNCHANGED <<points, point_map, kept, torn, dead>>

PointsNext ==
  /\ ~dead
  /\ InsertPoint \/ DeleteIndex \/ DeleteName \/ Move \/ ConnectPoints

PointsSpec == PointsInit /\ [][PointsNext]_pointVars

-----------------------------------------------------------------------------
AtMostOnce(list, n) ==
  \A i, j \in DOMAIN list : list[i] = n /\ list[j] = n => i = j

\* List, map and connections agree through every sequence of calls: a name is
\* listed once, the map knows the listed names, and those Delete(name) left
\* behind, and connections join names it knows, each pair once.  What the read
\* of an erased node does to another name stays with that name.
PointsAgree ==
  ~dead =>
    /\ \A n \in PointNames \ torn :
         /\ AtMostOnce(points, n)
         /\ n \in point_map <=> n \in ToSet(points) \union kept
         /\ ~(n \in kept /\ n \in ToSet(points))
    /\ \A c \in connections :
         /\ {c[1], c[2]} \subseteq point_map \union torn
         /\ c[1] # c[2] => <<c[2], c[1]>> \notin connections
=============================================================================
