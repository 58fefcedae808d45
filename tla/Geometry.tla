------------------------------ MODULE Geometry ------------------------------
(***************************************************************************)
(* Which zone a place is in: the crossing-number test of                   *)
(* contract.Contains and the shape mustParseGeometry demands of a zone.    *)
(* A place is a record with integer lng and lat; the quotient the code     *)
(* computes in floating point is compared exactly, by cross-multiplying.   *)
(***************************************************************************)
EXTENDS Integers, Sequences, FiniteSets

ZoneNone == "NO_ZONE"

\* The edges of a closed ring, from each point to the next.
Edges(boundary) == 1..(Len(boundary) - 1)

\* Mutant: an edge that only touches the ray from above counts as crossed.
StraddlesOrTouches(from, to, position) ==
  (from.lat >= position.lat) # (to.lat > position.lat)

\* One end is above the position, the other is not.
Straddles(from, to, position) ==
  (from.lat > position.lat) # (to.lat > position.lat)

\* The edge crosses the position's latitude east of it:
\*   lng < from.lng + (lat - from.lat) / (to.lat - from.lat) * (to.lng - from.lng)
CrossesEast(from, to, position) ==
  LET rise  == to.lat - from.lat
      slack == (from.lng - position.lng) * rise
                 + (position.lat - from.lat) * (to.lng - from.lng)
  IN  IF rise > 0 THEN slack > 0 ELSE slack < 0

\* A ray cast east crosses the boundary an odd number of times.
Contains(boundary, position) ==
  LET crossed == {i \in Edges(boundary) :
                    /\ Straddles(boundary[i], boundary[i + 1], position)
                    /\ CrossesEast(boundary[i], boundary[i + 1], position)}
  IN  Cardinality(crossed) % 2 = 1

\* mustRing: the boundary is closed.
Ring(boundary) == Len(boundary) >= 4 /\ boundary[1] = boundary[Len(boundary)]

\* mustParseGeometry: zones are named, named once, and expect somebody.
UsableZones(zones) ==
  /\ zones # <<>>
  /\ \A i \in DOMAIN zones :
       /\ zones[i].id \notin {"", ZoneNone}
       /\ zones[i].minimum >= 1
       /\ Ring(zones[i].boundary)
       /\ \A j \in DOMAIN zones : zones[i].id = zones[j].id => i = j

=============================================================================
