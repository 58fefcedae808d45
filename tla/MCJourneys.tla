----------------------------- MODULE MCJourneys -----------------------------
(***************************************************************************)
(* Small towns in and around a square service area.                        *)
(***************************************************************************)
EXTENDS Journeys

At(lng, lat) == [lng |-> lng, lat |-> lat]

\* Streets run along the axes, or at a slope that is easy to measure.
MCMetres(p, q) ==
  LET dx == Place[p].lng - Place[q].lng
      dy == Place[p].lat - Place[q].lat
  IN  Max({dx, -dx}) + Max({dy, -dy})

MCPlace ==
  1 :> At(2, 2)  @@ 2 :> At(6, 2)   @@ 3 :> At(10, 2)  @@ 4 :> At(14, 2) @@
  5 :> At(2, 8)  @@ 6 :> At(10, 8)  @@ 7 :> At(14, 8)  @@ 8 :> At(4, 4)  @@
  9 :> At(12, 3) @@ 10 :> At(16, 2) @@ 11 :> At(6, 8)  @@ 12 :> At(12, 2) @@
  13 :> At(7, 5) @@ 14 :> At(9, 5)

MCServiceArea == <<At(0, 0), At(12, 0), At(12, 12), At(0, 12), At(0, 0)>>

MCZones == {<<At(0, 0), At(7, 0), At(7, 7), At(0, 7), At(0, 0)>>}

Street(nodes, oneway) ==
  [nodes |-> nodes, known |-> [i \in DOMAIN nodes |-> TRUE],
   oneway |-> oneway, roundabout |-> FALSE, name |-> "Main"]

\* A main street with bends that are seen (8, 13 and 14) and one that is not
\* (9), left by a one-way street and joined again by one that is listed
\* against its direction; a dead end (10) that can only be entered.
Town ==
  <<Street(<<1, 8, 2, 13, 14, 3, 9, 4>>, "no"),
    Street(<<2, 11>>, "no"),
    Street(<<1, 5, 11>>, "yes"),
    Street(<<4, 7, 6, 11>>, "-1"),
    [Street(<<6, 3>>, "yes") EXCEPT !.name = "Side"],
    [Street(<<4, 10>>, "yes") EXCEPT !.name = "Dead end"]>>

\* A roundabout, a street whose middle is not in the extract, two roads of
\* one length between the same ends, a street that comes back to where it
\* began, and an element that came without its coordinates.
Ring ==
  <<[Street(<<2, 3, 6, 11, 2>>, "no") EXCEPT !.roundabout = TRUE],
    Street(<<3, 4>>, "no"),
    Street(<<3, 12, 4>>, "no"),
    Street(<<2, 1>>, "no"),
    Street(<<6, 13, 14, 6>>, "no"),
    [Street(<<6, 7, 10, 4>>, "no") EXCEPT !.known = <<TRUE, TRUE, FALSE, TRUE>>],
    [Street(<<4, 5>>, "no") EXCEPT !.known = <<>>]>>

\* Three islands, listed from the last: the middle one is the largest and is
\* the way from the first to the last.
Islands ==
  <<Street(<<7, 6, 11>>, "no"),
    Street(<<5, 8>>, "no"),
    Street(<<8, 1>>, "yes"),
    Street(<<1, 2, 3, 4>>, "no"),
    Street(<<3, 2>>, "yes"),
    Street(<<4, 7>>, "yes")>>

\* Streets of many lengths out of one square, the far ends joined: the heap
\* grows, and entries are improved on.
Hub ==
  <<Street(<<6, 5>>, "no"), Street(<<6, 11>>, "no"), Street(<<6, 3>>, "no"),
    Street(<<6, 7>>, "yes"), Street(<<6, 14>>, "no"), Street(<<6, 1>>, "no"),
    Street(<<7, 4, 3>>, "true"), Street(<<14, 11>>, "1"), Street(<<11, 1>>, "yes")>>

\* Nothing of this town is outside the service area: no network comes of it.
Inland == <<Street(<<1, 2, 3>>, "no"), Street(<<3, 4>>, "yes")>>

\* Two towns with no street between them, the smaller listed first; a vehicle could
\* live in either.
Twins == <<Street(<<1, 10>>, "no"), Street(<<2, 4>>, "no"), Street(<<4, 7>>, "no")>>

MCExtracts == {Town, Ring, Islands, Hub, Inland, Twins}

=============================================================================
