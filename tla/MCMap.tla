------------------------------- MODULE MCMap -------------------------------
(* Small instances of Map: a source of three zooms with two children to a tile, one of them     *)
(* outside of its bounds; one of a single tile; and one of a hemisphere.                        *)
EXTENDS Map

Leaf(w, a, b) == [w |-> w, p |-> <<a, b>>]
View(zoom, copy, leaves, cacheSize) ==
    [zoom |-> zoom, world |-> copy, leaves |-> leaves, cacheSize |-> cacheSize]

(* Tiles of the last zoom; one of them overzoomed; and, with the zoom before the last, tiles on *)
(* both sides of the antimeridian.                                                              *)
Near == View(2, 0, <<Leaf(0, 0, 0), Leaf(0, 0, 1)>>, 2)
Close == View(3, 0, <<Leaf(0, 0, 0)>>, 1)
Across == View(1, 1, <<Leaf(1, 0, 0), Leaf(0, 1, 0)>>, 2)

MCViews == {Near, Close, Across}
MCOutOfBounds == {<<1>>, <<1, 0>>, <<1, 1>>}
MCOffline == {<<0, 0>>}
MCOnline == {<<>>, <<0>>}
MCBroken == {<<0>>}

(* The whole world in one tile. *)
World == View(0, 0, <<[w |-> 0, p |-> <<>>]>>, 1)
SingleViews == {World}

(* A source of the western half of the world, seen from the prime meridian and, in the next     *)
(* copy of the world, from the antimeridian: whoever goes from one to the other jumps (181       *)
(* degrees).  The map gets smaller.                                                              *)
West(w) == [w |-> w, p |-> <<0>>]
East(w) == [w |-> w, p |-> <<1>>]
Meridian(cacheSize) == View(1, 0 - 1, <<West(0), East(0)>>, cacheSize)
Antimeridian == View(1, 0, <<East(0), West(1)>>, 2)

RoundTrip == {Antimeridian, Meridian(2), Meridian(1)}
EastOnly == {<<1>>}
WestOnly == {<<0>>}
=============================================================================
