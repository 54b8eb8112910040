--------------------------- MODULE MCGeometryTile ---------------------------
(* Small instances of GeometryTile. *)
EXTENDS GeometryTile

CONSTANTS g1, g2, i1, i2

GlyphsTwo == {g1, g2}
ImagesTwo == {i1, i2}

Parsed(gs, is, kept) == [glyphs |-> gs, images |-> is, layouts |-> kept, throws |-> FALSE]

(* Styles that always have a symbol layer with something in it, and parsing that throws. *)
WithSymbols ==
    {Parsed({g1}, {i1, i2}, TRUE), Parsed({g2}, {}, TRUE),
     [Parsed({g1}, {}, TRUE) EXCEPT !.throws = TRUE]}

(* Styles that lose the symbol layer, or whose symbol layer comes out empty. *)
SymbolsRemoved == {Parsed({}, {}, FALSE), Parsed({g1}, {}, TRUE)}
=============================================================================
