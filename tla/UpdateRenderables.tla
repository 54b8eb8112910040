------------------------- MODULE UpdateRenderables -------------------------
(***************************************************************************)
(* algorithm::updateRenderables: which tiles of a source are retained and   *)
(* drawn for a list of ideal tiles, some of which are not renderable yet.   *)
(*                                                                          *)
(* A tile ID is [z, w, p]: overscaledZ, the copy of the world, and the      *)
(* canonical tile as the path that leads to it from the tile of zoom 0.     *)
(* Beyond the last zoom of the source, z grows and p stays.                 *)
(*                                                                          *)
(* The functions that TilePyramid::update passes to the algorithm work on a *)
(* "frame": [tiles, cache, retain, shown, checked, draws], where "tiles"    *)
(* and "cache.tiles" map IDs to tiles, "shown" maps the unwrapped IDs that  *)
(* are drawn to the IDs of their tiles, and "draws" says whether this pass  *)
(* draws (the one for prefetching does not).                                *)
(***************************************************************************)
EXTENDS Integers, SequencesExt

CONSTANTS
    MinZoom, MaxZoom,  \* the zoom range of the source
    Branches,          \* the children of a canonical tile (four)
    OutOfBounds        \* the canonical tiles outside of the bounds of the TileJSON

Id(z, w, p) == [z |-> z, w |-> w, p |-> p]
Unwrapped(id) == [w |-> id.w, p |-> id.p]

ScaledTo(id, z) == Id(z, id.w, IF z >= Len(id.p) THEN id.p ELSE SubSeq(id.p, 1, z))

Children(id) ==
    IF id.z + 1 > MaxZoom
    THEN {ScaledTo(id, id.z + 1)}
    ELSE {Id(id.z + 1, id.w, Append(id.p, b)) : b \in Branches}

(* The states of a tile: its cache request is "new", or has been "tried"; an attempt to load   *)
(* it has "failed", which leaves it pending, since its layers have been sent to the worker and  *)
(* no data has; its data is "unparsable"; it is "renderable".  A new tile is Optional.         *)
Statuses == {"new", "tried", "failed", "unparsable", "renderable"}
NewTile == [status |-> "new", required |-> FALSE, fade |-> "Loaded"]

HasTriedCache(tile) == tile.status # "new"
IsLoaded(tile) == tile.status \in {"failed", "unparsable", "renderable"}
IsComplete(tile) == tile.status \in {"unparsable", "renderable"}
IsRenderable(tile) == tile.status = "renderable"

Put(f, key, value) == [k \in DOMAIN f \cup {key} |-> IF k = key THEN value ELSE f[k]]
Drop(f, gone) == [k \in DOMAIN f \ gone |-> f[k]]

Has(f, id) == id \in DOMAIN f.tiles
HasRenderable(f, id) == Has(f, id) /\ IsRenderable(f.tiles[id])

(* retainTileFn: the first necessity wins. *)
Retain(f, id, required) ==
    IF id \in f.retain THEN f
    ELSE [f EXCEPT !.retain = @ \cup {id}, !.tiles[id].required = required]

(* renderTileFn; the map keeps the tile it has under this ID. *)
Render(f, id) ==
    IF ~f.draws THEN f
    ELSE [f EXCEPT !.shown = IF Unwrapped(id) \in DOMAIN @ THEN @ ELSE Put(@, Unwrapped(id), id),
                   !.tiles[id].fade = "Loaded"]

(* Every key of this ID leaves the list. *)
Erased(keys, id) == FoldLeft(LAMBDA rest, key : IF key = id THEN rest ELSE Append(rest, key), <<>>, keys)

(* createTileFn: from the cache, or new. *)
Create(f, id) ==
    IF id.p \in OutOfBounds THEN f
    ELSE IF id \in DOMAIN f.cache.tiles
         THEN [f EXCEPT !.tiles = Put(@, id, f.cache.tiles[id]),
                        !.cache.tiles = Drop(@, {id}),
                        !.cache.keys = Erased(@, id)]
         ELSE [f EXCEPT !.tiles = Put(@, id, NewTile)]

(* The children that can stand in for the tile. *)
Substitutes(f, id) == {child \in Children(id) : HasRenderable(f, child)}

RenderChildren(f, id) ==
    FoldSet(LAMBDA child, g : Render(Retain(g, child, FALSE), child), f, Substitutes(f, id))

(* Fault: a parent is never loaded from the network. *)
ParentOptional(a) == FALSE

(* A parent is only asked of the network when the last tile below it could not be loaded. *)
ParentRequired(a) == a.loaded

(* One level of the ascent: "tried" and "loaded" are those of the last tile met. *)
AscendTo(a, parent) ==
    LET missing == ~Has(a.frame, parent) /\ (a.tried \/ a.loaded)
        seen == [a.frame EXCEPT !.checked = @ \cup {parent}]
        f == IF missing THEN Create(seen, parent) ELSE seen
    IN CASE a.done -> a
         [] ~a.done /\ parent \in a.frame.checked -> [a EXCEPT !.done = TRUE]
         [] ~a.done /\ parent \notin a.frame.checked /\ ~Has(f, parent) -> [a EXCEPT !.frame = f]
         [] OTHER ->
              LET kept == Retain(f, parent, ParentRequired(a))
                  tile == f.tiles[parent]
              IN [frame |-> IF IsRenderable(tile) THEN Render(kept, parent) ELSE kept,
                  tried |-> HasTriedCache(tile),
                  loaded |-> IsLoaded(tile),
                  done |-> IsRenderable(tile)]

RenderParents(f, id) ==
    LET levels == [i \in 1..(id.z - MinZoom) |-> ScaledTo(id, id.z - i)]
        start == [frame |-> f, tried |-> HasTriedCache(f.tiles[id]),
                  loaded |-> IsLoaded(f.tiles[id]), done |-> FALSE]
    IN FoldLeft(AscendTo, start, levels).frame

(* One ideal tile. *)
UpdateIdeal(frame, id) ==
    LET f == IF Has(frame, id) THEN frame ELSE Create(frame, id)
        kept == Retain(f, id, TRUE)
    IN CASE ~Has(f, id) -> f
         [] HasRenderable(f, id) -> Render(kept, id)
         [] OTHER ->
              IF Substitutes(kept, id) = Children(id)
              THEN RenderChildren(kept, id)
              ELSE RenderParents(RenderChildren(kept, id), id)

(* Fault: the second pass skips what the first one has checked. *)
UpdatedOnce(frame, ids, draws) ==
    FoldLeft(UpdateIdeal, [frame EXCEPT !.draws = draws], ids)

(* The whole pass, for the ideal tiles in the order of the cover. *)
Updated(frame, ids, draws) ==
    FoldLeft(UpdateIdeal, [frame EXCEPT !.checked = {}, !.draws = draws], ids)
=============================================================================
