---------------------------- MODULE TilePyramid ----------------------------
(***************************************************************************)
(* TilePyramid: the tiles of one source, the cache of those that are not    *)
(* needed at the moment, and what is drawn, while the camera moves, tiles   *)
(* load, symbols fade and the layers change.                                *)
(*                                                                          *)
(* The camera is one of "Views": the zoom, and the tiles of the last zoom   *)
(* of the source it sees, nearest first; the cover of any zoom follows from *)
(* them.  The tiles are GeometryTiles.  How a tile is loaded is the matter   *)
(* of TileLoader; here its requests are answered at last.  This module has  *)
(* the actions of a Continuous map, which draws as often as it likes; Map   *)
(* adds those of a Static one.                                              *)
(***************************************************************************)
EXTENDS UpdateRenderables, FiniteSets

CONSTANTS
    Views,          \* the cameras: [zoom, world, leaves, cacheSize]
    NoView,         \* before the first frame, or when the source is not rendered
    PrefetchDelta,  \* prefetchZoomDelta, or 0
    Offline,        \* the canonical tiles that are found in the database
    Online,         \* those the server has an answer for, be it that there is no such tile
    Broken,         \* those whose data cannot be parsed
    MaxMoves        \* how often the camera, the layers or their visibility change (bound)

ASSUME TilePyramidAssumption ==
    /\ MinZoom \in Nat /\ MaxZoom \in Nat /\ MinZoom =< MaxZoom
    /\ Branches \subseteq Nat /\ IsFiniteSet(Branches)
    /\ PrefetchDelta \in Nat /\ MaxMoves \in Nat
    /\ NoView \notin Views
    /\ \A v \in Views :
         /\ v.zoom \in Nat /\ v.world \in Int /\ v.cacheSize \in Nat \ {0}
         /\ v.leaves \in Seq([w : Int, p : [1..MaxZoom -> Branches]])
    \* TileRange::contains: what is outside at one zoom is outside at the next
    /\ \A n \in MinZoom..MaxZoom : \A p \in [1..n -> Branches], k \in MinZoom..n :
         SubSeq(p, 1, k) \in OutOfBounds => p \in OutOfBounds

VARIABLES
    mode,         \* the mode of the map, which never changes
    tiles,        \* the tiles in use, by ID
    cache,        \* [tiles, keys, size]: the TileCache
    shown,        \* renderTiles: the IDs of the tiles that are drawn, by unwrapped ID
    view,         \* the camera of the last frame
    world,        \* the copy of the world the camera was in
    news,         \* since the last frame no tile has changed ("none"), one has failed ("error"), or
                  \* one has asked for a frame ("invalidated")
    moves         \* counter for the bound

vars == <<mode, tiles, cache, shown, view, world, news, moves>>

Nothing == [k \in {} |-> NewTile]

Init ==
    /\ mode \in {"Continuous", "Static"}
    /\ tiles = Nothing /\ shown = Nothing
    /\ cache = [tiles |-> Nothing, keys |-> <<>>, size |-> 0]
    /\ view = NoView /\ world = 0
    /\ news = "none"
    /\ moves = 0

----------------------------------------------------------------------------
(***************************************************************************)
(* TileCache                                                                *)
(***************************************************************************)
Cleared(c) == [c EXCEPT !.tiles = Nothing, !.keys = <<>>]

Resized(c, size) ==
    LET surplus == Len(c.keys) - Min({size, Len(c.keys)})
    IN [tiles |-> Drop(c.tiles, ToSet(SubSeq(c.keys, 1, surplus))),
        keys |-> SubSeq(c.keys, surplus + 1, Len(c.keys)),
        size |-> size]

Popped(c, key) ==
    IF key \in DOMAIN c.tiles
    THEN [c EXCEPT !.tiles = Drop(@, {key}), !.keys = Erased(@, key)]
    ELSE c

(* add(): the key of a tile that is already there is not removed before it is appended. *)
Added(c, key, tile) ==
    IF ~IsRenderable(tile) \/ c.size = 0 THEN c
    ELSE LET new == key \notin DOMAIN c.tiles
             more == [c EXCEPT !.tiles = IF new THEN Put(@, key, tile) ELSE @,
                               !.keys = Append(IF new THEN Erased(@, key) ELSE @, key)]
         IN IF Len(more.keys) > c.size THEN Popped(more, Head(more.keys)) ELSE more

(* The order of the map of tiles. *)
Before(a, b) ==
    \/ a.z < b.z
    \/ a.z = b.z /\ a.w < b.w
    \/ a.z = b.z /\ a.w = b.w /\ Len(a.p) < Len(b.p)
    \/ a.z = b.z /\ a.w = b.w /\ Len(a.p) = Len(b.p)
       /\ \E i \in DOMAIN a.p : a.p[i] < b.p[i] /\ \A j \in 1..(i - 1) : a.p[j] = b.p[j]

(* The last of these IDs, which is added last. *)
Latest(ids) == CHOOSE id \in ids : \A other \in ids \ {id} : Before(other, id)

AllAdded(c, map) ==
    MapThenFoldSet(LAMBDA id, d : Added(d, id, map[id]), c, LAMBDA id : id, Latest, DOMAIN map)

----------------------------------------------------------------------------
(***************************************************************************)
(* update()                                                                 *)
(***************************************************************************)
(* util::tileCover at zoom z: the ancestors of the leaves, nearest first. *)
Ancestor(leaf, z) == [w |-> leaf.w, p |-> SubSeq(leaf.p, 1, z)]

Cover(v, z) ==
    FoldLeft(LAMBDA cover, leaf : IF Ancestor(leaf, z) \in ToSet(cover) THEN cover
                                  ELSE Append(cover, Ancestor(leaf, z)), <<>>, v.leaves)

IdealZoom(v) == Min({MaxZoom, v.zoom})

(* The data tiles of the cover: overzoomed tiles of the last zoom are parsed for the zoom. *)
IdealIds(v) ==
    IF v.zoom < MinZoom THEN <<>>
    ELSE LET cover == Cover(v, IdealZoom(v))
         IN [i \in DOMAIN cover |-> Id(v.zoom, cover[i].w, cover[i].p)]

PanZoom(v) ==
    IF PrefetchDelta = 0 THEN MaxZoom
    ELSE Max({v.zoom - Min({PrefetchDelta, v.zoom}), MinZoom})

PrefetchIds(v) ==
    IF v.zoom < MinZoom \/ PanZoom(v) >= IdealZoom(v) THEN <<>>
    ELSE LET cover == Cover(v, PanZoom(v))
         IN [i \in DOMAIN cover |-> Id(PanZoom(v), cover[i].w, cover[i].p)]

PanIds(v) == IF mode = "Continuous" THEN PrefetchIds(v) ELSE <<>>

(* handleWrapJump(): the tiles in use move to another copy of the world, those of the cache   *)
(* do not.                                                                                    *)
Moved(id, by) == [id EXCEPT !.w = @ + by]

WrapJumped(map, by) ==
    [id \in {Moved(j, by) : j \in DOMAIN map} |-> map[Moved(id, 0 - by)]]

(* A tile that is no longer drawn is kept while its symbols fade out. *)
HoldForFade(tile) == mode = "Continuous" /\ tile.fade \in {"NeedsFirstPlacement", "NeedsSecondPlacement"}

MarkRenderedPreviously(tile) ==
    [tile EXCEPT !.fade = IF @ = "Loaded" THEN "NeedsFirstPlacement" ELSE @]

(* Fault: what fades out is drawn, but not kept. *)
FadedOnly(frame, previous) ==
    LET marked == {previous[u] : u \in DOMAIN previous \ DOMAIN frame.shown}
        now == [id \in DOMAIN frame.tiles |->
                  IF id \in marked THEN MarkRenderedPreviously(frame.tiles[id]) ELSE frame.tiles[id]]
        fading == {u \in DOMAIN previous \ DOMAIN frame.shown : HoldForFade(now[previous[u]])}
    IN [frame EXCEPT !.tiles = now,
                     !.shown = [u \in DOMAIN @ \cup fading |-> IF u \in fading THEN previous[u] ELSE @[u]]]

Faded(frame, previous) ==
    LET marked == {previous[u] : u \in DOMAIN previous \ DOMAIN frame.shown}
        now == [id \in DOMAIN frame.tiles |->
                  IF id \in marked THEN MarkRenderedPreviously(frame.tiles[id]) ELSE frame.tiles[id]]
        fading == {u \in DOMAIN previous \ DOMAIN frame.shown : HoldForFade(now[previous[u]])}
        held == {previous[u] : u \in fading}
    IN [frame EXCEPT
          !.tiles = [id \in DOMAIN now |->
                       IF id \in held \ frame.retain THEN [now[id] EXCEPT !.required = FALSE] ELSE now[id]],
          !.retain = @ \cup held,
          !.shown = [u \in DOMAIN @ \cup fading |-> IF u \in fading THEN previous[u] ELSE @[u]]]

(* The two passes of updateRenderables and the fading tiles. *)
Framed(v, relayout) ==
    LET jump == v.world - world
        start == [tiles |-> WrapJumped(tiles, jump),
                  cache |-> IF relayout THEN Cleared(cache) ELSE cache,
                  shown |-> Nothing, retain |-> {}, checked |-> {}, draws |-> FALSE]
        previous == [u \in {Moved(t, jump) : t \in DOMAIN shown} |->
                       Moved(shown[Moved(u, 0 - jump)], jump)]
        prefetched == IF PanIds(v) = <<>> THEN start ELSE Updated(start, PanIds(v), FALSE)
    IN Faded(Updated(prefetched, IdealIds(v), TRUE), previous)

Optional(map) == [id \in DOMAIN map |-> [map[id] EXCEPT !.required = FALSE]]

(* What is not retained goes to the cache, unless its layout is stale. *)
Stowed(frame, v, relayout) ==
    LET sized == Resized(frame.cache, v.cacheSize)
        stale == [id \in DOMAIN frame.tiles \ frame.retain |-> frame.tiles[id]]
    IN [tiles |-> Drop(frame.tiles, DOMAIN stale),
        shown |-> frame.shown,
        cache |-> IF relayout THEN sized ELSE AllAdded(sized, Optional(stale))]

(* What a frame leaves. *)
AfterUpdate(v, relayout) == Stowed(Framed(v, relayout), v, relayout)

Update(v, relayout) ==
    /\ IF v = view /\ ~relayout THEN UNCHANGED moves ELSE moves < MaxMoves /\ moves' = moves + 1
    /\ LET after == AfterUpdate(v, relayout)
       IN tiles' = after.tiles /\ shown' = after.shown /\ cache' = after.cache
    /\ view' = v /\ world' = v.world
    /\ news' = "none"
    /\ UNCHANGED mode

(* A frame for which the source needs no rendering: the necessity of the tiles stays. *)
Hide(relayout) ==
    /\ view # NoView
    /\ moves < MaxMoves /\ moves' = moves + 1
    /\ tiles' = Nothing /\ shown' = Nothing
    /\ cache' = IF relayout THEN Cleared(cache) ELSE AllAdded(cache, tiles)
    /\ view' = NoView
    /\ news' = "none"
    /\ UNCHANGED <<mode, world>>

ReduceMemoryUse ==
    /\ cache.keys # <<>>
    /\ cache' = Cleared(cache)
    /\ news' = "invalidated"
    /\ UNCHANGED <<mode, tiles, shown, view, world, moves>>

(* The source is removed, or its tileset changes. *)
ClearAll ==
    /\ view # NoView
    /\ moves < MaxMoves /\ moves' = moves + 1
    /\ tiles' = Nothing /\ shown' = Nothing
    /\ cache' = Cleared(cache)
    /\ view' = NoView
    /\ UNCHANGED <<mode, world, news>>

(* updateFadingTiles(), after symbols have been placed. *)
UpdateFadingTiles ==
    /\ \E u \in DOMAIN shown : HoldForFade(tiles[shown[u]])
    /\ tiles' = [id \in DOMAIN tiles |->
                   IF \E u \in DOMAIN shown : shown[u] = id /\ HoldForFade(tiles[id])
                   THEN [tiles[id] EXCEPT !.fade = IF @ = "NeedsFirstPlacement"
                                                   THEN "NeedsSecondPlacement" ELSE "CanRemove"]
                   ELSE tiles[id]]
    /\ UNCHANGED <<mode, cache, shown, view, world, news, moves>>

----------------------------------------------------------------------------
(***************************************************************************)
(* What happens to a tile.  Its observer asks for another frame, but for an *)
(* error, which is only reported.                                           *)
(***************************************************************************)
Becomes(id, status) ==
    /\ tiles' = [tiles EXCEPT ![id].status = status]
    /\ UNCHANGED <<mode, cache, shown, view, world, moves>>

OnTileChanged == news' = "invalidated"
OnTileError == news' = IF news = "none" THEN "error" ELSE news

TriedCache(id) ==
    /\ id \in DOMAIN tiles /\ tiles[id].status = "new"
    /\ Becomes(id, "tried")

(* The data is in the database, or comes from the server if the tile is required. *)
HasData(id) == id.p \in Offline \/ (tiles[id].required /\ id.p \in Online)

Loadable(id) == id \in DOMAIN tiles /\ tiles[id].status \in {"tried", "failed"} /\ HasData(id)

LaidOut(id) == Loadable(id) /\ id.p \notin Broken /\ Becomes(id, "renderable")

(* Its parsing throws; and again whenever its layers or its data change. *)
Unparsed(id) ==
    /\ Loadable(id) \/ (id \in DOMAIN tiles /\ tiles[id].status = "unparsable")
    /\ id.p \in Broken
    /\ Becomes(id, "unparsable")

(* A request to the server fails, maybe not for the first time: the tile may have data of the  *)
(* database by now, or wait for it, and keeps it.                                              *)
Fallible(id) == id \in DOMAIN tiles /\ tiles[id].status # "new" /\ tiles[id].required

Failed(id) ==
    /\ Fallible(id)
    /\ Becomes(id, IF tiles[id].status = "tried" THEN "failed" ELSE tiles[id].status)

SetTriedCache(id) == TriedCache(id) /\ OnTileChanged
OnLayout(id) == LaidOut(id) /\ OnTileChanged
OnError(id) == Unparsed(id) /\ OnTileError
SetError(id) == Failed(id) /\ OnTileError

Next ==
    \/ \E v \in Views, relayout \in BOOLEAN : Update(v, relayout)
    \/ \E relayout \in BOOLEAN : Hide(relayout)
    \/ ReduceMemoryUse \/ ClearAll \/ UpdateFadingTiles
    \/ \E id \in DOMAIN tiles : SetTriedCache(id) \/ OnLayout(id) \/ OnError(id) \/ SetError(id)

Spec == Init /\ [][Next]_vars

(* What asks for a frame gets one, as long as symbols fade they are placed and another frame  *)
(* follows, requests are answered and data is parsed.                                         *)
Fading == \E u \in DOMAIN shown : HoldForFade(tiles[shown[u]])

Ideal == UNION {ToSet(IdealIds(v)) : v \in Views}
Parents(id) == {ScaledTo(id, z) : z \in MinZoom..(id.z - 1)}
Loading == Ideal \cup UNION {Parents(id) : id \in Ideal} \cup UNION {ToSet(PrefetchIds(v)) : v \in Views}

Repeats == \E v \in Views : v = view /\ Update(v, FALSE)

Answers(id) == SetTriedCache(id) \/ OnLayout(id) \/ OnError(id) \/ SetError(id)
Answerable(id) ==
    id \in DOMAIN tiles /\ (tiles[id].status = "new" \/ Loadable(id)
                             \/ (tiles[id].status = "tried" /\ Fallible(id)))

Fairness ==
    /\ []<>(view = NoView \/ (news # "invalidated" /\ ~Fading)) \/ []<><<Repeats>>_vars
    /\ []<>~Fading \/ []<><<UpdateFadingTiles>>_vars
    /\ \A id \in Loading : []<>~Answerable(id) \/ []<><<Answers(id)>>_vars
    /\ \A id \in Loading : []<>~Loadable(id) \/ []<><<OnLayout(id) \/ OnError(id)>>_vars

FairSpec == Spec /\ Fairness

----------------------------------------------------------------------------
(* renderTiles holds references: every tile that is drawn is in use and renderable, whatever    *)
(* jumps, fades, or is retained for another one; and so is every tile of the cache, in which    *)
(* none can be found that it could not purge.                                                   *)
RenderTilesRetained ==
    /\ \A u \in DOMAIN shown : HasRenderable([tiles |-> tiles], shown[u]) /\ Unwrapped(shown[u]) = u
    /\ \A id \in DOMAIN cache.tiles : IsRenderable(cache.tiles[id]) /\ id \in ToSet(cache.keys)

(* assert(orderedKeys.size() <= size), after every call of setSize() and add(). *)
CacheWithinSize == Len(cache.keys) =< cache.size

InBounds(id) == id.p \notin OutOfBounds

Drawn(id) == Unwrapped(id) \in DOMAIN shown /\ shown[Unwrapped(id)] = id

(* A Continuous map draws what could be drawn in place of an ideal tile. *)
Covered ==
    mode = "Continuous" /\ view # NoView /\ news # "invalidated" =>
        \A id \in ToSet(IdealIds(view)) :
            InBounds(id) /\ (\E parent \in Parents(id) \cup {id} : HasRenderable([tiles |-> tiles], parent)) =>
                \/ \E parent \in Parents(id) \cup {id} : Drawn(parent)
                \/ \A child \in Children(id) : Drawn(child)

Available(id) == InBounds(id) /\ id.p \in (Offline \cup Online) \ Broken
Stored(id) == InBounds(id) /\ id.p \in Offline \ Broken

IsIdeal(id) == view # NoView /\ id \in ToSet(IdealIds(view))

(* When the camera rests, every ideal tile that can be had is drawn in the end, and in place  *)
(* of one that cannot be had a tile that contains it: one of the database in any case, one of *)
(* the server if a frame follows the errors too, for nothing asks for the one in which the    *)
(* parent of a tile that has failed becomes required.                                         *)
EventuallyDrawn ==
    mode = "Continuous" => \A id \in Ideal :
        \/ []<>~IsIdeal(id)
        \/ /\ Available(id) => <>[]Drawn(id)
           /\ /\ InBounds(id)
              /\ \/ \E parent \in Parents(id) : Stored(parent)
                 \/ (\E parent \in Parents(id) : Available(parent)) /\ []<>(news = "none")
              => <>[](\E parent \in Parents(id) \cup {id} \cup Children(id) : Drawn(parent))
=============================================================================
