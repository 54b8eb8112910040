-------------------------------- MODULE Map --------------------------------
(***************************************************************************)
(* Map: the still images of a Static map, over the tiles of its source.     *)
(*                                                                          *)
(* Map::Impl tells the frontend what to draw, HeadlessFrontend draws it in  *)
(* a task of its own, and the renderer answers the request once all is      *)
(* loaded.  Meanwhile the style, its source and its sprite arrive, tiles    *)
(* change and fail, and the camera moves.  A Continuous map is here too: it *)
(* does what TilePyramid says, and has its style already.                   *)
(*                                                                          *)
(* Without a request nothing is drawn, so everything depends on the last    *)
(* update that is sent while there is one.                                  *)
(***************************************************************************)
EXTENDS TilePyramid

CONSTANTS
    Annotations,  \* LayerManager::annotationsEnabled
    MaxCalls      \* how often renderStill and jumpTo are called (bound)

ASSUME MapAssumption == Annotations \in BOOLEAN /\ MaxCalls \in Nat

VARIABLES
    style,             \* "loading", "loaded", or "failed": there will be no other response
    source,            \* BOOLEAN: its TileJSON is loaded
    sprite,            \* "none" (not asked for), "loading", "failed" or "loaded"
    lastError,         \* BOOLEAN: the style has met an error
    request,           \* BOOLEAN: there is a stillImageRequest
    camera,            \* the TransformState
    updateParameters   \* [source, loaded, camera]: what the frontend has been told last

mapVars == <<style, source, sprite, lastError, request, camera, updateParameters>>
allVars == <<vars, mapVars>>

MapInit ==
    /\ Init
    /\ style = (IF mode = "Static" THEN "loading" ELSE "loaded")
    /\ source = (mode = "Continuous")
    /\ sprite = (IF mode = "Static" THEN "none" ELSE "loaded")
    /\ lastError = FALSE /\ request = FALSE
    /\ camera \in (IF mode = "Static" THEN Views ELSE {NoView})
    /\ updateParameters = [source |-> FALSE, loaded |-> FALSE, camera |-> NoView]

ContinuousNext == mode = "Continuous" /\ Next /\ UNCHANGED mapVars

----------------------------------------------------------------------------
(* After an error sprites do not block anything any longer. *)
SpriteLoaded == sprite \in {"failed", "loaded"}
StyleLoaded == style = "loaded" /\ SpriteLoaded /\ source

(* onUpdate(): the frontend gets the state as it is now, but only while there is a request. *)
OnUpdateWith(loaded) ==
    IF request'
    THEN /\ updateParameters' = [source |-> source', loaded |-> loaded /\ StyleLoaded', camera |-> camera']
         /\ news' = "invalidated"
    ELSE UNCHANGED <<updateParameters, news>>

OnUpdate == OnUpdateWith(TRUE)

(* onResourceError(): the request is answered with the error. *)
OnResourceError == request' = FALSE

UnchangedPyramid == UNCHANGED <<mode, tiles, cache, shown, view, world>>

(* renderStill() moves the camera at once, even if it then gives up because another image is    *)
(* being rendered or the style has met an error.                                                *)
RenderStill(v) ==
    /\ moves < MaxCalls /\ moves' = moves + 1
    /\ camera' = v
    /\ UNCHANGED <<style, source, sprite, lastError>>
    /\ IF request \/ lastError
       THEN UNCHANGED <<request, updateParameters, news>>
       ELSE request' = TRUE /\ OnUpdate
    /\ UnchangedPyramid

JumpTo(v) ==
    /\ moves < MaxCalls /\ moves' = moves + 1
    /\ camera' = v
    /\ UNCHANGED <<style, source, sprite, lastError, request>>
    /\ OnUpdate
    /\ UnchangedPyramid

(* Style::Impl::loadURL: an error is reported, but not kept, and may be the last word. *)
StyleFails ==
    /\ style = "loading"
    /\ style' \in {"loading", "failed"}
    /\ OnResourceError
    /\ UnchangedPyramid
    /\ UNCHANGED <<source, sprite, lastError, camera, updateParameters, news, moves>>

(* The style is parsed: its source and its sprite may be complete, or have to be loaded.  Its   *)
(* layers and its light send updates while it is not yet "loaded"; after that only the          *)
(* annotations do, since the camera has been set already.                                       *)
StyleArrives ==
    /\ style = "loading"
    /\ style' = "loaded"
    /\ sprite' \in {"loading", "loaded"}
    /\ source' \in BOOLEAN
    /\ UNCHANGED <<lastError, request, camera, moves>>
    /\ OnUpdateWith(Annotations)
    /\ UnchangedPyramid

(* Style::Impl::onSourceError and onSpriteError keep the error, and nothing forgets it. *)
SourceFails ==
    /\ style = "loaded" /\ ~source
    /\ lastError' = TRUE
    /\ OnResourceError
    /\ UnchangedPyramid
    /\ UNCHANGED <<style, source, sprite, camera, updateParameters, news, moves>>

SourceArrives ==
    /\ style = "loaded" /\ ~source
    /\ source' = TRUE
    /\ UNCHANGED <<style, sprite, lastError, request, camera, moves>>
    /\ OnUpdate
    /\ UnchangedPyramid

SpriteFails ==
    /\ sprite \in {"loading", "failed"}
    /\ sprite' = "failed"
    /\ lastError' = TRUE
    /\ OnResourceError
    /\ UNCHANGED <<style, source, camera, moves>>
    /\ OnUpdate
    /\ UnchangedPyramid

(* Fault: nothing is drawn for a sprite. *)
SpriteArrivesQuietly ==
    /\ sprite \in {"loading", "failed"}
    /\ sprite' = "loaded"
    /\ UNCHANGED <<style, source, lastError, request, camera, updateParameters, news, moves>>
    /\ UnchangedPyramid

SpriteArrives ==
    /\ sprite \in {"loading", "failed"}
    /\ sprite' = "loaded"
    /\ UNCHANGED <<style, source, lastError, request, camera, moves>>
    /\ OnUpdate
    /\ UnchangedPyramid

TileChanges(id) ==
    /\ TriedCache(id) \/ LaidOut(id)
    /\ UNCHANGED <<style, source, sprite, lastError, request, camera>>
    /\ OnUpdate

TileFails(id) ==
    /\ Failed(id) \/ Unparsed(id)
    /\ OnResourceError
    /\ UNCHANGED <<style, source, sprite, lastError, camera, updateParameters, news>>

PurgeCache ==
    /\ cache.keys # <<>>
    /\ cache' = Cleared(cache)
    /\ UNCHANGED <<style, source, sprite, lastError, request, camera>>
    /\ OnUpdate
    /\ UNCHANGED <<mode, tiles, shown, view, world, moves>>

----------------------------------------------------------------------------
(* Fault: only the tiles that are drawn count. *)
ShownLoaded(pyramid) == \A u \in DOMAIN pyramid.shown : IsComplete(pyramid.tiles[pyramid.shown[u]])

(* TilePyramid::isLoaded(), on which Renderer::Impl::isLoaded() depends *)
PyramidLoaded(pyramid) == \A id \in DOMAIN pyramid.tiles : IsComplete(pyramid.tiles[id])

(* Renderer::Impl::render() in the task of the frontend: the source gets its tiles; unless       *)
(* everything is loaded the rest is left for another time.                                       *)
RenderFrame ==
    /\ news = "invalidated"
    /\ LET current == [tiles |-> tiles, shown |-> shown, cache |-> cache]
           v == updateParameters.camera
           after == IF updateParameters.source THEN AfterUpdate(v, FALSE) ELSE current
           loaded == updateParameters.loaded /\ PyramidLoaded(after)
       IN /\ tiles' = after.tiles /\ shown' = after.shown /\ cache' = after.cache
          /\ IF updateParameters.source THEN view' = v /\ world' = v.world ELSE UNCHANGED <<view, world>>
          /\ request' = (request /\ ~loaded)
    /\ news' = "none"
    /\ UNCHANGED <<mode, moves, style, source, sprite, lastError, camera, updateParameters>>

StaticNext ==
    /\ mode = "Static"
    /\ \/ \E v \in Views : RenderStill(v) \/ JumpTo(v)
       \/ StyleFails \/ StyleArrives \/ SourceFails \/ SourceArrives
       \/ SpriteFails \/ SpriteArrives
       \/ \E id \in DOMAIN tiles : TileChanges(id) \/ TileFails(id)
       \/ PurgeCache \/ RenderFrame

MapNext == ContinuousNext \/ StaticNext

(* A task that is scheduled is run, and requests are answered, if only with an error; those of *)
(* the style are repeated until the answer is final.                                           *)
StaticFairness ==
    /\ []<>(news # "invalidated") \/ []<><<RenderFrame>>_allVars
    /\ []<>(style # "loading") \/ []<><<StyleArrives \/ StyleFails>>_allVars
    /\ []<>(style # "loaded" \/ source) \/ []<><<SourceArrives \/ SourceFails>>_allVars
    /\ []<>(sprite # "loading") \/ []<><<SpriteArrives \/ SpriteFails>>_allVars
    /\ \A id \in Loading :
          []<>~Answerable(id) \/ []<><<TileChanges(id) \/ TileFails(id)>>_allVars

MapSpec == MapInit /\ [][MapNext]_allVars

FairMapSpec ==
    /\ MapSpec
    /\ mode = "Continuous" => Fairness
    /\ mode = "Static" => StaticFairness

----------------------------------------------------------------------------
Delivered == request /\ ~request' /\ news = "invalidated" /\ news' = "none"

IsUnparsable(id) == id \in DOMAIN tiles /\ tiles[id].status = "unparsable"

Complete(v) ==
    \A id \in ToSet(IdealIds(v)) : InBounds(id) =>
        \/ Drawn(id)
        \/ /\ IsUnparsable(id)
           /\ \/ \A child \in Children(id) : Drawn(child)
              \/ \E parent \in Parents(id) : Drawn(parent)
              \/ \A parent \in Parents(id) : IsUnparsable(parent)

(* An image that is delivered is complete: the style, its source and its sprite have been        *)
(* answered, and every tile of the camera that was last told to the frontend is drawn, or cannot *)
(* be parsed, nor can what could have been drawn in its place.                                   *)
StillIsComplete ==
    [][Delivered => StyleLoaded /\ view' = updateParameters.camera /\ Complete(view)']_allVars

(* Its data is not to be had: no request for it is under way, or one that is not retried. *)
IsExhausted(id) == tiles[id].status = "failed" /\ ~HasData(id)

(* Every request for an image is answered, unless there will never be a style, or a tile stays   *)
(* in use whose request has failed for good.                                                     *)
StillAnswered ==
    []<>~request \/ <>[](style = "failed") \/ <>[](\E id \in DOMAIN tiles : IsExhausted(id))

(* "Completeness doesn't mean that the tile can be rendered, but merely that we have exhausted    *)
(* all options" (tile.hpp), so that a tile that cannot be loaded holds up no image: every request *)
(* is answered, unless there will never be a style.                                               *)
StillAnsweredWithoutTile == []<>~request \/ <>[](style = "failed")
=============================================================================
