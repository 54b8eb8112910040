---------------------------- MODULE GeometryTile ----------------------------
(***************************************************************************)
(* GeometryTile (src/mbgl/tile/geometry_tile.cpp), on the map's thread, and *)
(* the GeometryTileWorker (geometry_tile_worker.cpp) that parses for it on  *)
(* a thread of the pool.  Both are actors: they share nothing but two FIFO  *)
(* mailboxes (module Mailbox), and each handler is one step.                *)
(*                                                                          *)
(* The tile's data and layers are named by the correlation ID of the call   *)
(* that set them, 0 for none.  What parsing makes of them - the glyphs and  *)
(* images it needs, whether layouts are kept, whether it throws - is fixed  *)
(* by that call, so parsing the same input again gives the same answer.     *)
(***************************************************************************)
EXTENDS Naturals, Sequences, FiniteSets

CONSTANTS
    Glyphs,     \* glyphs, one per glyph range
    Images,
    Parses,     \* what parsing may give: records of ParseKind
    MaxOps,     \* how often the tile is changed (bound)
    None        \* no parse result, no image request, no dependencies

ParseKind == [glyphs : SUBSET Glyphs, images : SUBSET Images, layouts : BOOLEAN, throws : BOOLEAN]

(* A parse result, named by the calls that set its data and layers, and what it needs. *)
ParseResult ==
    [data : 1..MaxOps, layers : 1..MaxOps, needs : SUBSET (Glyphs \cup Images), whole : BOOLEAN]

(* A glyph or an image is only asked for by a layout that is kept until it is there. *)
ASSUME GeometryTileAssumption ==
    /\ Glyphs \cap Images = {}
    /\ None \notin Glyphs \cup Images /\ None \notin ParseResult
    /\ None \notin [images : SUBSET Images, id : Nat] /\ \A wanted \in SUBSET Glyphs : wanted # None
    /\ Parses \subseteq ParseKind
    /\ \A p \in Parses : p.glyphs \cup p.images # {} => p.layouts
    /\ MaxOps \in Nat

VARIABLES
    tile,       \* record: the members of GeometryTile
    worker,     \* record: the members of GeometryTileWorker
    workerBox,  \* the worker's mailbox
    tileBox,    \* the tile's mailbox
    glyphs,     \* the GlyphManager: the ranges it has, and who waits for the others
    images      \* the ImageManager: the tile's last request, or None

vars == <<tile, worker, workerBox, tileBox, glyphs, images>>

Init ==
    /\ tile = [correlationID |-> 0, pending |-> FALSE, loaded |-> FALSE, boxes |-> FALSE,
               data |-> 0, layers |-> 0, failed |-> FALSE,
               shown |-> [data |-> 0, layers |-> 0, boxes |-> FALSE]]
    /\ worker = [state |-> "Idle", correlationID |-> 0, imageCorrelationID |-> 0,
                 data |-> 0, layers |-> 0, boxes |-> FALSE, contents |-> None,
                 layouts |-> FALSE, result |-> None, pendingGlyphs |-> {}, askedGlyphs |-> FALSE,
                 pendingImages |-> {}, glyphMap |-> {}, imageMap |-> {}, threw |-> FALSE]
    /\ workerBox = <<>>
    /\ tileBox = <<>>
    /\ glyphs = [parsed |-> {}, requestors |-> [g \in Glyphs |-> None]]
    /\ images = None

----------------------------------------------------------------------------
(***************************************************************************)
(* The worker.  An outcome says what a handler leaves behind: the worker's  *)
(* members, the messages to the tile, whether it has self-sent "coalesced"  *)
(* and whether it has thrown.                                               *)
(***************************************************************************)
Outcome(w, sent) == [w |-> w, sent |-> sent, coalesced |-> FALSE, threw |-> FALSE]

HasPendingGlyphs(w) == w.pendingGlyphs # {}  \* fault: images are not waited for
HasPendingDependencies(w) == w.pendingGlyphs # {} \/ w.pendingImages # {}

OnLayout(w) ==
    [type |-> "onLayout", id |-> w.correlationID, data |-> w.result.data, layers |-> w.result.layers,
     boxes |-> w.boxes, whole |-> w.result.whole,
     lacking |-> w.result.needs \ (w.glyphMap \cup w.imageMap)]

FinalizeLayout(w) ==
    IF w.data = 0 \/ w.layers = 0 \/ w.result = None \/ HasPendingDependencies(w)
    THEN Outcome(w, <<>>)
    ELSE Outcome([w EXCEPT !.layouts = FALSE, !.result = None], <<OnLayout(w)>>)

(* pendingGlyphDependencies keeps its entries when their sets run empty: once there is one, *)
(* every parse asks the tile for glyphs.                                                    *)
RequestNewGlyphs(w) ==
    LET missing == w.contents.glyphs \ w.glyphMap
        w2 == [w EXCEPT !.pendingGlyphs = @ \cup missing, !.askedGlyphs = @ \/ missing # {}]
    IN  Outcome(w2, IF w2.askedGlyphs
                    THEN <<[type |-> "getGlyphs", glyphs |-> w2.pendingGlyphs]>> ELSE <<>>)

RequestNewImages(w) ==
    LET w2 == [w EXCEPT !.pendingImages = w.contents.images,
                        !.imageCorrelationID = @ + (IF w.contents.images = {} THEN 0 ELSE 1)]
    IN  Outcome(w2, IF w2.pendingImages = {} THEN <<>>
                    ELSE <<[type |-> "getImages", images |-> w2.pendingImages,
                            id |-> w2.imageCorrelationID]>>)

(* An exception leaves the layouts made so far and a featureIndex, but requests nothing: the *)
(* result is not "whole".                                                                    *)
Parse(w) ==
    IF w.data = 0 \/ w.layers = 0 THEN Outcome(w, <<>>)
    ELSE LET begun == [w EXCEPT !.layouts = w.contents.layouts,
                                !.result = [data |-> w.data, layers |-> w.layers,
                                            needs |-> w.contents.glyphs \cup w.contents.images,
                                            whole |-> ~w.contents.throws]]
             asked == RequestNewGlyphs(begun)
             asked2 == RequestNewImages(asked.w)
             laidOut == FinalizeLayout(asked2.w)
         IN  IF w.contents.throws
             THEN [Outcome(begun, <<>>) EXCEPT !.threw = TRUE]
             ELSE Outcome(laidOut.w, asked.sent \o asked2.sent \o laidOut.sent)

(* Fault: nothing brings the worker back. *)
CoalesceSilently(o) == IF o.threw THEN o ELSE [o EXCEPT !.w.state = "Coalescing"]

(* coalesce() after parse() or finalizeLayout(), unless that has thrown. *)
Coalesce(o) ==
    IF o.threw THEN o ELSE [o EXCEPT !.w.state = "Coalescing", !.coalesced = TRUE]

SymbolDependenciesIgnored(w) == Outcome(w, <<>>)  \* fault: what arrived is not used
SymbolDependenciesChanged(w) ==
    IF w.state = "Idle" /\ w.layouts THEN Coalesce(FinalizeLayout(w))
    ELSE IF w.state = "Coalescing" /\ w.layouts
    THEN Outcome([w EXCEPT !.state = "NeedsSymbolLayout"], <<>>)
    ELSE Outcome(w, <<>>)

(* Fault: a set message that finds the worker busy is only remembered. *)
ParseOrForget(w) == IF w.state = "Idle" THEN Coalesce(Parse(w)) ELSE Outcome(w, <<>>)

(* A set message: parse at once when idle, otherwise when "coalesced" comes back. *)
ParseOrPostpone(w) ==
    IF w.state = "Idle" THEN Coalesce(Parse(w)) ELSE Outcome([w EXCEPT !.state = "NeedsParse"], <<>>)

(* The worker has taken its next message, of the given type. *)
Takes(type) == workerBox # <<>> /\ Head(workerBox).type = type

(* ... and its handler ends with this outcome.  What it throws becomes an onError.  "threw" is *)
(* history.                                                                                    *)
Ends(outcome) ==
    \E o \in {outcome} :
        /\ worker' = [o.w EXCEPT !.threw = @ \/ o.threw]
        /\ tileBox' = tileBox \o o.sent \o
                        (IF o.threw THEN <<[type |-> "onError", id |-> o.w.correlationID]>> ELSE <<>>)
        /\ workerBox' = Tail(workerBox) \o (IF o.coalesced THEN <<[type |-> "coalesced"]>> ELSE <<>>)
        /\ UNCHANGED <<tile, glyphs, images>>

WorkerSetData ==
    /\ Takes("setData")
    /\ LET m == Head(workerBox)
       IN  Ends(ParseOrPostpone([worker EXCEPT !.data = m.id, !.contents = m.contents,
                                               !.correlationID = m.id]))

WorkerSetLayers ==
    /\ Takes("setLayers")
    /\ LET m == Head(workerBox)
       IN  Ends(ParseOrPostpone([worker EXCEPT !.layers = m.id, !.contents = m.contents,
                                               !.correlationID = m.id]))

WorkerSetShowCollisionBoxes ==
    /\ Takes("setShowCollisionBoxes")
    /\ LET m == Head(workerBox)
           w == [worker EXCEPT !.boxes = m.boxes, !.correlationID = m.id]
       IN  Ends(IF w.state = "Idle" /\ w.result = None THEN Coalesce(Parse(w))
                ELSE IF w.state = "Coalescing"
                THEN Outcome([w EXCEPT !.state = "NeedsSymbolLayout"], <<>>)
                ELSE Outcome(w, <<>>))

WorkerOnGlyphsAvailable ==
    /\ Takes("onGlyphsAvailable")
    /\ LET new == Head(workerBox).glyphs \cap worker.pendingGlyphs
       IN  Ends(SymbolDependenciesChanged([worker EXCEPT !.pendingGlyphs = @ \ new,
                                                         !.glyphMap = @ \cup new]))

WorkerOnImagesAvailable ==
    /\ Takes("onImagesAvailable")
    /\ LET m == Head(workerBox)
       IN  Ends(IF m.id = worker.imageCorrelationID
                THEN SymbolDependenciesChanged([worker EXCEPT !.imageMap = m.images,
                                                              !.pendingImages = {}])
                ELSE Outcome(worker, <<>>))

(* Fault: finding nothing to do, the worker asks for another layout instead of going idle. *)
WorkerCoalescesAgain ==
    /\ Takes("coalesced")
    /\ LET next == IF worker.state = "Coalescing" THEN "NeedsSymbolLayout" ELSE "Coalescing"
       IN  Ends([Outcome([worker EXCEPT !.state = next], <<>>) EXCEPT !.coalesced = TRUE])

(* In [Idle] the code asserts: "coalesced" never arrives there (CoalescedInFlight). *)
WorkerCoalesced ==
    /\ Takes("coalesced")
    /\ \/ /\ worker.state = "Coalescing"
          /\ Ends(Outcome([worker EXCEPT !.state = "Idle"], <<>>))
       \/ /\ \/ worker.state = "NeedsParse"
             \/ worker.state = "NeedsSymbolLayout" /\ worker.result = None
          /\ Ends(Coalesce(Parse(worker)))
       \/ /\ worker.state = "NeedsSymbolLayout" /\ worker.result # None
          /\ Ends(Coalesce(FinalizeLayout(worker)))

WorkerStep ==
    \/ WorkerSetData \/ WorkerSetLayers \/ WorkerSetShowCollisionBoxes
    \/ WorkerOnGlyphsAvailable \/ WorkerOnImagesAvailable \/ WorkerCoalesced

----------------------------------------------------------------------------
(***************************************************************************)
(* The tile.  "failed" is history: the tile's last data and layers have     *)
(* been reported to the observer as an error.                               *)
(***************************************************************************)
Changed == tile.correlationID + 1
MayChange == tile.correlationID < MaxOps

ToWorker(m) == workerBox' = Append(workerBox, m)

SetData ==
    /\ MayChange
    /\ tile' = [tile EXCEPT !.correlationID = Changed, !.pending = TRUE, !.failed = FALSE,
                            !.data = Changed]
    /\ \E p \in Parses : ToWorker([type |-> "setData", id |-> Changed, contents |-> p])
    /\ UNCHANGED <<worker, tileBox, glyphs, images>>

SetLayers ==
    /\ MayChange
    /\ tile' = [tile EXCEPT !.correlationID = Changed, !.pending = TRUE, !.failed = FALSE,
                            !.layers = Changed]
    /\ \E p \in Parses : ToWorker([type |-> "setLayers", id |-> Changed, contents |-> p])
    /\ UNCHANGED <<worker, tileBox, glyphs, images>>

SetShowCollisionBoxes ==
    /\ MayChange
    /\ tile' = [tile EXCEPT !.correlationID = Changed, !.boxes = ~@]
    /\ ToWorker([type |-> "setShowCollisionBoxes", id |-> Changed, boxes |-> ~tile.boxes])
    /\ UNCHANGED <<worker, tileBox, glyphs, images>>

(* The tile has taken its next message, of the given type. *)
TileTakes(type) ==
    /\ tileBox # <<>>
    /\ Head(tileBox).type = type
    /\ tileBox' = Tail(tileBox)

(* A result only completes the tile when it comes from its last operation. *)
DonePending(m) == FALSE  \* fault: any result does
StillPending(m) == tile.pending /\ m.id # tile.correlationID

TileOnLayout ==
    /\ TileTakes("onLayout")
    /\ LET m == Head(tileBox)
       IN  tile' = [tile EXCEPT !.loaded = TRUE, !.pending = StillPending(m),
                                !.shown = [data |-> m.data, layers |-> m.layers, boxes |-> m.boxes]]
    /\ UNCHANGED <<worker, workerBox, glyphs, images>>

TileOnError ==
    /\ TileTakes("onError")
    /\ LET m == Head(tileBox)
       IN  tile' = [tile EXCEPT !.loaded = TRUE, !.pending = StillPending(m),
                                !.failed = @ \/ m.id = tile.correlationID]
    /\ UNCHANGED <<worker, workerBox, glyphs, images>>

(* The TileLoader could not get the tile. *)
SetError ==
    /\ tile' = [tile EXCEPT !.loaded = TRUE]
    /\ UNCHANGED <<worker, workerBox, tileBox, glyphs, images>>

(* GlyphManager::getGlyphs: answered at once when nothing is missing, otherwise the request    *)
(* replaces the tile's earlier one in every range it still needs.                              *)
TileGetGlyphs ==
    /\ TileTakes("getGlyphs")
    /\ LET wanted == Head(tileBox).glyphs
           missing == wanted \ glyphs.parsed
       IN  /\ IF missing = {}
              THEN ToWorker([type |-> "onGlyphsAvailable", glyphs |-> wanted])
              ELSE UNCHANGED workerBox
           /\ glyphs' = [glyphs EXCEPT !.requestors =
                           [g \in Glyphs |-> IF g \in missing THEN wanted ELSE @[g]]]
    /\ UNCHANGED <<tile, worker, images>>

(* GlyphManager::processResponse: notify when this was the last range of the request. *)
GlyphRangeParsed(g) ==
    /\ glyphs.requestors[g] # None
    /\ LET wanted == glyphs.requestors[g]
       IN  IF \A h \in Glyphs \ {g} : glyphs.requestors[h] # wanted
           THEN ToWorker([type |-> "onGlyphsAvailable", glyphs |-> wanted])
           ELSE UNCHANGED workerBox
    /\ glyphs' = [glyphs EXCEPT !.parsed = @ \cup {g}, !.requestors[g] = None]
    /\ UNCHANGED <<tile, worker, tileBox, images>>

(* ImageManager::getImages: the tile's earlier request is removed. *)
TileGetImages ==
    /\ TileTakes("getImages")
    /\ images' = [images |-> Head(tileBox).images, id |-> Head(tileBox).id]
    /\ UNCHANGED <<tile, worker, workerBox, glyphs>>

(* The images are there, or known to be missing for good. *)
NotifyImages ==
    /\ images # None
    /\ ToWorker([type |-> "onImagesAvailable", images |-> images.images, id |-> images.id])
    /\ images' = None
    /\ UNCHANGED <<tile, worker, tileBox, glyphs>>

TileStep == TileOnLayout \/ TileOnError \/ TileGetGlyphs \/ TileGetImages

Next ==
    \/ SetData \/ SetLayers \/ SetShowCollisionBoxes \/ SetError
    \/ WorkerStep \/ TileStep \/ NotifyImages
    \/ \E g \in Glyphs : GlyphRangeParsed(g)

Spec == Init /\ [][Next]_vars

(* Messages are delivered and requests are answered, in whatever order; nobody has to change  *)
(* the tile.                                                                                  *)
Answer == WorkerStep \/ TileStep \/ NotifyImages \/ \E g \in Glyphs : GlyphRangeParsed(g)

(* Nothing is on its way to or from the worker or the managers. *)
Quiet ==
    /\ workerBox = <<>> /\ tileBox = <<>> /\ images = None
    /\ \A g \in Glyphs : glyphs.requestors[g] = None

(* WF_vars(Answer), written out: every message has a handler, so a step of Answer is enabled  *)
(* exactly when not all is quiet, which TLC evaluates much faster than ENABLED.               *)
Fairness == []<>Quiet \/ []<><<Answer>>_vars

FairSpec == Spec /\ Fairness

----------------------------------------------------------------------------
WorkerMessage ==
    [type : {"setData", "setLayers"}, id : 1..MaxOps, contents : Parses]
    \cup [type : {"setShowCollisionBoxes"}, id : 1..MaxOps, boxes : BOOLEAN]
    \cup [type : {"onGlyphsAvailable"}, glyphs : SUBSET Glyphs]
    \cup [type : {"onImagesAvailable"}, images : SUBSET Images, id : Nat]
    \cup [type : {"coalesced"}]

TileMessage ==
    [type : {"onLayout"}, id : 1..MaxOps, data : 1..MaxOps, layers : 1..MaxOps, boxes : BOOLEAN,
     whole : BOOLEAN, lacking : SUBSET (Glyphs \cup Images)]
    \cup [type : {"onError"}, id : 1..MaxOps]
    \cup [type : {"getGlyphs"}, glyphs : SUBSET Glyphs]
    \cup [type : {"getImages"}, images : SUBSET Images, id : Nat]

(* Types of the variables. *)
TypeOK ==
    /\ tile \in [correlationID : 0..MaxOps, pending : BOOLEAN, loaded : BOOLEAN, boxes : BOOLEAN,
                 data : 0..MaxOps, layers : 0..MaxOps, failed : BOOLEAN,
                 shown : [data : 0..MaxOps, layers : 0..MaxOps, boxes : BOOLEAN]]
    /\ worker \in [state : {"Idle", "Coalescing", "NeedsParse", "NeedsSymbolLayout"},
                   correlationID : 0..MaxOps, imageCorrelationID : Nat,
                   data : 0..MaxOps, layers : 0..MaxOps, boxes : BOOLEAN,
                   contents : Parses \cup {None}, layouts : BOOLEAN,
                   result : ParseResult \cup {None},
                   pendingGlyphs : SUBSET Glyphs, askedGlyphs : BOOLEAN, pendingImages : SUBSET Images,
                   glyphMap : SUBSET Glyphs, imageMap : SUBSET Images, threw : BOOLEAN]
    /\ \A i \in 1..Len(workerBox) : workerBox[i] \in WorkerMessage
    /\ \A i \in 1..Len(tileBox) : tileBox[i] \in TileMessage
    /\ glyphs \in [parsed : SUBSET Glyphs, requestors : [Glyphs -> (SUBSET Glyphs) \cup {None}]]
    /\ images \in [images : SUBSET Images, id : Nat] \cup {None}

(* The transition diagram, until parsing throws: the worker is out of [Idle] exactly while its *)
(* "coalesced" is on the way back to it.  One missing and the worker never parses again; one   *)
(* too many and it meets the assert(false) of coalesced() in [Idle].                           *)
CoalescedInFlight ==
    ~worker.threw =>
        Cardinality({i \in 1..Len(workerBox) : workerBox[i].type = "coalesced"}) =
            (IF worker.state = "Idle" THEN 0 ELSE 1)

(* "The tile will be flagged as non-pending only when the placement coming from the last       *)
(* operation occurs": a tile that is not pending shows its last data and layers, whatever      *)
(* results of earlier operations came in between, or has reported an error for them.           *)
LatestWhenComplete ==
    ~tile.pending /\ tile.data + tile.layers # 0 =>
        \/ tile.failed
        \/ tile.shown.data = tile.data /\ tile.shown.layers = tile.layers

(* "Previous image request replies are ignored as they result in incomplete placement          *)
(* attempts": every layout sent to the tile was made with all the glyphs and images it needs,  *)
(* unless it is what an exception has left of a parse, which has asked for none of them.       *)
LaidOutWithDependencies ==
    \A i \in 1..Len(tileBox) :
        tileBox[i].type = "onLayout" /\ tileBox[i].whole => tileBox[i].lacking = {}

(* "Trigger parse if nothing is in flight, otherwise symbol layout will automatically pick up   *)
(* the change": in [Idle] a parse result waits for a dependency, and for layouts that the      *)
(* arrival of it will finish; and there are no layouts without a result, as the code asserts.  *)
(* Both hold until parsing throws.                                                             *)
ResultInFlight ==
    worker.state = "Idle" /\ ~worker.threw =>
        /\ worker.result # None => worker.layouts /\ HasPendingDependencies(worker)
        /\ worker.layouts => worker.result # None

(* No tile is left pending: when all is quiet, a tile that has data and layers is complete, and *)
(* shows collision boxes when they are on - unless parsing has thrown.                          *)
NothingLeftPending ==
    Quiet /\ ~worker.threw /\ tile.data # 0 /\ tile.layers # 0 =>
        ~tile.pending /\ (tile.failed \/ tile.shown.boxes = tile.boxes)

(* Tile and worker settle: they do not keep each other, or the worker itself, busy for ever. *)
Settles == <>[]Quiet
============================================================================
