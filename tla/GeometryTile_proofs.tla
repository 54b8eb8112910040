------------------------ MODULE GeometryTile_proofs ------------------------
(***************************************************************************)
(* Proofs about a tile and its worker, for any glyphs, images, number of    *)
(* changes and outcomes of parsing, exceptions included.                    *)
(***************************************************************************)
EXTENDS GeometryTile, SequenceFacts

SetTypes == {"setData", "setLayers", "setShowCollisionBoxes"}
ResultTypes == {"onLayout", "onError"}

(* TypeOK, and the mailboxes are sequences. *)
TypeInv == TypeOK /\ workerBox \in Seq(WorkerMessage) /\ tileBox \in Seq(TileMessage)

(* The operations reach the worker in their order: the ones in its mailbox are newer than what *)
(* it has seen, and what it does not have of the tile's contents is among them.                *)
OperationsInOrder ==
    /\ \A i \in 1..Len(workerBox) :
         LET m == workerBox[i]
         IN  /\ m.type \in SetTypes => worker.correlationID < m.id /\ m.id <= tile.correlationID
             /\ m.type = "setData" => m.id <= tile.data
             /\ m.type = "setLayers" => m.id <= tile.layers
    /\ \A i, j \in 1..Len(workerBox) :
         i < j /\ workerBox[i].type \in SetTypes /\ workerBox[j].type \in SetTypes
            => workerBox[i].id < workerBox[j].id
    /\ worker.correlationID <= tile.correlationID
    /\ worker.data <= worker.correlationID /\ worker.layers <= worker.correlationID
    /\ tile.data <= tile.correlationID /\ tile.layers <= tile.correlationID
    /\ \/ worker.data = tile.data
       \/ \E i \in 1..Len(workerBox) : workerBox[i].type = "setData" /\ workerBox[i].id = tile.data
    /\ \/ worker.layers = tile.layers
       \/ \E i \in 1..Len(workerBox) : workerBox[i].type = "setLayers" /\ workerBox[i].id = tile.layers

(* Results reach the tile in the order of their operations, and the ones of the worker's last  *)
(* operation show its contents.                                                                *)
ResultsInOrder ==
    /\ \A i \in 1..Len(tileBox) :
         LET m == tileBox[i]
         IN  /\ m.type \in ResultTypes => m.id <= worker.correlationID
             /\ m.type = "onLayout" /\ m.id = worker.correlationID
                  => m.data = worker.data /\ m.layers = worker.layers
    /\ \A i, j \in 1..Len(tileBox) :
         i < j /\ tileBox[i].type \in ResultTypes /\ tileBox[j].type \in ResultTypes
            => tileBox[i].id <= tileBox[j].id

(* A parse result is one of the worker's contents, unless these have changed since. *)
Contents(w) ==
    /\ w.result # None => w.data # 0 /\ w.layers # 0
    /\ w.data # 0 \/ w.layers # 0 => w.contents \in Parses /\ w.correlationID # 0
Fresh(w) == w.result # None => w.result.data = w.data /\ w.result.layers = w.layers
Current(w) == Contents(w) /\ (w.state # "NeedsParse" => Fresh(w))

(* A tile that is not pending and its worker have the same contents, and so has every layout   *)
(* on its way.                                                                                 *)
Complete ==
    ~tile.pending =>
        /\ worker.data = tile.data /\ worker.layers = tile.layers
        /\ \A i \in 1..Len(tileBox) : tileBox[i].type = "onLayout" =>
             tileBox[i].data = tile.data /\ tileBox[i].layers = tile.layers
        /\ tile.data + tile.layers # 0 =>
             tile.failed \/ (tile.shown.data = tile.data /\ tile.shown.layers = tile.layers)

(* What a whole parse result needs is there or waited for. *)
Asked(w) ==
    w.result # None /\ w.result.whole =>
        /\ w.result.needs \cap Glyphs \subseteq w.glyphMap \cup w.pendingGlyphs
        /\ w.result.needs \cap Images \subseteq w.imageMap \cup w.pendingImages

(* An image request or reply with the worker's last ID is about all that its result needs. *)
Suits(m, w) ==
    /\ m.id <= w.imageCorrelationID
    /\ m.id = w.imageCorrelationID /\ w.result # None /\ w.result.whole =>
         w.result.needs \cap Images \subseteq m.images

ImagesSuit ==
    /\ \A i \in 1..Len(tileBox) : tileBox[i].type = "getImages" => Suits(tileBox[i], worker)
    /\ images # None => Suits(images, worker)
    /\ \A i \in 1..Len(workerBox) :
         workerBox[i].type = "onImagesAvailable" => Suits(workerBox[i], worker)

IInv ==
    /\ TypeInv /\ OperationsInOrder /\ ResultsInOrder /\ Current(worker) /\ Complete
    /\ Asked(worker) /\ ImagesSuit /\ CoalescedInFlight /\ LaidOutWithDependencies

----------------------------------------------------------------------------
(* The messages by their types. *)
LEMMA WorkerMessageFacts ==
    ASSUME NEW m \in WorkerMessage
    PROVE  /\ m.type \in SetTypes => m.id \in 1..MaxOps
           /\ m.type = "setData" \/ m.type = "setLayers" => m.contents \in Parses
           /\ m.type = "setShowCollisionBoxes" => m.boxes \in BOOLEAN
           /\ m.type = "onGlyphsAvailable" => m.glyphs \subseteq Glyphs
           /\ m.type = "onImagesAvailable" => m.images \subseteq Images /\ m.id \in Nat
BY DEF WorkerMessage, SetTypes

LEMMA TileMessageFacts ==
    ASSUME NEW m \in TileMessage
    PROVE  /\ m.type \in ResultTypes => m.id \in 1..MaxOps
           /\ m.type = "onLayout" => /\ m.data \in 1..MaxOps /\ m.layers \in 1..MaxOps
                                     /\ m.boxes \in BOOLEAN /\ m.whole \in BOOLEAN
                                     /\ m.lacking \subseteq Glyphs \cup Images
           /\ m.type = "getGlyphs" => m.glyphs \subseteq Glyphs
           /\ m.type = "getImages" => m.images \subseteq Images /\ m.id \in Nat
BY DEF TileMessage, ResultTypes

----------------------------------------------------------------------------
(* The worker's members. *)
WorkerType ==
    [state : {"Idle", "Coalescing", "NeedsParse", "NeedsSymbolLayout"},
     correlationID : 0..MaxOps, imageCorrelationID : Nat,
     data : 0..MaxOps, layers : 0..MaxOps, boxes : BOOLEAN,
     contents : Parses \cup {None}, layouts : BOOLEAN, result : ParseResult \cup {None},
     pendingGlyphs : SUBSET Glyphs, askedGlyphs : BOOLEAN, pendingImages : SUBSET Images,
     glyphMap : SUBSET Glyphs, imageMap : SUBSET Images, threw : BOOLEAN]

TileType ==
    [correlationID : 0..MaxOps, pending : BOOLEAN, loaded : BOOLEAN, boxes : BOOLEAN,
     data : 0..MaxOps, layers : 0..MaxOps, failed : BOOLEAN,
     shown : [data : 0..MaxOps, layers : 0..MaxOps, boxes : BOOLEAN]]
GlyphsType == [parsed : SUBSET Glyphs, requestors : [Glyphs -> (SUBSET Glyphs) \cup {None}]]
ImagesType == [images : SUBSET Images, id : Nat] \cup {None}

Types ==
    /\ tile \in TileType /\ worker \in WorkerType /\ glyphs \in GlyphsType /\ images \in ImagesType
    /\ workerBox \in Seq(WorkerMessage) /\ tileBox \in Seq(TileMessage)

LEMMA TypesOK == TypeInv <=> Types
<1>1. ASSUME workerBox \in Seq(WorkerMessage), tileBox \in Seq(TileMessage)
      PROVE  /\ \A i \in 1..Len(workerBox) : workerBox[i] \in WorkerMessage
             /\ \A i \in 1..Len(tileBox) : tileBox[i] \in TileMessage
    BY <1>1
<1> QED BY <1>1 DEF TypeInv, TypeOK, Types, TileType, WorkerType, ParseResult, GlyphsType, ImagesType

LEMMA TypesOKNext == TypeInv' <=> Types'
BY TypesOK, PTL

LEMMA TileNumbers ==
    ASSUME tile \in TileType
    PROVE  /\ tile.correlationID \in Nat /\ tile.data \in Nat /\ tile.layers \in Nat
           /\ tile.correlationID <= MaxOps
BY GeometryTileAssumption DEF TileType

LEMMA WorkerNumbers ==
    ASSUME NEW w \in WorkerType
    PROVE  /\ w.correlationID \in Nat /\ w.data \in Nat /\ w.layers \in Nat
           /\ w.imageCorrelationID \in Nat
BY GeometryTileAssumption DEF WorkerType

(* What a handler's work on w leaves of it as v, and what it sends.  *)
Keeps(v, w) ==
    /\ v \in WorkerType
    /\ v.state = w.state /\ v.correlationID = w.correlationID /\ v.data = w.data /\ v.layers = w.layers
    /\ v.contents = w.contents /\ v.threw = w.threw

ImagesKept(v, w) ==
    /\ w.imageCorrelationID <= v.imageCorrelationID
    /\ v.imageCorrelationID = w.imageCorrelationID /\ v.result # None /\ v.result.whole =>
         v.result.needs \cap Images = {} \/ v.result = w.result

(* What may be sent to the tile by a worker that is left as v. *)
Sendable(m, v) ==
    /\ m \in TileMessage
    /\ m.type \in ResultTypes => m.id = v.correlationID
    /\ m.type = "onLayout" => /\ m.data = v.data /\ m.layers = v.layers
                              /\ m.whole => m.lacking = {}
    /\ m.type = "getImages" => Suits(m, v)
Sends(s, v) == s \in Seq(TileMessage) /\ \A i \in 1..Len(s) : Sendable(s[i], v)

OutcomeType ==
    [w : WorkerType, sent : Seq(TileMessage), coalesced : BOOLEAN, threw : BOOLEAN]

Sound(o, w) ==
    /\ o \in OutcomeType /\ o.coalesced = FALSE /\ (o.threw => o.w.data # 0)
    /\ Keeps(o.w, w) /\ ImagesKept(o.w, w) /\ Contents(o.w) /\ Fresh(o.w) /\ Asked(o.w)
    /\ Sends(o.sent, o.w)

LEMMA FinalizeSound ==
    ASSUME NEW w \in WorkerType, Contents(w), Fresh(w), Asked(w)
    PROVE  Sound(FinalizeLayout(w), w) /\ ~FinalizeLayout(w).threw
<1>1. CASE w.data = 0 \/ w.layers = 0 \/ w.result = None \/ HasPendingDependencies(w)
    <2>1. FinalizeLayout(w) = [w |-> w, sent |-> <<>>, coalesced |-> FALSE, threw |-> FALSE]
        BY <1>1 DEF FinalizeLayout, Outcome
    <2>2. Keeps(w, w) /\ ImagesKept(w, w)
        BY DEF Keeps, ImagesKept, WorkerType
    <2>3. Sends(<<>>, w)
        BY DEF Sends
    <2> QED BY <2>1, <2>2, <2>3 DEF Sound, OutcomeType, Keeps, Sends
<1>2. CASE ~(w.data = 0 \/ w.layers = 0 \/ w.result = None \/ HasPendingDependencies(w))
    <2> DEFINE v == [w EXCEPT !.layouts = FALSE, !.result = None]
    <2>1. FinalizeLayout(w) = [w |-> v, sent |-> <<OnLayout(w)>>, coalesced |-> FALSE, threw |-> FALSE]
        BY <1>2 DEF FinalizeLayout, Outcome
    <2>2. v \in WorkerType /\ v.result = None
        BY DEF WorkerType
    <2>3. Keeps(v, w) /\ v.imageCorrelationID = w.imageCorrelationID /\ w.imageCorrelationID \in Nat
        BY <2>2 DEF Keeps, WorkerType
    <2>4. w.result \in ParseResult
        BY <1>2 DEF WorkerType
    <2>5. OnLayout(w) \in TileMessage
        BY <1>2, <2>4 DEF OnLayout, TileMessage, WorkerType, ParseResult, Contents
    <2>6. w.result.whole => w.result.needs \subseteq w.glyphMap \cup w.imageMap
        BY <1>2, <2>4 DEF Asked, HasPendingDependencies, ParseResult
    <2>7. Sendable(OnLayout(w), v)
        BY <1>2, <2>3, <2>5, <2>6 DEF Sendable, OnLayout, Keeps, Fresh
    <2>8. Sends(<<OnLayout(w)>>, v)
        BY <2>5, <2>7 DEF Sends
    <2>9. Contents(v) /\ Fresh(v) /\ Asked(v) /\ ImagesKept(v, w)
        BY <2>2, <2>3 DEF Contents, Fresh, Asked, ImagesKept, Keeps
    <2> HIDE DEF v
    <2> QED BY <2>1, <2>3, <2>8, <2>9 DEF Sound, OutcomeType, Keeps, Sends
<1> QED BY <1>1, <1>2

(* What is asked for suits the parse result that needs it. *)
LEMMA GlyphsSound ==
    ASSUME NEW w \in WorkerType, w.contents \in Parses
    PROVE  LET o == RequestNewGlyphs(w)
           IN  /\ Keeps(o.w, w) /\ o.w.imageCorrelationID = w.imageCorrelationID
               /\ o.w.result = w.result /\ o.w.imageMap = w.imageMap /\ o.w.glyphMap = w.glyphMap
               /\ w.contents.glyphs \subseteq w.glyphMap \cup o.w.pendingGlyphs
               /\ o.sent \in Seq(TileMessage)
               /\ \A i \in 1..Len(o.sent) : o.sent[i].type = "getGlyphs"
<1> DEFINE missing == w.contents.glyphs \ w.glyphMap
           v == [w EXCEPT !.pendingGlyphs = @ \cup missing, !.askedGlyphs = @ \/ missing # {}]
           m == [type |-> "getGlyphs", glyphs |-> v.pendingGlyphs]
<1>1. RequestNewGlyphs(w) = [w |-> v, sent |-> IF v.askedGlyphs THEN <<m>> ELSE <<>>,
                             coalesced |-> FALSE, threw |-> FALSE]
    BY DEF RequestNewGlyphs, Outcome
<1>2. missing \subseteq Glyphs
    BY GeometryTileAssumption DEF ParseKind
<1>3. /\ v.pendingGlyphs = w.pendingGlyphs \cup missing /\ v.result = w.result
      /\ v.imageMap = w.imageMap /\ v.glyphMap = w.glyphMap
      /\ v.imageCorrelationID = w.imageCorrelationID /\ v.state = w.state
      /\ v.correlationID = w.correlationID /\ v.data = w.data /\ v.layers = w.layers
      /\ v.contents = w.contents /\ v.threw = w.threw
    BY DEF WorkerType
<1>4. v \in WorkerType
    <2>1. w.pendingGlyphs \cup missing \subseteq Glyphs
        BY <1>2 DEF WorkerType
    <2> HIDE DEF missing
    <2> QED BY <2>1 DEF WorkerType
<1>5. m \in TileMessage /\ m.type = "getGlyphs"
    BY <1>4 DEF TileMessage, WorkerType
<1> HIDE DEF v, m
<1>6. <<m>> \in Seq(TileMessage) /\ <<>> \in Seq(TileMessage)
    BY <1>5
<1> QED BY <1>1, <1>3, <1>4, <1>5, <1>6 DEF Keeps

LEMMA ImagesSound ==
    ASSUME NEW w \in WorkerType, w.contents \in Parses
    PROVE  LET o == RequestNewImages(w)
           IN  /\ Keeps(o.w, w)
               /\ o.w.imageCorrelationID =
                     w.imageCorrelationID + (IF w.contents.images = {} THEN 0 ELSE 1)
               /\ o.w.result = w.result /\ o.w.imageMap = w.imageMap /\ o.w.glyphMap = w.glyphMap
               /\ o.w.pendingGlyphs = w.pendingGlyphs /\ o.w.pendingImages = w.contents.images
               /\ o.sent \in Seq(TileMessage)
               /\ \A i \in 1..Len(o.sent) : /\ o.sent[i].type = "getImages"
                                             /\ o.sent[i].images = w.contents.images
                                             /\ o.sent[i].id = o.w.imageCorrelationID
<1> DEFINE v == [w EXCEPT !.pendingImages = w.contents.images,
                          !.imageCorrelationID = @ + (IF w.contents.images = {} THEN 0 ELSE 1)]
           m == [type |-> "getImages", images |-> v.pendingImages, id |-> v.imageCorrelationID]
<1>1. RequestNewImages(w) = [w |-> v, sent |-> IF v.pendingImages = {} THEN <<>> ELSE <<m>>,
                             coalesced |-> FALSE, threw |-> FALSE]
    BY DEF RequestNewImages, Outcome
<1>2. w.contents.images \subseteq Images
    BY GeometryTileAssumption DEF ParseKind
<1>3. /\ v.pendingImages = w.contents.images /\ v.result = w.result
      /\ v.imageMap = w.imageMap /\ v.glyphMap = w.glyphMap /\ v.pendingGlyphs = w.pendingGlyphs
      /\ v.imageCorrelationID = w.imageCorrelationID + (IF w.contents.images = {} THEN 0 ELSE 1)
      /\ v.state = w.state /\ v.correlationID = w.correlationID
      /\ v.data = w.data /\ v.layers = w.layers /\ v.contents = w.contents /\ v.threw = w.threw
    BY DEF WorkerType
<1>4. v \in WorkerType
    <2>1. PICK n \in Nat : n = w.imageCorrelationID + (IF w.contents.images = {} THEN 0 ELSE 1)
        BY DEF WorkerType
    <2>2. PICK s \in SUBSET Images : s = w.contents.images
        BY <1>2
    <2>3. v = [w EXCEPT !.pendingImages = s, !.imageCorrelationID = n]
        BY <2>1, <2>2
    <2> QED BY <2>3 DEF WorkerType
<1>5. /\ m \in TileMessage /\ m.type = "getImages" /\ m.images = w.contents.images
      /\ m.id = v.imageCorrelationID
    BY <1>3, <1>4 DEF TileMessage, WorkerType
<1> HIDE DEF v, m
<1>6. <<m>> \in Seq(TileMessage) /\ <<>> \in Seq(TileMessage)
    BY <1>5
<1> QED BY <1>1, <1>3, <1>4, <1>5, <1>6 DEF Keeps

LEMMA SendsBoth ==
    ASSUME NEW v, NEW s, NEW t, Sends(s, v), Sends(t, v)
    PROVE  Sends(s \o t, v)
<1>1. s \in Seq(TileMessage) /\ t \in Seq(TileMessage)
    BY DEF Sends
<1>2. s \o t \in Seq(TileMessage) /\ Len(s \o t) = Len(s) + Len(t)
    BY <1>1, ConcatFacts
<1>3. ASSUME NEW i \in 1..Len(s \o t) PROVE Sendable((s \o t)[i], v)
    <2>1. CASE i \in 1..Len(s)
        <3>1. (s \o t)[i] = s[i]
            BY <1>1, <2>1, ConcatFacts
        <3> QED BY <2>1, <3>1 DEF Sends
    <2>2. CASE i \notin 1..Len(s)
        <3>1. i - Len(s) \in 1..Len(t) /\ (s \o t)[i] = t[i - Len(s)]
            BY <1>1, <1>2, <2>2, ConcatFacts
        <3> QED BY <3>1 DEF Sends
    <2> QED BY <2>1, <2>2
<1> QED BY <1>2, <1>3 DEF Sends

LEMMA ParseSound ==
    ASSUME NEW w \in WorkerType, Contents(w)
    PROVE  Sound(Parse(w), w)
<1>1. CASE w.data = 0 \/ w.layers = 0
    <2>1. Parse(w) = [w |-> w, sent |-> <<>>, coalesced |-> FALSE, threw |-> FALSE]
        BY <1>1 DEF Parse, Outcome
    <2>2. w.result = None
        BY <1>1 DEF Contents
    <2>3. Keeps(w, w) /\ ImagesKept(w, w) /\ Fresh(w) /\ Asked(w) /\ Sends(<<>>, w)
        BY <2>2 DEF Keeps, ImagesKept, Fresh, Asked, Sends, WorkerType
    <2> QED BY <2>1, <2>3 DEF Sound, OutcomeType, Keeps, Sends
<1>2. CASE ~(w.data = 0 \/ w.layers = 0)
    <2> DEFINE r == [data |-> w.data, layers |-> w.layers,
                     needs |-> w.contents.glyphs \cup w.contents.images,
                     whole |-> ~w.contents.throws]
               b == [w EXCEPT !.layouts = w.contents.layouts, !.result = r]
               o1 == RequestNewGlyphs(b)
               o2 == RequestNewImages(o1.w)
               o3 == FinalizeLayout(o2.w)
               all == o1.sent \o o2.sent \o o3.sent
    <2>1. /\ w.contents.throws => Parse(w) = [Outcome(b, <<>>) EXCEPT !.threw = TRUE]
          /\ ~w.contents.throws => Parse(w) = [w |-> o3.w, sent |-> all, coalesced |-> FALSE, threw |-> FALSE]
        BY <1>2 DEF Parse, Outcome
    <2>2. /\ w.contents \in Parses /\ w.contents \in ParseKind
          /\ w.contents.glyphs \subseteq Glyphs /\ w.contents.images \subseteq Images
          /\ w.contents.layouts \in BOOLEAN /\ w.contents.throws \in BOOLEAN
        BY <1>2, GeometryTileAssumption DEF Contents, ParseKind
    <2>3. /\ r \in ParseResult /\ r.data = w.data /\ r.layers = w.layers
          /\ r.needs \cap Glyphs = w.contents.glyphs /\ r.needs \cap Images = w.contents.images
          /\ r.whole = ~w.contents.throws
        BY <1>2, <2>2, GeometryTileAssumption DEF ParseResult, WorkerType
    <2> HIDE DEF r
    <2>4. /\ b.result = r /\ b.state = w.state /\ b.correlationID = w.correlationID
          /\ b.data = w.data /\ b.layers = w.layers /\ b.contents = w.contents
          /\ b.imageCorrelationID = w.imageCorrelationID /\ b.threw = w.threw
        BY DEF WorkerType
    <2>5. b \in WorkerType
        BY <2>2, <2>3 DEF WorkerType
    <2> HIDE DEF b
    <2>6. Keeps(b, w) /\ Contents(b) /\ Fresh(b) /\ w.imageCorrelationID \in Nat
        BY <1>2, <2>2, <2>3, <2>4, <2>5 DEF Keeps, Contents, Fresh, WorkerType
    <2>7. CASE w.contents.throws
        <3>1. ~b.result.whole
            BY <2>3, <2>4, <2>7, Zenon
        <3>2. ImagesKept(b, w) /\ Asked(b) /\ Sends(<<>>, b)
            BY <2>4, <2>6, <3>1 DEF ImagesKept, Asked, Sends
        <3>3. /\ Parse(w).w = b /\ Parse(w).sent = <<>>
              /\ Parse(w).coalesced = FALSE /\ Parse(w).threw = TRUE
            BY <2>1, <2>7 DEF Outcome
        <3>4. Parse(w) \in OutcomeType
            BY <2>1, <2>6, <2>7, <3>2 DEF Outcome, OutcomeType, Keeps, Sends
        <3> QED BY <1>2, <2>4, <2>6, <3>2, <3>3, <3>4 DEF Sound
    <2>8. CASE ~w.contents.throws
        <3>1. /\ Keeps(o1.w, b) /\ o1.w.imageCorrelationID = b.imageCorrelationID
              /\ o1.w.result = b.result /\ b.contents.glyphs \subseteq o1.w.glyphMap \cup o1.w.pendingGlyphs
              /\ o1.sent \in Seq(TileMessage)
              /\ \A i \in 1..Len(o1.sent) : o1.sent[i].type = "getGlyphs"
            BY <2>2, <2>4, <2>5, GlyphsSound
        <3> HIDE DEF o1
        <3>2. /\ Keeps(o2.w, o1.w)
              /\ o2.w.imageCorrelationID =
                   o1.w.imageCorrelationID + (IF o1.w.contents.images = {} THEN 0 ELSE 1)
              /\ o2.w.result = o1.w.result /\ o2.w.glyphMap = o1.w.glyphMap
              /\ o2.w.pendingGlyphs = o1.w.pendingGlyphs
              /\ o2.w.pendingImages = o1.w.contents.images
              /\ o2.sent \in Seq(TileMessage)
              /\ \A i \in 1..Len(o2.sent) : /\ o2.sent[i].type = "getImages"
                                            /\ o2.sent[i].images = o1.w.contents.images
                                            /\ o2.sent[i].id = o2.w.imageCorrelationID
            <4>1. o1.w \in WorkerType /\ o1.w.contents \in Parses
                BY <2>2, <2>4, <3>1 DEF Keeps
            <4> QED BY <4>1, ImagesSound
        <3> HIDE DEF o2
        <3>3. Keeps(o2.w, w) /\ o2.w.result = r /\ o2.w.pendingImages = w.contents.images
            BY <2>4, <3>1, <3>2 DEF Keeps
        <3>4. Contents(o2.w) /\ Fresh(o2.w)
            BY <2>4, <2>6, <3>1, <3>2 DEF Keeps, Contents, Fresh
        <3>5. Asked(o2.w)
            BY <2>3, <2>4, <3>1, <3>2, <3>3 DEF Asked
        <3>6. Sound(o3, o2.w) /\ ~o3.threw
            <4>1. o2.w \in WorkerType
                BY <3>3 DEF Keeps
            <4> QED BY <4>1, <3>4, <3>5, FinalizeSound
        <3> HIDE DEF o3
        <3>7. o1.w.imageCorrelationID = w.imageCorrelationID /\ o1.w.contents = w.contents
            BY <2>4, <3>1 DEF Keeps
        <3>8. Keeps(o3.w, w) /\ o3.w.imageCorrelationID \in Nat
            BY <3>3, <3>6 DEF Sound, Keeps, WorkerType
        <3>9. ImagesKept(o3.w, w)
            BY <2>3, <2>6, <3>2, <3>3, <3>6, <3>7, <3>8 DEF Sound, ImagesKept
        <3>10. Sends(o1.sent, o3.w)
            BY <3>1 DEF Sends, Sendable, ResultTypes
        <3>11. Sends(o2.sent, o3.w)
            <4>1. ASSUME NEW i \in 1..Len(o2.sent) PROVE Sendable(o2.sent[i], o3.w)
                <5>1. /\ o2.sent[i] \in TileMessage /\ o2.sent[i].type = "getImages"
                      /\ o2.sent[i].images = w.contents.images
                      /\ o2.sent[i].id = o2.w.imageCorrelationID
                    BY <3>2, <3>7
                <5>2. Suits(o2.sent[i], o3.w)
                    BY <2>3, <3>3, <3>6, <5>1 DEF Suits, Sound, ImagesKept
                <5> QED BY <5>1, <5>2 DEF Sendable, ResultTypes
            <4> QED BY <3>2, <4>1 DEF Sends
        <3>12. Sends(all, o3.w)
            <4>1. Sends(o3.sent, o3.w)
                BY <3>6 DEF Sound
            <4>2. Sends(o1.sent \o o2.sent, o3.w)
                BY <3>10, <3>11, SendsBoth
            <4> QED BY <4>1, <4>2, SendsBoth
        <3>13. /\ Parse(w).w = o3.w /\ Parse(w).sent = all
               /\ Parse(w).coalesced = FALSE /\ Parse(w).threw = FALSE
            <4> HIDE DEF all
            <4> QED BY <2>1, <2>8
        <3>14. Parse(w) \in OutcomeType
            <4>1. all \in Seq(TileMessage) /\ o3.w \in WorkerType
                BY <3>8, <3>12 DEF Keeps, Sends
            <4> HIDE DEF all
            <4>2. Parse(w) = [w |-> o3.w, sent |-> all, coalesced |-> FALSE, threw |-> FALSE]
                BY <2>1, <2>8
            <4>3. [w |-> o3.w, sent |-> all, coalesced |-> FALSE, threw |-> FALSE] \in OutcomeType
                BY <4>1 DEF OutcomeType
            <4> QED BY <4>2, <4>3
        <3> QED BY <3>6, <3>8, <3>9, <3>12, <3>13, <3>14 DEF Sound
    <2> QED BY <2>2, <2>7, <2>8
<1> QED BY <1>1, <1>2

----------------------------------------------------------------------------
(* What a handler that has brought the worker to w does then.  *)
Done(o, w) ==
    /\ o \in OutcomeType /\ (o.threw => o.w.correlationID # 0)
    /\ o.w.correlationID = w.correlationID /\ o.w.data = w.data /\ o.w.layers = w.layers
    /\ o.w.threw = w.threw
    /\ Current(o.w) /\ Asked(o.w) /\ ImagesKept(o.w, w) /\ Sends(o.sent, o.w)

(* The worker leaves [Idle] exactly when it sends "coalesced" to itself. *)
Signals(o, w) ==
    /\ o.coalesced => w.state = "Idle"
    /\ ~o.threw => (o.w.state # "Idle" <=> o.coalesced \/ w.state # "Idle")

LEMMA CoalesceDone ==
    ASSUME NEW w \in WorkerType, NEW o, Sound(o, w)
    PROVE  /\ Done(Coalesce(o), w)
           /\ Coalesce(o).coalesced => ~o.threw
           /\ ~Coalesce(o).threw => Coalesce(o).w.state = "Coalescing" /\ Coalesce(o).coalesced
<1> DEFINE v == [o.w EXCEPT !.state = "Coalescing"]
<1>1. o \in OutcomeType /\ o.w \in WorkerType /\ o.w.correlationID = w.correlationID
      /\ (o.threw => o.w.correlationID # 0)
    BY DEF Sound, Keeps, Contents
<1>2. CASE o.threw
    <2>1. Coalesce(o) = o
        BY <1>2 DEF Coalesce
    <2> QED BY <1>1, <1>2, <2>1 DEF Sound, Keeps, Done, Current
<1>3. CASE ~o.threw
    <2>1. /\ Coalesce(o) \in OutcomeType /\ Coalesce(o).w = v /\ Coalesce(o).sent = o.sent
          /\ Coalesce(o).coalesced = TRUE /\ Coalesce(o).threw = FALSE
        <3>1. v \in WorkerType
            BY <1>1 DEF WorkerType
        <3>2. Coalesce(o) = [[o EXCEPT !.w = v] EXCEPT !.coalesced = TRUE]
            BY <1>1, <1>3 DEF Coalesce, OutcomeType
        <3> HIDE DEF v
        <3> QED BY <1>1, <1>3, <3>1, <3>2 DEF OutcomeType
    <2>2. /\ v.state = "Coalescing" /\ v.correlationID = o.w.correlationID
          /\ v.data = o.w.data /\ v.layers = o.w.layers /\ v.contents = o.w.contents /\ v.threw = o.w.threw
          /\ v.result = o.w.result /\ v.imageCorrelationID = o.w.imageCorrelationID
          /\ v.glyphMap = o.w.glyphMap /\ v.pendingGlyphs = o.w.pendingGlyphs
          /\ v.imageMap = o.w.imageMap /\ v.pendingImages = o.w.pendingImages
        BY <1>1 DEF WorkerType
    <2> HIDE DEF v
    <2>3. Current(v) /\ Asked(v) /\ ImagesKept(v, w)
        BY <2>2 DEF Sound, Current, Contents, Fresh, Asked, ImagesKept
    <2>4. Sends(o.sent, v)
        BY <2>2 DEF Sound, Sends, Sendable, Suits
    <2>5. /\ Coalesce(o).w.correlationID = w.correlationID
          /\ Coalesce(o).w.data = w.data /\ Coalesce(o).w.layers = w.layers
          /\ Coalesce(o).w.threw = w.threw
        BY <2>1, <2>2 DEF Sound, Keeps
    <2>6. Done(Coalesce(o), w)
        BY <2>1, <2>3, <2>4, <2>5 DEF Done
    <2> QED BY <1>3, <2>1, <2>2, <2>6
<1> QED BY <1>2, <1>3

LEMMA NothingDone ==
    ASSUME NEW w \in WorkerType, Current(w), Asked(w)
    PROVE  Done(Outcome(w, <<>>), w) /\ Outcome(w, <<>>).w = w
           /\ ~Outcome(w, <<>>).threw /\ ~Outcome(w, <<>>).coalesced
<1>1. /\ Outcome(w, <<>>) \in OutcomeType /\ Outcome(w, <<>>).w = w /\ Outcome(w, <<>>).sent = <<>>
      /\ Outcome(w, <<>>).threw = FALSE /\ Outcome(w, <<>>).coalesced = FALSE
    BY DEF Outcome, OutcomeType
<1>2. ImagesKept(w, w) /\ Sends(<<>>, w)
    BY DEF ImagesKept, Sends, WorkerType
<1> QED BY <1>1, <1>2 DEF Done

(* Another state of the worker. *)
LEMMA StateChanged ==
    ASSUME NEW w \in WorkerType, NEW s \in {"Idle", "Coalescing", "NeedsParse", "NeedsSymbolLayout"}
    PROVE  LET v == [w EXCEPT !.state = s]
           IN  /\ v \in WorkerType /\ v.state = s /\ v.correlationID = w.correlationID
               /\ v.data = w.data /\ v.layers = w.layers /\ v.contents = w.contents /\ v.threw = w.threw
               /\ v.result = w.result /\ v.imageCorrelationID = w.imageCorrelationID
               /\ v.glyphMap = w.glyphMap /\ v.pendingGlyphs = w.pendingGlyphs
               /\ v.imageMap = w.imageMap /\ v.pendingImages = w.pendingImages
BY DEF WorkerType

(* Nothing but the state is changed, and the result is as current as the new state promises. *)
LEMMA StateDone ==
    ASSUME NEW w \in WorkerType, Contents(w), Asked(w),
           NEW s \in {"Idle", "Coalescing", "NeedsParse", "NeedsSymbolLayout"},
           s = "NeedsParse" \/ Fresh(w)
    PROVE  LET o == Outcome([w EXCEPT !.state = s], <<>>)
           IN  Done(o, w) /\ ~o.threw /\ ~o.coalesced /\ o.w.state = s
<1> DEFINE v == [w EXCEPT !.state = s]
           o == Outcome(v, <<>>)
<1>1. /\ v \in WorkerType /\ v.state = s /\ v.correlationID = w.correlationID
      /\ v.data = w.data /\ v.layers = w.layers /\ v.contents = w.contents /\ v.threw = w.threw
      /\ v.result = w.result /\ v.imageCorrelationID = w.imageCorrelationID
      /\ v.glyphMap = w.glyphMap /\ v.pendingGlyphs = w.pendingGlyphs
      /\ v.imageMap = w.imageMap /\ v.pendingImages = w.pendingImages
    BY StateChanged
<1> HIDE DEF v
<1>2. Current(v) /\ Asked(v)
    BY <1>1 DEF Current, Contents, Fresh, Asked
<1>3. Done(o, v) /\ o.w = v /\ ~o.threw /\ ~o.coalesced
    BY <1>1, <1>2, NothingDone
<1>4. Done(o, w)
    BY <1>1, <1>3 DEF Done, ImagesKept
<1> QED BY <1>1, <1>3, <1>4 DEF v

LEMMA ParseOrPostponeDone ==
    ASSUME NEW w \in WorkerType, Contents(w), Asked(w)
    PROVE  Done(ParseOrPostpone(w), w) /\ Signals(ParseOrPostpone(w), w)
<1>1. CASE w.state = "Idle"
    <2>1. Sound(Parse(w), w)
        BY ParseSound
    <2>2. ParseOrPostpone(w) = Coalesce(Parse(w))
        BY <1>1 DEF ParseOrPostpone
    <2> QED BY <1>1, <2>1, <2>2, CoalesceDone DEF Signals
<1>2. CASE w.state # "Idle"
    <2>1. ParseOrPostpone(w) = Outcome([w EXCEPT !.state = "NeedsParse"], <<>>)
        BY <1>2 DEF ParseOrPostpone
    <2> QED BY <1>2, <2>1, StateDone DEF Signals
<1> QED BY <1>1, <1>2

LEMMA SymbolDependenciesDone ==
    ASSUME NEW w \in WorkerType, Current(w), Asked(w)
    PROVE  Done(SymbolDependenciesChanged(w), w) /\ Signals(SymbolDependenciesChanged(w), w)
<1>1. CASE w.state = "Idle" /\ w.layouts
    <2>1. Sound(FinalizeLayout(w), w)
        BY <1>1, FinalizeSound DEF Current
    <2>2. SymbolDependenciesChanged(w) = Coalesce(FinalizeLayout(w))
        BY <1>1 DEF SymbolDependenciesChanged
    <2> QED BY <1>1, <2>1, <2>2, CoalesceDone DEF Signals
<1>2. CASE w.state = "Coalescing" /\ w.layouts
    <2>1. SymbolDependenciesChanged(w) = Outcome([w EXCEPT !.state = "NeedsSymbolLayout"], <<>>)
        BY <1>2 DEF SymbolDependenciesChanged
    <2> QED BY <1>2, <2>1, StateDone DEF Signals, Current
<1>3. CASE ~(w.state = "Idle" /\ w.layouts) /\ ~(w.state = "Coalescing" /\ w.layouts)
    <2>1. SymbolDependenciesChanged(w) = Outcome(w, <<>>)
        BY <1>3 DEF SymbolDependenciesChanged
    <2> QED BY <2>1, NothingDone DEF Signals
<1> QED BY <1>1, <1>2, <1>3

----------------------------------------------------------------------------
(* The tile's mailbox after the worker has sent to it. *)
BoxOK(s, v) ==
    /\ s \in Seq(TileMessage)
    /\ \A i \in 1..Len(s) :
         /\ s[i].type \in ResultTypes => s[i].id <= v.correlationID
         /\ s[i].type = "onLayout" /\ s[i].id = v.correlationID
              => s[i].data = v.data /\ s[i].layers = v.layers
         /\ s[i].type = "onLayout" /\ s[i].whole => s[i].lacking = {}
         /\ s[i].type = "getImages" => Suits(s[i], v)
    /\ \A i, j \in 1..Len(s) :
         i < j /\ s[i].type \in ResultTypes /\ s[j].type \in ResultTypes => s[i].id <= s[j].id

Shows(s, data, layers) ==
    \A i \in 1..Len(s) : s[i].type = "onLayout" => s[i].data = data /\ s[i].layers = layers

LEMMA BoxAppended ==
    ASSUME NEW v \in WorkerType, NEW s, NEW t, BoxOK(s, v), Sends(t, v)
    PROVE  BoxOK(s \o t, v)
<1>1. s \in Seq(TileMessage) /\ t \in Seq(TileMessage)
    BY DEF BoxOK, Sends
<1>2. /\ s \o t \in Seq(TileMessage) /\ Len(s) \in Nat /\ Len(t) \in Nat
      /\ Len(s \o t) = Len(s) + Len(t)
    BY <1>1, ConcatFacts
<1>3. ASSUME NEW i \in 1..Len(s \o t)
      PROVE  \/ i \in 1..Len(s) /\ (s \o t)[i] = s[i]
             \/ i \notin 1..Len(s) /\ Sendable((s \o t)[i], v)
    <2>1. CASE i \in 1..Len(s)
        BY <1>1, <2>1, ConcatFacts
    <2>2. CASE i \notin 1..Len(s)
        <3>1. i - Len(s) \in 1..Len(t) /\ (s \o t)[i] = t[i - Len(s)]
            BY <1>1, <1>2, <2>2, ConcatFacts
        <3> QED BY <2>2, <3>1 DEF Sends
    <2> QED BY <2>1, <2>2
<1> DEFINE u == s \o t
<1>4. v.correlationID \in Nat
    BY GeometryTileAssumption DEF WorkerType
<1> HIDE DEF u
<1>5. \A i \in 1..Len(u) :
         /\ u[i].type \in ResultTypes => u[i].id <= v.correlationID
         /\ u[i].type = "onLayout" /\ u[i].id = v.correlationID
              => u[i].data = v.data /\ u[i].layers = v.layers
         /\ u[i].type = "onLayout" /\ u[i].whole => u[i].lacking = {}
         /\ u[i].type = "getImages" => Suits(u[i], v)
    BY <1>3, <1>4 DEF BoxOK, Sendable, u
<1>6. ASSUME NEW i \in 1..Len(u), NEW j \in 1..Len(u), i < j,
             u[i].type \in ResultTypes, u[j].type \in ResultTypes
      PROVE  u[i].id <= u[j].id
    <2>1. CASE j \in 1..Len(s)
        <3>1. i \in 1..Len(s)
            BY <1>2, <1>6, <2>1 DEF u
        <3> QED BY <1>3, <1>6, <2>1, <3>1 DEF BoxOK, u
    <2>2. CASE j \notin 1..Len(s)
        <3>1. u[j].id = v.correlationID
            BY <1>3, <1>6, <2>2 DEF Sendable, u
        <3> QED BY <1>5, <1>6, <3>1
    <2> QED BY <2>1, <2>2
<1> QED BY <1>2, <1>5, <1>6 DEF BoxOK, u

LEMMA ShowsBoth ==
    ASSUME NEW s \in Seq(TileMessage), NEW t \in Seq(TileMessage), NEW d, NEW l,
           Shows(s, d, l), Shows(t, d, l)
    PROVE  Shows(s \o t, d, l)
<1>1. Len(s \o t) = Len(s) + Len(t)
    BY ConcatFacts
<1>2. ASSUME NEW i \in 1..Len(s \o t), (s \o t)[i].type = "onLayout"
      PROVE  (s \o t)[i].data = d /\ (s \o t)[i].layers = l
    <2>1. CASE i \in 1..Len(s)
        <3>1. (s \o t)[i] = s[i]
            BY <2>1, ConcatFacts
        <3> QED BY <1>2, <2>1, <3>1 DEF Shows
    <2>2. CASE i \notin 1..Len(s)
        <3>1. i - Len(s) \in 1..Len(t) /\ (s \o t)[i] = t[i - Len(s)]
            BY <1>1, <2>2, ConcatFacts
        <3> QED BY <1>2, <3>1 DEF Shows
    <2> QED BY <2>1, <2>2
<1> QED BY <1>2 DEF Shows

(* "coalesced" in a mailbox, as TypeOK and CoalescedInFlight count it. *)
Coalesceds == {m \in WorkerMessage : m.type = "coalesced"}

LEMMA CoalescedCount ==
    ASSUME NEW s \in Seq(WorkerMessage)
    PROVE  Cardinality({i \in 1..Len(s) : s[i].type = "coalesced"}) = Count(s, Coalesceds)
<1>1. \A i \in 1..Len(s) : s[i] \in WorkerMessage
    OBVIOUS
<1>2. {i \in 1..Len(s) : s[i].type = "coalesced"} = Places(s, Coalesceds)
    BY <1>1 DEF Places, Coalesceds
<1> QED BY <1>2 DEF Count

----------------------------------------------------------------------------
(* A handler of the worker has taken m and ends with the outcome o. *)
Handles(m, o) ==
    /\ o \in OutcomeType /\ (o.threw => o.w.correlationID # 0)
    /\ o.w.correlationID = (IF m.type \in SetTypes THEN m.id ELSE worker.correlationID)
    /\ o.w.data = (IF m.type = "setData" THEN m.id ELSE worker.data)
    /\ o.w.layers = (IF m.type = "setLayers" THEN m.id ELSE worker.layers)
    /\ o.w.threw = worker.threw
    /\ Current(o.w) /\ Asked(o.w) /\ ImagesKept(o.w, worker) /\ Sends(o.sent, o.w)
    /\ o.coalesced => worker.state = "Idle" \/ m.type = "coalesced"
    /\ ~o.threw =>
         (o.w.state # "Idle" <=> o.coalesced \/ (worker.state # "Idle" /\ m.type # "coalesced"))

Ticket == [type |-> "coalesced"]

LEMMA HandlerStep ==
    ASSUME IInv, workerBox # <<>>, NEW o, Handles(Head(workerBox), o), Ends(o)
    PROVE  IInv'
<1> DEFINE m == Head(workerBox)
           rest == Tail(workerBox)
           errors == IF o.threw THEN <<[type |-> "onError", id |-> o.w.correlationID]>> ELSE <<>>
<1>1. /\ worker' = [o.w EXCEPT !.threw = @ \/ o.threw]
      /\ tileBox' = tileBox \o o.sent \o errors
      /\ workerBox' = rest \o (IF o.coalesced THEN <<Ticket>> ELSE <<>>)
      /\ UNCHANGED <<tile, glyphs, images>>
    BY DEF Ends, Ticket
<1>2. /\ worker \in WorkerType /\ workerBox \in Seq(WorkerMessage) /\ tileBox \in Seq(TileMessage)
      /\ o.w \in WorkerType /\ m \in WorkerMessage /\ rest \in Seq(WorkerMessage)
      /\ o.threw \in BOOLEAN /\ o.coalesced \in BOOLEAN
    BY TailFacts, TypesOK DEF IInv, Types, Handles, OutcomeType
<1>3. /\ worker' \in WorkerType /\ worker'.state = o.w.state
      /\ worker'.correlationID = o.w.correlationID
      /\ worker'.data = o.w.data /\ worker'.layers = o.w.layers /\ worker'.contents = o.w.contents
      /\ worker'.result = o.w.result /\ worker'.imageCorrelationID = o.w.imageCorrelationID
      /\ worker'.glyphMap = o.w.glyphMap /\ worker'.pendingGlyphs = o.w.pendingGlyphs
      /\ worker'.imageMap = o.w.imageMap /\ worker'.pendingImages = o.w.pendingImages
      /\ worker'.threw = (o.w.threw \/ o.threw)
    BY <1>1, <1>2 DEF WorkerType
<1>4. /\ Len(workerBox) \in Nat \ {0} /\ Len(rest) = Len(workerBox) - 1 /\ m = workerBox[1]
      /\ \A i \in 1..Len(rest) : rest[i] = workerBox[i + 1]
    BY <1>2, TailFacts
<1>5. Ticket \in WorkerMessage /\ Ticket.type = "coalesced"
    BY DEF Ticket, WorkerMessage
<1>6. workerBox' = IF o.coalesced THEN Append(rest, Ticket) ELSE rest
    BY <1>1, <1>2, <1>5
<1>7. /\ workerBox' \in Seq(WorkerMessage)
      /\ Len(workerBox') = Len(rest) + (IF o.coalesced THEN 1 ELSE 0)
      /\ \A i \in 1..Len(rest) : workerBox'[i] = workerBox[i + 1]
      /\ \A i \in 1..Len(workerBox') : i \notin 1..Len(rest) => workerBox'[i] = Ticket
    <2>1. /\ Append(rest, Ticket) \in Seq(WorkerMessage)
          /\ Len(Append(rest, Ticket)) = Len(rest) + 1
          /\ \A i \in 1..Len(rest) : Append(rest, Ticket)[i] = rest[i]
          /\ Append(rest, Ticket)[Len(rest) + 1] = Ticket
        BY <1>2, <1>5, AppendFacts
    <2> HIDE DEF rest, m
    <2>2. Len(rest) \in Nat
        BY <1>2
    <2> QED BY <1>2, <1>4, <1>6, <2>1, <2>2
<1> HIDE DEF m, rest
<1>8. /\ worker.correlationID \in Nat /\ worker.data \in Nat /\ worker.layers \in Nat
      /\ tile.correlationID \in Nat /\ tile.data \in Nat /\ tile.layers \in Nat
      /\ worker.imageCorrelationID \in Nat /\ o.w.imageCorrelationID \in Nat
      /\ o.w.correlationID \in Nat
    BY <1>2, TypesOK, TileNumbers, WorkerNumbers DEF IInv, Types
<1>9. /\ m.type \in SetTypes => /\ m.id \in Nat /\ worker.correlationID < m.id
                                /\ m.id <= tile.correlationID
      /\ m.type = "setData" => m.id <= tile.data
      /\ m.type = "setLayers" => m.id <= tile.layers
      /\ worker.correlationID <= o.w.correlationID
    BY <1>2, <1>4, <1>8, WorkerMessageFacts, GeometryTileAssumption
       DEF IInv, OperationsInOrder, Handles, m
<1>10. ASSUME NEW i \in 1..Len(workerBox'), workerBox'[i].type \in SetTypes
       PROVE  /\ i \in 1..Len(rest) /\ i + 1 \in 1..Len(workerBox)
              /\ workerBox'[i] = workerBox[i + 1] /\ workerBox'[i].id \in Nat
    <2>1. i \in 1..Len(rest)
        BY <1>5, <1>7, <1>10 DEF SetTypes
    <2>2. workerBox[i + 1] \in WorkerMessage /\ i + 1 \in 1..Len(workerBox)
        BY <1>2, <1>4, <2>1
    <2> QED BY <1>7, <1>10, <2>1, <2>2, WorkerMessageFacts, GeometryTileAssumption
<1>11. ASSUME NEW i \in 1..Len(workerBox'), workerBox'[i].type \in SetTypes
       PROVE  o.w.correlationID < workerBox'[i].id
    <2>1. i + 1 \in 1..Len(workerBox) /\ workerBox'[i] = workerBox[i + 1] /\ 1 < i + 1
        BY <1>10, <1>11
    <2>2. CASE m.type \in SetTypes
        <3>1. o.w.correlationID = m.id /\ 1 \in 1..Len(workerBox)
            BY <1>4, <2>2 DEF Handles, m
        <3> QED BY <1>4, <1>11, <2>1, <2>2, <3>1 DEF IInv, OperationsInOrder
    <2>3. CASE m.type \notin SetTypes
        <3>1. o.w.correlationID = worker.correlationID
            BY <2>3 DEF Handles, m
        <3> QED BY <1>11, <2>1, <3>1 DEF IInv, OperationsInOrder
    <2> QED BY <2>2, <2>3
<1>12. OperationsInOrder'
    <2>1. \A i \in 1..Len(workerBox') :
            /\ workerBox'[i].type \in SetTypes =>
                 o.w.correlationID < workerBox'[i].id /\ workerBox'[i].id <= tile.correlationID
            /\ workerBox'[i].type = "setData" => workerBox'[i].id <= tile.data
            /\ workerBox'[i].type = "setLayers" => workerBox'[i].id <= tile.layers
        BY <1>10, <1>11 DEF IInv, OperationsInOrder, SetTypes
    <2>2. ASSUME NEW i \in 1..Len(workerBox'), NEW j \in 1..Len(workerBox'), i < j,
                 workerBox'[i].type \in SetTypes, workerBox'[j].type \in SetTypes
          PROVE  workerBox'[i].id < workerBox'[j].id
        <3>1. /\ i + 1 \in 1..Len(workerBox) /\ workerBox'[i] = workerBox[i + 1]
              /\ j + 1 \in 1..Len(workerBox) /\ workerBox'[j] = workerBox[j + 1] /\ i + 1 < j + 1
            BY <1>10, <2>2
        <3> QED BY <2>2, <3>1 DEF IInv, OperationsInOrder
    <2>3. /\ o.w.correlationID <= tile.correlationID
          /\ o.w.data <= o.w.correlationID /\ o.w.layers <= o.w.correlationID
        BY <1>8, <1>9 DEF IInv, OperationsInOrder, Handles, m, SetTypes
    <2>4. ASSUME NEW i \in 1..Len(workerBox), i # 1
          PROVE  i - 1 \in 1..Len(workerBox') /\ workerBox'[i - 1] = workerBox[i]
        <3>1. i - 1 \in 1..Len(rest) /\ (i - 1) + 1 = i
            BY <1>4, <2>4
        <3> QED BY <1>7, <3>1
    <2>5. \/ o.w.data = tile.data
          \/ \E i \in 1..Len(workerBox') : workerBox'[i].type = "setData" /\ workerBox'[i].id = tile.data
        <3>1. CASE m.type = "setData" /\ m.id = tile.data
            BY <3>1 DEF Handles, m
        <3>2. CASE worker.data = tile.data
            <4>1. m.type # "setData"
                BY <1>8, <1>9, <3>2 DEF IInv, OperationsInOrder, SetTypes
            <4> QED BY <3>2, <4>1 DEF Handles, m
        <3>3. CASE ~(m.type = "setData" /\ m.id = tile.data) /\ worker.data # tile.data
            <4>1. PICK i \in 1..Len(workerBox) : workerBox[i].type = "setData" /\ workerBox[i].id = tile.data
                BY <3>3 DEF IInv, OperationsInOrder
            <4>2. i # 1
                BY <1>4, <3>3, <4>1
            <4> QED BY <2>4, <4>1, <4>2
        <3> QED BY <3>1, <3>2, <3>3
    <2>6. \/ o.w.layers = tile.layers
          \/ \E i \in 1..Len(workerBox') : workerBox'[i].type = "setLayers" /\ workerBox'[i].id = tile.layers
        <3>1. CASE m.type = "setLayers" /\ m.id = tile.layers
            BY <3>1 DEF Handles, m
        <3>2. CASE worker.layers = tile.layers
            <4>1. m.type # "setLayers"
                BY <1>8, <1>9, <3>2 DEF IInv, OperationsInOrder, SetTypes
            <4> QED BY <3>2, <4>1 DEF Handles, m
        <3>3. CASE ~(m.type = "setLayers" /\ m.id = tile.layers) /\ worker.layers # tile.layers
            <4>1. PICK i \in 1..Len(workerBox) : workerBox[i].type = "setLayers" /\ workerBox[i].id = tile.layers
                BY <3>3 DEF IInv, OperationsInOrder
            <4>2. i # 1
                BY <1>4, <3>3, <4>1
            <4> QED BY <2>4, <4>1, <4>2
        <3> QED BY <3>1, <3>2, <3>3
    <2>7. tile.data <= tile.correlationID /\ tile.layers <= tile.correlationID
        BY DEF IInv, OperationsInOrder
    <2>8. UNCHANGED tile
        BY <1>1
    <2> QED BY <1>3, <2>1, <2>2, <2>3, <2>5, <2>6, <2>7, <2>8 DEF OperationsInOrder
<1>13. Sends(errors, o.w)
    <2>1. CASE o.threw
        <3> DEFINE e == [type |-> "onError", id |-> o.w.correlationID]
        <3>1. e \in TileMessage
            <4>1. o.w.correlationID \in 1..MaxOps
                BY <1>2, <2>1, GeometryTileAssumption DEF Handles, WorkerType
            <4> QED BY <4>1 DEF TileMessage
        <3>2. Sendable(e, o.w)
            BY <3>1 DEF Sendable
        <3>3. errors = <<e>> /\ <<e>> \in Seq(TileMessage)
            BY <2>1, <3>1
        <3> HIDE DEF e, errors
        <3> QED BY <3>2, <3>3 DEF Sends
    <2>2. CASE ~o.threw
        BY <2>2 DEF Sends
    <2> QED BY <2>1, <2>2
<1>14. BoxOK(tileBox', o.w)
    <2>1. BoxOK(tileBox, o.w)
        <3>1. ASSUME NEW i \in 1..Len(tileBox), tileBox[i].type \in ResultTypes
              PROVE  /\ tileBox[i].id <= o.w.correlationID
                     /\ tileBox[i].type = "onLayout" /\ tileBox[i].id = o.w.correlationID
                          => tileBox[i].data = o.w.data /\ tileBox[i].layers = o.w.layers
            <4>1. tileBox[i].id \in Nat
                BY <1>2, <3>1, TileMessageFacts, GeometryTileAssumption
            <4>2. tileBox[i].id <= worker.correlationID
                BY <3>1 DEF IInv, ResultsInOrder
            <4>3. CASE m.type \in SetTypes
                BY <1>8, <1>9, <4>1, <4>2, <4>3 DEF Handles, m
            <4>4. CASE m.type \notin SetTypes
                BY <3>1, <4>2, <4>4 DEF Handles, m, IInv, ResultsInOrder, SetTypes
            <4> QED BY <4>3, <4>4
        <3>2. ASSUME NEW i \in 1..Len(tileBox), tileBox[i].type = "getImages"
              PROVE  Suits(tileBox[i], o.w)
            <4>1. tileBox[i].id \in Nat
                BY <1>2, <3>2, TileMessageFacts
            <4>2. Suits(tileBox[i], worker)
                BY <3>2 DEF IInv, ImagesSuit
            <4> QED BY <1>8, <4>1, <4>2 DEF Suits, Handles, ImagesKept
        <3> QED BY <1>2, <3>1, <3>2
               DEF BoxOK, IInv, ResultsInOrder, LaidOutWithDependencies, ResultTypes
    <2>3. BoxOK(tileBox \o o.sent, o.w)
        BY <1>2, <2>1, BoxAppended DEF Handles
    <2> HIDE DEF errors
    <2> QED BY <1>1, <1>2, <1>13, <2>3, BoxAppended
<1>15. ResultsInOrder' /\ LaidOutWithDependencies'
    BY <1>3, <1>14 DEF BoxOK, ResultsInOrder, LaidOutWithDependencies
<1>16. Current(worker)' /\ Asked(worker)'
    BY <1>3 DEF Handles, Current, Contents, Fresh, Asked
<1>17. Complete'
    <2> SUFFICES ASSUME ~tile.pending PROVE Complete'
        BY <1>1 DEF Complete
    <2>1. /\ worker.data = tile.data /\ worker.layers = tile.layers
          /\ Shows(tileBox, tile.data, tile.layers)
          /\ tile.data + tile.layers # 0 =>
               tile.failed \/ (tile.shown.data = tile.data /\ tile.shown.layers = tile.layers)
        BY DEF IInv, Complete, Shows
    <2>2. m.type # "setData" /\ m.type # "setLayers"
        BY <1>8, <1>9, <2>1 DEF IInv, OperationsInOrder, SetTypes
    <2>3. o.w.data = tile.data /\ o.w.layers = tile.layers
        BY <2>1, <2>2 DEF Handles, m
    <2>4. /\ Sends(o.sent, o.w) /\ o.sent \in Seq(TileMessage) /\ errors \in Seq(TileMessage)
          /\ Shows(o.sent, tile.data, tile.layers) /\ Shows(errors, tile.data, tile.layers)
        BY <1>13, <2>3 DEF Handles, Sends, Sendable, Shows
    <2>5. tileBox \o o.sent \in Seq(TileMessage)
        BY <1>2, <2>4
    <2> HIDE DEF errors
    <2>6. Shows(tileBox', tile.data, tile.layers)
        <3>1. Shows(tileBox \o o.sent, tile.data, tile.layers)
            BY <1>2, <2>1, <2>4, ShowsBoth
        <3> QED BY <1>1, <2>4, <2>5, <3>1, ShowsBoth
    <2>7. UNCHANGED tile
        BY <1>1
    <2> QED BY <1>3, <2>1, <2>3, <2>6, <2>7 DEF Complete, Shows
<1>18. ImagesSuit'
    <2>1. ASSUME NEW r, r.id \in Nat, Suits(r, worker) PROVE Suits(r, worker')
        BY <1>3, <1>8, <2>1 DEF Suits, Handles, ImagesKept
    <2>2. \A i \in 1..Len(tileBox') : tileBox'[i].type = "getImages" => Suits(tileBox'[i], worker')
        BY <1>3, <1>14 DEF BoxOK, Suits
    <2>3. images # None => Suits(images, worker')
        <3> SUFFICES ASSUME images # None PROVE Suits(images, worker')
            OBVIOUS
        <3>1. images.id \in Nat
            BY TypesOK DEF IInv, Types, ImagesType
        <3>2. Suits(images, worker)
            BY DEF IInv, ImagesSuit
        <3> QED BY <2>1, <3>1, <3>2
    <2>4. ASSUME NEW i \in 1..Len(workerBox'), workerBox'[i].type = "onImagesAvailable"
          PROVE  Suits(workerBox'[i], worker')
        <3>1. i \in 1..Len(rest)
            BY <1>5, <1>7, <2>4
        <3>2. i + 1 \in 1..Len(workerBox) /\ workerBox'[i] = workerBox[i + 1]
            BY <1>4, <1>7, <3>1
        <3>3. workerBox[i + 1].id \in Nat
            BY <1>2, <2>4, <3>2, WorkerMessageFacts
        <3>4. Suits(workerBox[i + 1], worker)
            BY <2>4, <3>2 DEF IInv, ImagesSuit
        <3>5. Suits(workerBox[i + 1], worker')
            BY <2>1, <3>3, <3>4
        <3> QED BY <3>2, <3>5
    <2> QED BY <1>1, <2>2, <2>3, <2>4 DEF ImagesSuit
<1>19. CoalescedInFlight'
    <2> SUFFICES ASSUME ~worker.threw, ~o.threw
                 PROVE  Count(workerBox', Coalesceds) = (IF o.w.state = "Idle" THEN 0 ELSE 1)
        <3>1. Cardinality({i \in 1..Len(workerBox') : workerBox'[i].type = "coalesced"})
                = Count(workerBox', Coalesceds)
            BY <1>7, CoalescedCount
        <3>2. ~worker'.threw => ~worker.threw /\ ~o.threw
            BY <1>3, Zenon DEF Handles
        <3> QED BY <1>3, <3>1, <3>2 DEF CoalescedInFlight
    <2>1. Count(workerBox, Coalesceds) = (IF worker.state = "Idle" THEN 0 ELSE 1)
        BY <1>2, CoalescedCount DEF IInv, CoalescedInFlight
    <2>2. Count(workerBox, Coalesceds) = Count(rest, Coalesceds) + (IF m.type = "coalesced" THEN 1 ELSE 0)
        <3>1. m \in Coalesceds <=> m.type = "coalesced"
            BY <1>2 DEF Coalesceds
        <3>2. /\ m \in Coalesceds => Count(workerBox, Coalesceds) = Count(rest, Coalesceds) + 1
              /\ m \notin Coalesceds => Count(workerBox, Coalesceds) = Count(rest, Coalesceds)
            BY <1>2, CountTail DEF m, rest
        <3>3. Count(rest, Coalesceds) \in Nat
            BY <1>2, PlacesFinite
        <3> QED BY <3>1, <3>2, <3>3
    <2>3. Count(workerBox', Coalesceds) = Count(rest, Coalesceds) + (IF o.coalesced THEN 1 ELSE 0)
        <3>1. Ticket \in Coalesceds
            BY <1>5 DEF Coalesceds
        <3>2. Count(Append(rest, Ticket), Coalesceds) = Count(rest, Coalesceds) + 1
            BY <1>2, <1>5, <3>1, CountAppend
        <3>3. Count(rest, Coalesceds) \in Nat
            BY <1>2, PlacesFinite
        <3> QED BY <1>6, <3>2, <3>3
    <2>4. /\ o.coalesced => worker.state = "Idle" \/ m.type = "coalesced"
          /\ o.w.state # "Idle" <=> o.coalesced \/ (worker.state # "Idle" /\ m.type # "coalesced")
        BY DEF Handles, m
    <2>5. Count(rest, Coalesceds) \in Nat
        BY <1>2, PlacesFinite
    <2> QED BY <2>1, <2>2, <2>3, <2>4, <2>5
<1>20. TypeInv'
    <2>1. Types'
        BY <1>1, <1>3, <1>7, <1>14, TypesOK DEF IInv, BoxOK, Types
    <2> QED BY <2>1, TypesOKNext
<1> QED BY <1>12, <1>14, <1>15, <1>16, <1>17, <1>18, <1>19, <1>20 DEF IInv

----------------------------------------------------------------------------
(* A handler that has only written w ends soundly for the worker it has found. *)
LEMMA WrittenFirst ==
    ASSUME NEW w \in WorkerType, NEW o, Done(o, w),
           w.result = worker.result, w.imageCorrelationID = worker.imageCorrelationID
    PROVE  ImagesKept(o.w, worker)
BY DEF Done, ImagesKept

LEMMA WorkerSetDataStep == ASSUME IInv, WorkerSetData PROVE IInv'
<1> DEFINE m == Head(workerBox)
           w == [worker EXCEPT !.data = m.id, !.contents = m.contents, !.correlationID = m.id]
           o == ParseOrPostpone(w)
<1>1. workerBox # <<>> /\ m.type = "setData" /\ Ends(o)
    BY DEF WorkerSetData, Takes
<1>2. /\ worker \in WorkerType /\ m.id \in 1..MaxOps /\ m.id # 0 /\ m.contents \in Parses
      /\ m.type \in SetTypes
    <2>1. worker \in WorkerType /\ m \in WorkerMessage /\ m.type \in SetTypes
        BY <1>1, TailFacts, TypesOK DEF IInv, Types, SetTypes
    <2> QED BY <1>1, <2>1, WorkerMessageFacts, GeometryTileAssumption
<1> HIDE DEF m
<1>3. /\ w \in WorkerType /\ w.correlationID = m.id /\ w.data = m.id
      /\ w.contents = m.contents /\ w.state = worker.state /\ w.layers = worker.layers
      /\ w.result = worker.result /\ w.imageCorrelationID = worker.imageCorrelationID
      /\ w.glyphMap = worker.glyphMap /\ w.pendingGlyphs = worker.pendingGlyphs
      /\ w.imageMap = worker.imageMap /\ w.pendingImages = worker.pendingImages
      /\ w.threw = worker.threw
    <2>1. PICK id \in 0..MaxOps : id = m.id
        BY <1>2, GeometryTileAssumption
    <2>2. PICK c \in Parses : c = m.contents
        BY <1>2
    <2>3. w = [worker EXCEPT !.data = id, !.contents = c, !.correlationID = id]
        BY <2>1, <2>2
    <2> HIDE DEF w
    <2> QED BY <1>2, <2>1, <2>2, <2>3 DEF WorkerType
<1> HIDE DEF w
<1>4. Contents(w) /\ Asked(w)
    BY <1>2, <1>3 DEF IInv, Current, Contents, Asked
<1>5. Done(o, w) /\ Signals(o, w) /\ ImagesKept(o.w, worker)
    BY <1>3, <1>4, ParseOrPostponeDone, WrittenFirst
<1> HIDE DEF o
<1>6. Handles(m, o)
    BY <1>1, <1>2, <1>3, <1>5 DEF Done, Signals, Handles
<1> QED BY <1>1, <1>6, HandlerStep DEF m

LEMMA WorkerSetLayersStep == ASSUME IInv, WorkerSetLayers PROVE IInv'
<1> DEFINE m == Head(workerBox)
           w == [worker EXCEPT !.layers = m.id, !.contents = m.contents, !.correlationID = m.id]
           o == ParseOrPostpone(w)
<1>1. workerBox # <<>> /\ m.type = "setLayers" /\ Ends(o)
    BY DEF WorkerSetLayers, Takes
<1>2. /\ worker \in WorkerType /\ m.id \in 1..MaxOps /\ m.id # 0 /\ m.contents \in Parses
      /\ m.type \in SetTypes
    <2>1. worker \in WorkerType /\ m \in WorkerMessage /\ m.type \in SetTypes
        BY <1>1, TailFacts, TypesOK DEF IInv, Types, SetTypes
    <2> QED BY <1>1, <2>1, WorkerMessageFacts, GeometryTileAssumption
<1> HIDE DEF m
<1>3. /\ w \in WorkerType /\ w.correlationID = m.id /\ w.layers = m.id
      /\ w.contents = m.contents /\ w.state = worker.state /\ w.data = worker.data
      /\ w.result = worker.result /\ w.imageCorrelationID = worker.imageCorrelationID
      /\ w.glyphMap = worker.glyphMap /\ w.pendingGlyphs = worker.pendingGlyphs
      /\ w.imageMap = worker.imageMap /\ w.pendingImages = worker.pendingImages
      /\ w.threw = worker.threw
    <2>1. PICK id \in 0..MaxOps : id = m.id
        BY <1>2, GeometryTileAssumption
    <2>2. PICK c \in Parses : c = m.contents
        BY <1>2
    <2>3. w = [worker EXCEPT !.layers = id, !.contents = c, !.correlationID = id]
        BY <2>1, <2>2
    <2> HIDE DEF w
    <2> QED BY <1>2, <2>1, <2>2, <2>3 DEF WorkerType
<1> HIDE DEF w
<1>4. Contents(w) /\ Asked(w)
    BY <1>2, <1>3 DEF IInv, Current, Contents, Asked
<1>5. Done(o, w) /\ Signals(o, w) /\ ImagesKept(o.w, worker)
    BY <1>3, <1>4, ParseOrPostponeDone, WrittenFirst
<1> HIDE DEF o
<1>6. Handles(m, o)
    BY <1>1, <1>2, <1>3, <1>5 DEF Done, Signals, Handles
<1> QED BY <1>1, <1>6, HandlerStep DEF m

LEMMA WorkerSetBoxesStep == ASSUME IInv, WorkerSetShowCollisionBoxes PROVE IInv'
<1> DEFINE m == Head(workerBox)
           w == [worker EXCEPT !.boxes = m.boxes, !.correlationID = m.id]
           o == IF w.state = "Idle" /\ w.result = None THEN Coalesce(Parse(w))
                ELSE IF w.state = "Coalescing"
                THEN Outcome([w EXCEPT !.state = "NeedsSymbolLayout"], <<>>)
                ELSE Outcome(w, <<>>)
<1>1. workerBox # <<>> /\ m.type = "setShowCollisionBoxes" /\ Ends(o)
    BY DEF WorkerSetShowCollisionBoxes, Takes
<1>2. /\ worker \in WorkerType /\ m.id \in 1..MaxOps /\ m.id # 0 /\ m.boxes \in BOOLEAN
      /\ m.type \in SetTypes
    <2>1. worker \in WorkerType /\ m \in WorkerMessage /\ m.type \in SetTypes
        BY <1>1, TailFacts, TypesOK DEF IInv, Types, SetTypes
    <2> QED BY <1>1, <2>1, WorkerMessageFacts, GeometryTileAssumption
<1> HIDE DEF m
<1>3. /\ w \in WorkerType /\ w.correlationID = m.id /\ w.state = worker.state
      /\ w.data = worker.data /\ w.layers = worker.layers /\ w.contents = worker.contents
      /\ w.result = worker.result /\ w.imageCorrelationID = worker.imageCorrelationID
      /\ w.glyphMap = worker.glyphMap /\ w.pendingGlyphs = worker.pendingGlyphs
      /\ w.imageMap = worker.imageMap /\ w.pendingImages = worker.pendingImages
      /\ w.threw = worker.threw
    <2>1. PICK id \in 0..MaxOps : id = m.id
        BY <1>2, GeometryTileAssumption
    <2>2. PICK b \in BOOLEAN : b = m.boxes
        BY <1>2
    <2>3. w = [worker EXCEPT !.boxes = b, !.correlationID = id]
        BY <2>1, <2>2
    <2> HIDE DEF w
    <2> QED BY <1>2, <2>1, <2>2, <2>3 DEF WorkerType
<1> HIDE DEF w
<1>4. Current(w) /\ Asked(w)
    BY <1>2, <1>3 DEF IInv, Current, Contents, Fresh, Asked
<1>5. Done(o, w) /\ Signals(o, w)
    <2>1. CASE w.state = "Idle" /\ w.result = None
        <3>1. Sound(Parse(w), w)
            BY <1>3, <1>4, ParseSound DEF Current
        <3> QED BY <1>3, <2>1, <3>1, CoalesceDone DEF Signals
    <2>2. CASE w.state = "Coalescing"
        <3>1. o = Outcome([w EXCEPT !.state = "NeedsSymbolLayout"], <<>>)
            BY <2>2
        <3> HIDE DEF o
        <3> QED BY <1>3, <1>4, <2>2, <3>1, StateDone DEF Signals, Current
    <2>3. CASE ~(w.state = "Idle" /\ w.result = None) /\ w.state # "Coalescing"
        <3>1. o = Outcome(w, <<>>)
            BY <2>3
        <3> HIDE DEF o
        <3> QED BY <1>3, <1>4, <3>1, NothingDone DEF Signals
    <2> QED BY <2>1, <2>2, <2>3
<1> HIDE DEF o
<1>6. ImagesKept(o.w, worker)
    BY <1>3, <1>5, WrittenFirst
<1>7. Handles(m, o)
    BY <1>1, <1>2, <1>3, <1>5, <1>6 DEF Done, Signals, Handles
<1> QED BY <1>1, <1>7, HandlerStep DEF m

LEMMA WorkerOnGlyphsStep == ASSUME IInv, WorkerOnGlyphsAvailable PROVE IInv'
<1> DEFINE m == Head(workerBox)
           new == m.glyphs \cap worker.pendingGlyphs
           w == [worker EXCEPT !.pendingGlyphs = @ \ new, !.glyphMap = @ \cup new]
           o == SymbolDependenciesChanged(w)
<1>1. workerBox # <<>> /\ m.type = "onGlyphsAvailable" /\ Ends(o)
    BY DEF WorkerOnGlyphsAvailable, Takes
<1>2. worker \in WorkerType /\ m.type \notin SetTypes
    BY <1>1, TypesOK DEF IInv, Types, SetTypes
<1> HIDE DEF m
<1>3. /\ worker.pendingGlyphs \ new \in SUBSET Glyphs /\ worker.glyphMap \cup new \in SUBSET Glyphs
    BY <1>2 DEF WorkerType
<1> HIDE DEF new
<1>4. /\ w \in WorkerType /\ w.correlationID = worker.correlationID /\ w.state = worker.state
      /\ w.data = worker.data /\ w.layers = worker.layers /\ w.contents = worker.contents
      /\ w.result = worker.result /\ w.imageCorrelationID = worker.imageCorrelationID
      /\ w.glyphMap = worker.glyphMap \cup new /\ w.pendingGlyphs = worker.pendingGlyphs \ new
      /\ w.imageMap = worker.imageMap /\ w.pendingImages = worker.pendingImages
      /\ w.threw = worker.threw
    BY <1>2, <1>3 DEF WorkerType
<1> HIDE DEF w
<1>5. Current(w) /\ Asked(w)
    BY <1>4 DEF IInv, Current, Contents, Fresh, Asked
<1>6. Done(o, w) /\ Signals(o, w)
    BY <1>4, <1>5, SymbolDependenciesDone
<1> HIDE DEF o
<1>7. ImagesKept(o.w, worker)
    BY <1>4, <1>6, WrittenFirst
<1>8. Handles(m, o)
    BY <1>1, <1>2, <1>4, <1>6, <1>7 DEF Done, Signals, Handles
<1> QED BY <1>1, <1>8, HandlerStep DEF m

LEMMA WorkerOnImagesStep == ASSUME IInv, WorkerOnImagesAvailable PROVE IInv'
<1> DEFINE m == Head(workerBox)
           w == [worker EXCEPT !.imageMap = m.images, !.pendingImages = {}]
           o == IF m.id = worker.imageCorrelationID
                THEN SymbolDependenciesChanged(w) ELSE Outcome(worker, <<>>)
<1>1. workerBox # <<>> /\ m.type = "onImagesAvailable" /\ Ends(o)
    BY DEF WorkerOnImagesAvailable, Takes
<1>2. /\ worker \in WorkerType /\ m \in WorkerMessage /\ m.type \notin SetTypes
      /\ m = workerBox[1] /\ 1 \in 1..Len(workerBox)
    BY <1>1, TailFacts, TypesOK DEF IInv, Types, SetTypes
<1>3. m.images \subseteq Images /\ Suits(m, worker)
    BY <1>1, <1>2, WorkerMessageFacts DEF IInv, ImagesSuit
<1> HIDE DEF m
<1>4. /\ w \in WorkerType /\ w.correlationID = worker.correlationID /\ w.state = worker.state
      /\ w.data = worker.data /\ w.layers = worker.layers /\ w.contents = worker.contents
      /\ w.result = worker.result /\ w.imageCorrelationID = worker.imageCorrelationID
      /\ w.glyphMap = worker.glyphMap /\ w.pendingGlyphs = worker.pendingGlyphs
      /\ w.imageMap = m.images /\ w.threw = worker.threw
    <2>1. PICK new \in SUBSET Images : new = m.images
        BY <1>3
    <2>2. w = [worker EXCEPT !.imageMap = new, !.pendingImages = {}]
        BY <2>1
    <2> HIDE DEF w
    <2> QED BY <1>2, <2>1, <2>2 DEF WorkerType
<1> HIDE DEF w
<1>5. Current(worker) /\ Asked(worker)
    BY DEF IInv
<1>6. CASE m.id = worker.imageCorrelationID
    <2>1. Current(w) /\ Asked(w)
        BY <1>3, <1>4, <1>5, <1>6 DEF Current, Contents, Fresh, Asked, Suits
    <2>2. Done(o, w) /\ Signals(o, w)
        BY <1>4, <1>6, <2>1, SymbolDependenciesDone
    <2> HIDE DEF o
    <2>3. ImagesKept(o.w, worker)
        BY <1>4, <2>2, WrittenFirst
    <2>4. Handles(m, o)
        BY <1>1, <1>2, <1>4, <2>2, <2>3 DEF Done, Signals, Handles
    <2> QED BY <1>1, <2>4, HandlerStep DEF m
<1>7. CASE m.id # worker.imageCorrelationID
    <2>1. o = Outcome(worker, <<>>)
        BY <1>7
    <2> HIDE DEF o
    <2>2. Done(o, worker) /\ o.w = worker /\ ~o.threw /\ ~o.coalesced
        BY <1>2, <1>5, <2>1, NothingDone
    <2>3. Handles(m, o)
        BY <1>1, <1>2, <2>2 DEF Done, Handles
    <2> QED BY <1>1, <2>3, HandlerStep DEF m
<1> QED BY <1>6, <1>7

LEMMA WorkerCoalescedStep == ASSUME IInv, WorkerCoalesced PROVE IInv'
<1> DEFINE m == Head(workerBox)
<1>1. workerBox # <<>> /\ m.type = "coalesced" /\ m.type \notin SetTypes
    BY DEF WorkerCoalesced, Takes, SetTypes
<1>2. worker \in WorkerType /\ Current(worker) /\ Contents(worker) /\ Asked(worker)
    BY TypesOK DEF IInv, Types, Current
<1> HIDE DEF m
<1>3. ASSUME NEW o, Ends(o), Done(o, worker),
             ~o.threw => (o.w.state # "Idle" <=> o.coalesced)
      PROVE  IInv'
    <2>1. Handles(m, o)
        BY <1>1, <1>3 DEF Done, Handles
    <2> QED BY <1>1, <1>3, <2>1, HandlerStep DEF m
<1>4. CASE worker.state = "Coalescing" /\ Ends(Outcome([worker EXCEPT !.state = "Idle"], <<>>))
    <2> DEFINE o == Outcome([worker EXCEPT !.state = "Idle"], <<>>)
    <2>1. Done(o, worker) /\ ~o.coalesced /\ o.w.state = "Idle"
        BY <1>2, <1>4, StateDone DEF Current
    <2> HIDE DEF o
    <2>2. Ends(o)
        BY <1>4 DEF o
    <2> QED BY <1>3, <2>1, <2>2
<1>5. CASE Ends(Coalesce(Parse(worker)))
    <2>1. Sound(Parse(worker), worker)
        BY <1>2, ParseSound
    <2> QED BY <1>2, <1>3, <1>5, <2>1, CoalesceDone
<1>6. CASE worker.state = "NeedsSymbolLayout" /\ Ends(Coalesce(FinalizeLayout(worker)))
    <2>1. Sound(FinalizeLayout(worker), worker)
        BY <1>2, <1>6, FinalizeSound DEF Current
    <2> QED BY <1>2, <1>3, <1>6, <2>1, CoalesceDone
<1> QED BY <1>4, <1>5, <1>6 DEF WorkerCoalesced

----------------------------------------------------------------------------
(* The tile's mailbox when its first message has been taken. *)
LEMMA MessageTaken ==
    ASSUME IInv, tileBox # <<>>, tileBox' = Tail(tileBox), UNCHANGED worker
    PROVE  /\ tileBox' \in Seq(TileMessage) /\ ResultsInOrder' /\ LaidOutWithDependencies'
           /\ Current(worker)' /\ Asked(worker)'
           /\ \A i \in 1..Len(tileBox') : /\ i + 1 \in 1..Len(tileBox) /\ tileBox'[i] = tileBox[i + 1]
                                          /\ tileBox'[i].type = "getImages" => Suits(tileBox'[i], worker')
<1>1. tileBox \in Seq(TileMessage)
    BY DEF IInv, TypeInv
<1>2. /\ tileBox' \in Seq(TileMessage) /\ Len(tileBox) \in Nat /\ Len(tileBox') = Len(tileBox) - 1
      /\ \A i \in 1..Len(tileBox') : i + 1 \in 1..Len(tileBox) /\ tileBox'[i] = tileBox[i + 1]
    BY <1>1, TailFacts
<1>3. ResultsInOrder'
    <2>1. ASSUME NEW i \in 1..Len(tileBox'), NEW j \in 1..Len(tileBox'), i < j,
                 tileBox'[i].type \in ResultTypes, tileBox'[j].type \in ResultTypes
          PROVE  tileBox'[i].id <= tileBox'[j].id
        <3>1. i + 1 < j + 1
            BY <2>1
        <3> QED BY <1>2, <2>1, <3>1 DEF IInv, ResultsInOrder
    <2> QED BY <1>2, <2>1 DEF IInv, ResultsInOrder
<1>4. LaidOutWithDependencies'
    BY <1>2 DEF IInv, LaidOutWithDependencies
<1>5. \A i \in 1..Len(tileBox') : tileBox'[i].type = "getImages" => Suits(tileBox'[i], worker')
    BY <1>2 DEF IInv, ImagesSuit
<1> QED BY <1>2, <1>3, <1>4, <1>5 DEF IInv, Current, Contents, Fresh, Asked

(* The worker's mailbox when something has arrived for the tile's result. *)
LEMMA MessageSent ==
    ASSUME IInv, NEW n \in WorkerMessage, n.type \notin SetTypes, n.type # "coalesced",
           n.type = "onImagesAvailable" => Suits(n, worker),
           workerBox' = Append(workerBox, n), UNCHANGED <<tile, worker>>
    PROVE  /\ workerBox' \in Seq(WorkerMessage) /\ OperationsInOrder' /\ CoalescedInFlight'
           /\ \A i \in 1..Len(workerBox') :
                workerBox'[i].type = "onImagesAvailable" => Suits(workerBox'[i], worker')
<1>1. workerBox \in Seq(WorkerMessage)
    BY DEF IInv, TypeInv
<1>2. /\ workerBox' \in Seq(WorkerMessage) /\ Len(workerBox) \in Nat
      /\ \A i \in 1..Len(workerBox) : i \in 1..Len(workerBox') /\ workerBox'[i] = workerBox[i]
      /\ \A i \in 1..Len(workerBox') : i \in 1..Len(workerBox) \/ workerBox'[i] = n
    BY <1>1, AppendFacts
<1>3. \A i \in 1..Len(workerBox') :
         workerBox'[i].type \in SetTypes => i \in 1..Len(workerBox) /\ workerBox'[i] = workerBox[i]
    BY <1>2
<1>4. OperationsInOrder'
    <2>1. \A i \in 1..Len(workerBox') :
            /\ workerBox'[i].type \in SetTypes =>
                 worker.correlationID < workerBox'[i].id /\ workerBox'[i].id <= tile.correlationID
            /\ workerBox'[i].type = "setData" => workerBox'[i].id <= tile.data
            /\ workerBox'[i].type = "setLayers" => workerBox'[i].id <= tile.layers
        BY <1>3 DEF IInv, OperationsInOrder, SetTypes
    <2>2. \A i, j \in 1..Len(workerBox') :
            i < j /\ workerBox'[i].type \in SetTypes /\ workerBox'[j].type \in SetTypes
              => workerBox'[i].id < workerBox'[j].id
        BY <1>3 DEF IInv, OperationsInOrder
    <2>3. /\ \/ worker.data = tile.data
             \/ \E i \in 1..Len(workerBox') : workerBox'[i].type = "setData" /\ workerBox'[i].id = tile.data
          /\ \/ worker.layers = tile.layers
             \/ \E i \in 1..Len(workerBox') : workerBox'[i].type = "setLayers" /\ workerBox'[i].id = tile.layers
        BY <1>2 DEF IInv, OperationsInOrder
    <2> QED BY <2>1, <2>2, <2>3 DEF IInv, OperationsInOrder
<1>5. CoalescedInFlight'
    <2>1. Count(workerBox', Coalesceds) = Count(workerBox, Coalesceds)
        BY <1>1, CountAppend DEF Coalesceds
    <2> QED BY <1>1, <1>2, <2>1, CoalescedCount DEF IInv, CoalescedInFlight
<1>6. \A i \in 1..Len(workerBox') :
         workerBox'[i].type = "onImagesAvailable" => Suits(workerBox'[i], worker')
    BY <1>2 DEF IInv, ImagesSuit
<1> QED BY <1>2, <1>4, <1>5, <1>6

(* An operation of the tile reaches its worker's mailbox. *)
LEMMA OperationSent ==
    ASSUME IInv, NEW n \in WorkerMessage, n.type \in SetTypes, n.id = tile.correlationID + 1,
           workerBox' = Append(workerBox, n), UNCHANGED worker, tile' \in TileType,
           tile'.correlationID = tile.correlationID + 1,
           tile'.data = IF n.type = "setData" THEN n.id ELSE tile.data,
           tile'.layers = IF n.type = "setLayers" THEN n.id ELSE tile.layers
    PROVE  /\ workerBox' \in Seq(WorkerMessage) /\ OperationsInOrder' /\ CoalescedInFlight'
           /\ \A i \in 1..Len(workerBox') :
                workerBox'[i].type = "onImagesAvailable" => Suits(workerBox'[i], worker')
<1>1. /\ workerBox \in Seq(WorkerMessage) /\ worker \in WorkerType /\ tile \in TileType
    BY TypesOK DEF IInv, Types
<1>2. /\ workerBox' \in Seq(WorkerMessage) /\ Len(workerBox) \in Nat
      /\ Len(workerBox') = Len(workerBox) + 1
      /\ \A i \in 1..Len(workerBox) : i \in 1..Len(workerBox') /\ workerBox'[i] = workerBox[i]
      /\ workerBox'[Len(workerBox) + 1] = n
      /\ \A i \in 1..Len(workerBox') : i \in 1..Len(workerBox) \/ i = Len(workerBox) + 1
    BY <1>1, AppendFacts
<1>3. /\ tile.correlationID \in Nat /\ tile.data \in Nat /\ tile.layers \in Nat
      /\ worker.correlationID \in Nat /\ worker.data \in Nat /\ worker.layers \in Nat
    BY <1>1, TileNumbers, WorkerNumbers
<1>4. \A i \in 1..Len(workerBox) : workerBox[i].type \in SetTypes => workerBox[i].id \in Nat
    BY <1>1, WorkerMessageFacts, GeometryTileAssumption
<1>5. OperationsInOrder'
    <2>1. ASSUME NEW i \in 1..Len(workerBox')
          PROVE  /\ workerBox'[i].type \in SetTypes => /\ worker.correlationID < workerBox'[i].id
                                                       /\ workerBox'[i].id <= tile'.correlationID
                 /\ workerBox'[i].type = "setData" => workerBox'[i].id <= tile'.data
                 /\ workerBox'[i].type = "setLayers" => workerBox'[i].id <= tile'.layers
        <3>1. CASE i \in 1..Len(workerBox)
            <4>1. workerBox'[i] = workerBox[i]
                BY <1>2, <3>1
            <4> QED BY <1>3, <1>4, <3>1, <4>1 DEF IInv, OperationsInOrder, SetTypes
        <3>2. CASE i = Len(workerBox) + 1
            <4>1. workerBox'[i] = n
                BY <1>2, <3>2
            <4> QED BY <1>3, <4>1 DEF IInv, OperationsInOrder
        <3> QED BY <1>2, <2>1, <3>1, <3>2
    <2>2. ASSUME NEW i \in 1..Len(workerBox'), NEW j \in 1..Len(workerBox'), i < j,
                 workerBox'[i].type \in SetTypes, workerBox'[j].type \in SetTypes
          PROVE  workerBox'[i].id < workerBox'[j].id
        <3>1. i \in 1..Len(workerBox)
            BY <1>2, <2>2
        <3>2. CASE j \in 1..Len(workerBox)
            BY <1>2, <2>2, <3>1, <3>2 DEF IInv, OperationsInOrder
        <3>3. CASE j = Len(workerBox) + 1
            <4>1. workerBox[i].id <= tile.correlationID /\ workerBox[i].id \in Nat
                BY <1>2, <1>4, <2>2, <3>1 DEF IInv, OperationsInOrder
            <4> QED BY <1>2, <1>3, <3>1, <3>3, <4>1
        <3> QED BY <1>2, <2>2, <3>2, <3>3
    <2>3. /\ \/ worker.data = tile'.data
             \/ \E i \in 1..Len(workerBox') : workerBox'[i].type = "setData" /\ workerBox'[i].id = tile'.data
          /\ \/ worker.layers = tile'.layers
             \/ \E i \in 1..Len(workerBox') : workerBox'[i].type = "setLayers" /\ workerBox'[i].id = tile'.layers
        <3>1. Len(workerBox) + 1 \in 1..Len(workerBox')
            BY <1>2
        <3> QED BY <1>2, <3>1 DEF IInv, OperationsInOrder
    <2>4. /\ worker.correlationID <= tile'.correlationID
          /\ tile'.data <= tile'.correlationID /\ tile'.layers <= tile'.correlationID
        BY <1>3 DEF IInv, OperationsInOrder
    <2> QED BY <2>1, <2>2, <2>3, <2>4 DEF IInv, OperationsInOrder
<1>6. CoalescedInFlight'
    <2>1. Count(workerBox', Coalesceds) = Count(workerBox, Coalesceds)
        BY <1>1, CountAppend DEF Coalesceds, SetTypes
    <2> QED BY <1>1, <1>2, <2>1, CoalescedCount DEF IInv, CoalescedInFlight
<1>7. \A i \in 1..Len(workerBox') :
         workerBox'[i].type = "onImagesAvailable" => Suits(workerBox'[i], worker')
    BY <1>2 DEF IInv, ImagesSuit, SetTypes
<1> QED BY <1>2, <1>5, <1>6, <1>7

----------------------------------------------------------------------------
LEMMA SetDataStep == ASSUME IInv, SetData PROVE IInv'
<1>1. PICK p \in Parses : workerBox' = Append(workerBox, [type |-> "setData", id |-> Changed, contents |-> p])
    BY DEF SetData, ToWorker
<1> DEFINE n == [type |-> "setData", id |-> Changed, contents |-> p]
<1>2. /\ UNCHANGED <<worker, tileBox, glyphs, images>> /\ tile.correlationID < MaxOps
      /\ tile' = [tile EXCEPT !.correlationID = Changed, !.pending = TRUE, !.failed = FALSE, !.data = Changed]
    BY DEF SetData, MayChange
<1>3. Types
    BY TypesOK DEF IInv
<1>4. Changed = tile.correlationID + 1 /\ Changed \in 1..MaxOps /\ Changed \in 0..MaxOps
    BY <1>2, <1>3, TileNumbers, GeometryTileAssumption DEF Changed, Types
<1>5. /\ tile' \in TileType /\ tile'.pending = TRUE /\ tile'.correlationID = Changed
      /\ tile'.data = Changed /\ tile'.layers = tile.layers
    BY <1>2, <1>3, <1>4 DEF Types, TileType
<1>6. n \in WorkerMessage /\ n.type = "setData" /\ n.type \in SetTypes /\ n.id = Changed
    BY <1>4 DEF WorkerMessage, SetTypes
<1> HIDE DEF n
<1>7. /\ workerBox' \in Seq(WorkerMessage) /\ OperationsInOrder' /\ CoalescedInFlight'
      /\ \A i \in 1..Len(workerBox') :
           workerBox'[i].type = "onImagesAvailable" => Suits(workerBox'[i], worker')
    BY <1>1, <1>2, <1>4, <1>5, <1>6, OperationSent DEF n
<1>8. Complete'
    BY <1>5 DEF Complete
<1>9. TypeInv'
    BY <1>2, <1>3, <1>5, <1>7, TypesOKNext DEF Types
<1> QED BY <1>2, <1>7, <1>8, <1>9
       DEF IInv, ResultsInOrder, Current, Contents, Fresh, Asked, ImagesSuit, LaidOutWithDependencies

LEMMA SetLayersStep == ASSUME IInv, SetLayers PROVE IInv'
<1>1. PICK p \in Parses : workerBox' = Append(workerBox, [type |-> "setLayers", id |-> Changed, contents |-> p])
    BY DEF SetLayers, ToWorker
<1> DEFINE n == [type |-> "setLayers", id |-> Changed, contents |-> p]
<1>2. /\ UNCHANGED <<worker, tileBox, glyphs, images>> /\ tile.correlationID < MaxOps
      /\ tile' = [tile EXCEPT !.correlationID = Changed, !.pending = TRUE, !.failed = FALSE, !.layers = Changed]
    BY DEF SetLayers, MayChange
<1>3. Types
    BY TypesOK DEF IInv
<1>4. Changed = tile.correlationID + 1 /\ Changed \in 1..MaxOps /\ Changed \in 0..MaxOps
    BY <1>2, <1>3, TileNumbers, GeometryTileAssumption DEF Changed, Types
<1>5. /\ tile' \in TileType /\ tile'.pending = TRUE /\ tile'.correlationID = Changed
      /\ tile'.layers = Changed /\ tile'.data = tile.data
    BY <1>2, <1>3, <1>4 DEF Types, TileType
<1>6. n \in WorkerMessage /\ n.type = "setLayers" /\ n.type \in SetTypes /\ n.id = Changed
    BY <1>4 DEF WorkerMessage, SetTypes
<1> HIDE DEF n
<1>7. /\ workerBox' \in Seq(WorkerMessage) /\ OperationsInOrder' /\ CoalescedInFlight'
      /\ \A i \in 1..Len(workerBox') :
           workerBox'[i].type = "onImagesAvailable" => Suits(workerBox'[i], worker')
    BY <1>1, <1>2, <1>4, <1>5, <1>6, OperationSent DEF n
<1>8. Complete'
    BY <1>5 DEF Complete
<1>9. TypeInv'
    BY <1>2, <1>3, <1>5, <1>7, TypesOKNext DEF Types
<1> QED BY <1>2, <1>7, <1>8, <1>9
       DEF IInv, ResultsInOrder, Current, Contents, Fresh, Asked, ImagesSuit, LaidOutWithDependencies

(* No new contents: a tile that was complete still is. *)
LEMMA SetShowCollisionBoxesStep == ASSUME IInv, SetShowCollisionBoxes PROVE IInv'
<1> DEFINE n == [type |-> "setShowCollisionBoxes", id |-> Changed, boxes |-> ~tile.boxes]
<1>1. /\ UNCHANGED <<worker, tileBox, glyphs, images>> /\ tile.correlationID < MaxOps
      /\ tile' = [tile EXCEPT !.correlationID = Changed, !.boxes = ~@]
      /\ workerBox' = Append(workerBox, n)
    BY DEF SetShowCollisionBoxes, MayChange, ToWorker
<1>2. Types
    BY TypesOK DEF IInv
<1>3. Changed = tile.correlationID + 1 /\ Changed \in 1..MaxOps /\ Changed \in 0..MaxOps
    BY <1>1, <1>2, TileNumbers, GeometryTileAssumption DEF Changed, Types
<1>4. /\ tile' \in TileType /\ tile'.correlationID = Changed
      /\ tile'.data = tile.data /\ tile'.layers = tile.layers /\ tile'.pending = tile.pending
      /\ tile'.failed = tile.failed /\ tile'.shown = tile.shown
    BY <1>1, <1>2, <1>3 DEF Types, TileType
<1>5. n \in WorkerMessage /\ n.type = "setShowCollisionBoxes" /\ n.type \in SetTypes /\ n.id = Changed
    BY <1>3 DEF WorkerMessage, SetTypes
<1> HIDE DEF n
<1>6. /\ workerBox' \in Seq(WorkerMessage) /\ OperationsInOrder' /\ CoalescedInFlight'
      /\ \A i \in 1..Len(workerBox') :
           workerBox'[i].type = "onImagesAvailable" => Suits(workerBox'[i], worker')
    BY <1>1, <1>3, <1>4, <1>5, OperationSent
<1>7. Complete'
    BY <1>1, <1>4 DEF IInv, Complete
<1>8. TypeInv'
    BY <1>1, <1>2, <1>4, <1>6, TypesOKNext DEF Types
<1> QED BY <1>1, <1>6, <1>7, <1>8
       DEF IInv, ResultsInOrder, Current, Contents, Fresh, Asked, ImagesSuit, LaidOutWithDependencies

(* A tile that is not pending after a result has been complete, or the result is that of its   *)
(* last operation: then the worker has seen all of them, and every layout on its way is of     *)
(* that operation too.                                                                         *)
LEMMA ResultCompletes ==
    ASSUME IInv, tileBox # <<>>, Head(tileBox).type \in ResultTypes, tileBox' = Tail(tileBox),
           UNCHANGED worker, ~StillPending(Head(tileBox))
    PROVE  LET m == Head(tileBox)
           IN  /\ worker.data = tile.data /\ worker.layers = tile.layers
               /\ m.type = "onLayout" => m.data = tile.data /\ m.layers = tile.layers
               /\ m.type = "onError" =>
                    \/ m.id = tile.correlationID
                    \/ tile.data + tile.layers # 0 =>
                         tile.failed \/ (tile.shown.data = tile.data /\ tile.shown.layers = tile.layers)
               /\ \A i \in 1..Len(tileBox') : tileBox'[i].type = "onLayout" =>
                    tileBox'[i].data = tile.data /\ tileBox'[i].layers = tile.layers
<1> DEFINE m == Head(tileBox)
<1>1. Types
    BY TypesOK DEF IInv
<1>2. /\ m \in TileMessage /\ m = tileBox[1] /\ 1 \in 1..Len(tileBox) /\ m.id \in Nat
      /\ m.type \in ResultTypes
      /\ \A i \in 1..Len(tileBox') : i + 1 \in 1..Len(tileBox) /\ 1 < i + 1 /\ tileBox'[i] = tileBox[i + 1]
    BY <1>1, TailFacts, TileMessageFacts, GeometryTileAssumption DEF Types
<1>3. /\ tile.correlationID \in Nat /\ worker.correlationID \in Nat
    BY <1>1, TileNumbers, WorkerNumbers DEF Types
<1>4. CASE ~tile.pending
    BY <1>2, <1>4 DEF IInv, Complete, ResultTypes
<1>5. CASE m.id = tile.correlationID
    <2>1. worker.correlationID = tile.correlationID
        BY <1>2, <1>3, <1>5 DEF IInv, ResultsInOrder, OperationsInOrder
    <2>2. worker.data = tile.data /\ worker.layers = tile.layers
        <3>1. ASSUME NEW i \in 1..Len(workerBox) PROVE workerBox[i].type \notin SetTypes
            <4>1. workerBox[i].type \in SetTypes => workerBox[i].id \in Nat
                BY <1>1, WorkerMessageFacts, GeometryTileAssumption DEF Types
            <4> QED BY <1>3, <2>1, <4>1 DEF IInv, OperationsInOrder
        <3> QED BY <3>1 DEF IInv, OperationsInOrder, SetTypes
    <2>3. ASSUME NEW i \in 1..Len(tileBox), tileBox[i].type = "onLayout"
          PROVE  tileBox[i].data = tile.data /\ tileBox[i].layers = tile.layers
        <3>1. tileBox[i].id \in Nat /\ tileBox[i].type \in ResultTypes
            BY <1>1, <2>3, TileMessageFacts, GeometryTileAssumption DEF Types, ResultTypes
        <3>2. m.id <= tileBox[i].id
            BY <1>2, <2>3, <3>1 DEF IInv, ResultsInOrder
        <3>3. tileBox[i].id <= worker.correlationID
            BY <3>1 DEF IInv, ResultsInOrder
        <3>4. tileBox[i].id = worker.correlationID
            BY <1>3, <1>5, <2>1, <3>1, <3>2, <3>3
        <3> QED BY <2>2, <2>3, <3>4 DEF IInv, ResultsInOrder
    <2> QED BY <1>2, <1>5, <2>2, <2>3
<1> QED BY <1>4, <1>5 DEF StillPending

LEMMA TileOnLayoutStep == ASSUME IInv, TileOnLayout PROVE IInv'
<1> DEFINE m == Head(tileBox)
           p == StillPending(m)
<1>1. /\ tileBox # <<>> /\ m.type = "onLayout" /\ m.type \in ResultTypes /\ tileBox' = Tail(tileBox)
      /\ UNCHANGED <<worker, workerBox, glyphs, images>>
      /\ tile' = [tile EXCEPT !.loaded = TRUE, !.pending = p,
                              !.shown = [data |-> m.data, layers |-> m.layers, boxes |-> m.boxes]]
    BY DEF TileOnLayout, TileTakes, ResultTypes
<1>2. Types
    BY TypesOK DEF IInv
<1>3. m.data \in 0..MaxOps /\ m.layers \in 0..MaxOps /\ m.boxes \in BOOLEAN
    <2>1. m \in TileMessage
        BY <1>1, <1>2, TailFacts DEF Types
    <2> QED BY <1>1, <2>1, TileMessageFacts, GeometryTileAssumption
<1>4. p \in BOOLEAN
    BY DEF StillPending
<1>5. ~p => /\ worker.data = tile.data /\ worker.layers = tile.layers
            /\ m.data = tile.data /\ m.layers = tile.layers
            /\ \A i \in 1..Len(tileBox') : tileBox'[i].type = "onLayout" =>
                 tileBox'[i].data = tile.data /\ tileBox'[i].layers = tile.layers
    BY <1>1, ResultCompletes
<1>6. /\ tileBox' \in Seq(TileMessage) /\ ResultsInOrder' /\ LaidOutWithDependencies'
      /\ Current(worker)' /\ Asked(worker)'
      /\ \A i \in 1..Len(tileBox') : tileBox'[i].type = "getImages" => Suits(tileBox'[i], worker')
    BY <1>1, MessageTaken
<1> HIDE DEF m, p
<1>7. /\ tile' \in TileType /\ tile'.correlationID = tile.correlationID /\ tile'.pending = p
      /\ tile'.data = tile.data /\ tile'.layers = tile.layers
      /\ tile'.shown.data = m.data /\ tile'.shown.layers = m.layers
    <2>1. PICK d \in 0..MaxOps : d = m.data
        BY <1>3
    <2>2. PICK l \in 0..MaxOps : l = m.layers
        BY <1>3
    <2>3. PICK b \in BOOLEAN : b = m.boxes
        BY <1>3
    <2>4. tile' = [tile EXCEPT !.loaded = TRUE, !.pending = p,
                               !.shown = [data |-> d, layers |-> l, boxes |-> b]]
        BY <1>1, <2>1, <2>2, <2>3
    <2> QED BY <1>2, <1>4, <2>1, <2>2, <2>4 DEF Types, TileType
<1>8. Complete'
    BY <1>1, <1>5, <1>7 DEF Complete
<1>9. OperationsInOrder' /\ CoalescedInFlight'
    BY <1>1, <1>7 DEF IInv, OperationsInOrder, CoalescedInFlight
<1>10. ImagesSuit'
    BY <1>1, <1>6 DEF IInv, ImagesSuit
<1>11. TypeInv'
    BY <1>1, <1>2, <1>6, <1>7, TypesOKNext DEF Types
<1> QED BY <1>6, <1>8, <1>9, <1>10, <1>11 DEF IInv

LEMMA TileOnErrorStep == ASSUME IInv, TileOnError PROVE IInv'
<1> DEFINE m == Head(tileBox)
           p == StillPending(m)
           last == m.id = tile.correlationID
<1>1. /\ tileBox # <<>> /\ m.type = "onError" /\ m.type \in ResultTypes /\ tileBox' = Tail(tileBox)
      /\ UNCHANGED <<worker, workerBox, glyphs, images>>
      /\ tile' = [tile EXCEPT !.loaded = TRUE, !.pending = p, !.failed = @ \/ last]
    BY DEF TileOnError, TileTakes, ResultTypes
<1>2. Types
    BY TypesOK DEF IInv
<1>3. p \in BOOLEAN /\ last \in BOOLEAN
    BY DEF StillPending
<1>4. ~p => /\ worker.data = tile.data /\ worker.layers = tile.layers
            /\ \/ last
               \/ tile.data + tile.layers # 0 =>
                    tile.failed \/ (tile.shown.data = tile.data /\ tile.shown.layers = tile.layers)
            /\ \A i \in 1..Len(tileBox') : tileBox'[i].type = "onLayout" =>
                 tileBox'[i].data = tile.data /\ tileBox'[i].layers = tile.layers
    BY <1>1, ResultCompletes
<1>5. /\ tileBox' \in Seq(TileMessage) /\ ResultsInOrder' /\ LaidOutWithDependencies'
      /\ Current(worker)' /\ Asked(worker)'
      /\ \A i \in 1..Len(tileBox') : tileBox'[i].type = "getImages" => Suits(tileBox'[i], worker')
    BY <1>1, MessageTaken
<1> HIDE DEF m, p, last
<1>6. /\ tile' \in TileType /\ tile'.correlationID = tile.correlationID /\ tile'.pending = p
      /\ tile'.data = tile.data /\ tile'.layers = tile.layers /\ tile'.shown = tile.shown
    BY <1>1, <1>2, <1>3 DEF Types, TileType
<1>7. tile'.failed = (tile.failed \/ last)
    BY <1>1, <1>2, <1>3 DEF Types, TileType
<1>8. Complete'
    <2> SUFFICES ASSUME ~p
                 PROVE  tile.data + tile.layers # 0 =>
                          \/ tile'.failed
                          \/ tile.shown.data = tile.data /\ tile.shown.layers = tile.layers
        BY <1>1, <1>4, <1>6 DEF Complete
    <2>1. CASE last
        BY <1>7, <2>1, Zenon
    <2>2. CASE tile.failed
        BY <1>7, <2>2, Zenon
    <2> QED BY <1>4, <2>1, <2>2
<1>9. OperationsInOrder' /\ CoalescedInFlight'
    BY <1>1, <1>6 DEF IInv, OperationsInOrder, CoalescedInFlight
<1>10. ImagesSuit'
    BY <1>1, <1>5 DEF IInv, ImagesSuit
<1>11. TypeInv'
    BY <1>1, <1>2, <1>5, <1>6, TypesOKNext DEF Types
<1> QED BY <1>5, <1>8, <1>9, <1>10, <1>11 DEF IInv

LEMMA SetErrorStep == ASSUME IInv, SetError PROVE IInv'
<1>1. UNCHANGED <<worker, workerBox, tileBox, glyphs, images>> /\ tile' = [tile EXCEPT !.loaded = TRUE]
    BY DEF SetError
<1>2. Types
    BY TypesOK DEF IInv
<1>3. /\ tile' \in TileType /\ tile'.correlationID = tile.correlationID /\ tile'.pending = tile.pending
      /\ tile'.data = tile.data /\ tile'.layers = tile.layers
      /\ tile'.failed = tile.failed /\ tile'.shown = tile.shown
    BY <1>1, <1>2 DEF Types, TileType
<1>4. OperationsInOrder' /\ Complete'
    BY <1>1, <1>3 DEF IInv, OperationsInOrder, Complete
<1>5. TypeInv'
    BY <1>1, <1>2, <1>3, TypesOKNext DEF Types
<1> QED BY <1>1, <1>4, <1>5
       DEF IInv, ResultsInOrder, Current, Contents, Fresh, Asked, ImagesSuit, LaidOutWithDependencies,
           CoalescedInFlight

----------------------------------------------------------------------------
(* A glyph request or reply neither completes the tile nor concerns its images. *)
LEMMA LayoutsKept ==
    ASSUME IInv, tileBox # <<>>, tileBox' = Tail(tileBox), UNCHANGED <<tile, worker>>
    PROVE  Complete'
BY MessageTaken DEF IInv, Complete

LEMMA TileGetGlyphsStep == ASSUME IInv, TileGetGlyphs PROVE IInv'
<1> DEFINE wanted == Head(tileBox).glyphs
           missing == wanted \ glyphs.parsed
           n == [type |-> "onGlyphsAvailable", glyphs |-> wanted]
<1>1. /\ tileBox # <<>> /\ Head(tileBox).type = "getGlyphs" /\ tileBox' = Tail(tileBox)
      /\ UNCHANGED <<tile, worker, images>>
      /\ workerBox' = Append(workerBox, n) \/ UNCHANGED workerBox
      /\ glyphs' = [glyphs EXCEPT !.requestors =
                      [g \in Glyphs |-> IF g \in missing THEN wanted ELSE @[g]]]
    BY DEF TileGetGlyphs, TileTakes, ToWorker
<1>2. Types
    BY TypesOK DEF IInv
<1>3. wanted \in SUBSET Glyphs
    <2>1. Head(tileBox) \in TileMessage
        BY <1>1, <1>2, TailFacts DEF Types
    <2> QED BY <1>1, <2>1, TileMessageFacts
<1> HIDE DEF wanted, missing
<1>4. glyphs' \in GlyphsType
    BY <1>1, <1>2, <1>3 DEF Types, GlyphsType
<1>5. n \in WorkerMessage /\ n.type = "onGlyphsAvailable"
    BY <1>3 DEF WorkerMessage
<1> HIDE DEF n
<1>6. /\ tileBox' \in Seq(TileMessage) /\ ResultsInOrder' /\ LaidOutWithDependencies'
      /\ Current(worker)' /\ Asked(worker)'
      /\ \A i \in 1..Len(tileBox') : tileBox'[i].type = "getImages" => Suits(tileBox'[i], worker')
    BY <1>1, MessageTaken
<1>7. Complete'
    BY <1>1, LayoutsKept
<1>8. /\ workerBox' \in Seq(WorkerMessage) /\ OperationsInOrder' /\ CoalescedInFlight'
      /\ \A i \in 1..Len(workerBox') :
           workerBox'[i].type = "onImagesAvailable" => Suits(workerBox'[i], worker')
    <2>1. CASE workerBox' = Append(workerBox, n)
        BY <1>1, <1>5, <2>1, MessageSent DEF SetTypes
    <2>2. CASE UNCHANGED workerBox
        BY <1>1, <1>2, <2>2 DEF IInv, Types, OperationsInOrder, CoalescedInFlight, ImagesSuit
    <2> QED BY <1>1, <2>1, <2>2
<1>9. ImagesSuit'
    BY <1>1, <1>6, <1>8 DEF IInv, ImagesSuit
<1>10. TypeInv'
    BY <1>1, <1>2, <1>4, <1>6, <1>8, TypesOKNext DEF Types
<1> QED BY <1>6, <1>7, <1>8, <1>9, <1>10 DEF IInv

LEMMA GlyphRangeParsedStep == ASSUME IInv, NEW g \in Glyphs, GlyphRangeParsed(g) PROVE IInv'
<1> DEFINE wanted == glyphs.requestors[g]
           n == [type |-> "onGlyphsAvailable", glyphs |-> wanted]
<1>1. /\ wanted # None /\ UNCHANGED <<tile, worker, tileBox, images>>
      /\ workerBox' = Append(workerBox, n) \/ UNCHANGED workerBox
      /\ glyphs' = [glyphs EXCEPT !.parsed = @ \cup {g}, !.requestors[g] = None]
    BY DEF GlyphRangeParsed, ToWorker
<1>2. Types
    BY TypesOK DEF IInv
<1>3. wanted \in SUBSET Glyphs
    BY <1>1, <1>2 DEF Types, GlyphsType
<1>4. glyphs' \in GlyphsType
    BY <1>1, <1>2 DEF Types, GlyphsType
<1> HIDE DEF wanted
<1>5. n \in WorkerMessage /\ n.type = "onGlyphsAvailable"
    BY <1>3 DEF WorkerMessage
<1> HIDE DEF n
<1>6. /\ workerBox' \in Seq(WorkerMessage) /\ OperationsInOrder' /\ CoalescedInFlight'
      /\ \A i \in 1..Len(workerBox') :
           workerBox'[i].type = "onImagesAvailable" => Suits(workerBox'[i], worker')
    <2>1. CASE workerBox' = Append(workerBox, n)
        BY <1>1, <1>5, <2>1, MessageSent DEF SetTypes
    <2>2. CASE UNCHANGED workerBox
        BY <1>1, <1>2, <2>2 DEF IInv, Types, OperationsInOrder, CoalescedInFlight, ImagesSuit
    <2> QED BY <1>1, <2>1, <2>2
<1>7. ImagesSuit'
    BY <1>1, <1>6 DEF IInv, ImagesSuit
<1>8. TypeInv'
    BY <1>1, <1>2, <1>4, <1>6, TypesOKNext DEF Types
<1> QED BY <1>1, <1>6, <1>7, <1>8
       DEF IInv, ResultsInOrder, Current, Contents, Fresh, Asked, Complete, LaidOutWithDependencies

LEMMA TileGetImagesStep == ASSUME IInv, TileGetImages PROVE IInv'
<1> DEFINE m == Head(tileBox)
<1>1. /\ tileBox # <<>> /\ m.type = "getImages" /\ tileBox' = Tail(tileBox)
      /\ UNCHANGED <<tile, worker, workerBox, glyphs>>
      /\ images' = [images |-> m.images, id |-> m.id]
    BY DEF TileGetImages, TileTakes
<1>2. Types
    BY TypesOK DEF IInv
<1>3. m \in TileMessage /\ m = tileBox[1] /\ 1 \in 1..Len(tileBox)
    BY <1>1, <1>2, TailFacts DEF Types
<1>4. m.images \subseteq Images /\ m.id \in Nat /\ Suits(m, worker)
    BY <1>1, <1>3, TileMessageFacts DEF IInv, ImagesSuit
<1> HIDE DEF m
<1>5. images' \in ImagesType /\ Suits(images', worker)
    BY <1>1, <1>4 DEF ImagesType, Suits
<1>6. /\ tileBox' \in Seq(TileMessage) /\ ResultsInOrder' /\ LaidOutWithDependencies'
      /\ Current(worker)' /\ Asked(worker)'
      /\ \A i \in 1..Len(tileBox') : tileBox'[i].type = "getImages" => Suits(tileBox'[i], worker')
    BY <1>1, MessageTaken DEF m
<1>7. Complete'
    BY <1>1, LayoutsKept
<1>8. ImagesSuit'
    BY <1>1, <1>5, <1>6 DEF IInv, ImagesSuit
<1>9. TypeInv'
    BY <1>1, <1>2, <1>5, <1>6, TypesOKNext DEF Types
<1> QED BY <1>1, <1>6, <1>7, <1>8, <1>9 DEF IInv, OperationsInOrder, CoalescedInFlight

LEMMA NotifyImagesStep == ASSUME IInv, NotifyImages PROVE IInv'
<1> DEFINE n == [type |-> "onImagesAvailable", images |-> images.images, id |-> images.id]
<1>1. /\ images # None /\ images' = None /\ UNCHANGED <<tile, worker, tileBox, glyphs>>
      /\ workerBox' = Append(workerBox, n)
    BY DEF NotifyImages, ToWorker
<1>2. Types
    BY TypesOK DEF IInv
<1>3. n \in WorkerMessage /\ n.type = "onImagesAvailable" /\ Suits(n, worker)
    <2>1. images \in [images : SUBSET Images, id : Nat] /\ Suits(images, worker)
        BY <1>1, <1>2 DEF Types, ImagesType, IInv, ImagesSuit
    <2> QED BY <2>1 DEF WorkerMessage, Suits
<1> HIDE DEF n
<1>4. /\ workerBox' \in Seq(WorkerMessage) /\ OperationsInOrder' /\ CoalescedInFlight'
      /\ \A i \in 1..Len(workerBox') :
           workerBox'[i].type = "onImagesAvailable" => Suits(workerBox'[i], worker')
    BY <1>1, <1>3, MessageSent DEF SetTypes
<1>5. ImagesSuit'
    BY <1>1, <1>4 DEF IInv, ImagesSuit
<1>6. TypeInv'
    BY <1>1, <1>2, <1>4, TypesOKNext DEF Types, ImagesType
<1> QED BY <1>1, <1>4, <1>5, <1>6
       DEF IInv, ResultsInOrder, Current, Contents, Fresh, Asked, Complete, LaidOutWithDependencies

----------------------------------------------------------------------------
LEMMA InitIInv == Init => IInv
<1> SUFFICES ASSUME Init PROVE IInv
    OBVIOUS
<1>1. /\ tile.correlationID = 0 /\ tile.data = 0 /\ tile.layers = 0
      /\ worker.correlationID = 0 /\ worker.data = 0 /\ worker.layers = 0 /\ worker.state = "Idle"
      /\ worker.result = None /\ worker.threw = FALSE
      /\ workerBox = <<>> /\ tileBox = <<>> /\ images = None
    BY DEF Init
<1>2. Types
    <2>1. tile \in TileType
        BY GeometryTileAssumption DEF Init, TileType
    <2>2. worker \in WorkerType
        BY GeometryTileAssumption DEF Init, WorkerType
    <2>3. glyphs \in GlyphsType /\ images \in ImagesType
        BY DEF Init, GlyphsType, ImagesType
    <2> QED BY <1>1, <2>1, <2>2, <2>3 DEF Types
<1>3. OperationsInOrder /\ ResultsInOrder /\ LaidOutWithDependencies
    BY <1>1 DEF OperationsInOrder, ResultsInOrder, LaidOutWithDependencies
<1>4. Current(worker) /\ Complete /\ Asked(worker) /\ ImagesSuit
    BY <1>1 DEF Current, Contents, Fresh, Complete, Asked, ImagesSuit
<1>5. CoalescedInFlight
    BY <1>1, <1>2, CoalescedCount, EmptyIn DEF CoalescedInFlight, Types
<1> QED BY <1>2, <1>3, <1>4, <1>5, TypesOK DEF IInv

LEMMA NextIInv == IInv /\ [Next]_vars => IInv'
<1> SUFFICES ASSUME IInv, [Next]_vars PROVE IInv'
    OBVIOUS
<1>1. CASE SetData \/ SetLayers \/ SetShowCollisionBoxes \/ SetError
    BY <1>1, SetDataStep, SetLayersStep, SetShowCollisionBoxesStep, SetErrorStep
<1>2. CASE WorkerStep
    BY <1>2, WorkerSetDataStep, WorkerSetLayersStep, WorkerSetBoxesStep, WorkerOnGlyphsStep,
       WorkerOnImagesStep, WorkerCoalescedStep DEF WorkerStep
<1>3. CASE TileStep
    BY <1>3, TileOnLayoutStep, TileOnErrorStep, TileGetGlyphsStep, TileGetImagesStep DEF TileStep
<1>4. CASE NotifyImages \/ \E g \in Glyphs : GlyphRangeParsed(g)
    BY <1>4, NotifyImagesStep, GlyphRangeParsedStep
<1>5. CASE UNCHANGED vars
    <2>1. /\ tile' = tile /\ worker' = worker /\ workerBox' = workerBox /\ tileBox' = tileBox
          /\ glyphs' = glyphs /\ images' = images
        BY <1>5 DEF vars
    <2>2. TypeInv'
        BY <2>1, TypesOK, TypesOKNext DEF IInv, Types
    <2>3. OperationsInOrder' /\ ResultsInOrder'
        BY <2>1 DEF IInv, OperationsInOrder, ResultsInOrder
    <2>4. Current(worker)' /\ Complete'
        BY <2>1 DEF IInv, Current, Contents, Fresh, Complete
    <2>5. Asked(worker)' /\ ImagesSuit'
        BY <2>1 DEF IInv, Asked, ImagesSuit
    <2>6. CoalescedInFlight' /\ LaidOutWithDependencies'
        BY <2>1 DEF IInv, CoalescedInFlight, LaidOutWithDependencies
    <2> QED BY <2>2, <2>3, <2>4, <2>5, <2>6 DEF IInv
<1> QED BY <1>1, <1>2, <1>3, <1>4, <1>5 DEF Next

(* The inductive invariant behind the theorems below: operations and results stay in order,    *)
(* parse results belong to the contents they were made from and have asked for all they need.  *)
THEOREM Invariant == Spec => []IInv
BY InitIInv, NextIInv, PTL DEF Spec

(* GeometryTile, its worker and their messages keep their types: in particular a layout is     *)
(* only sent with data and layers (GeometryTileWorker::finalizeLayout).                        *)
THEOREM TypeCorrect == Spec => []TypeOK
<1>1. IInv => TypeOK
    BY DEF IInv, TypeInv
<1> QED BY <1>1, Invariant, PTL

(* The worker is out of [Idle] exactly while its self-sent "coalesced" is on the way back, so  *)
(* the assert(false) of coalesced() in [Idle] is not met until parsing throws.                 *)
THEOREM OneCoalescedInFlight == Spec => []CoalescedInFlight
<1>1. IInv => CoalescedInFlight
    BY DEF IInv
<1> QED BY <1>1, Invariant, PTL

(* A tile that is not pending shows what it was last given or has failed on it, whatever       *)
(* results of earlier operations arrived in between (GeometryTile::onLayout and onError).      *)
THEOREM CompleteShowsLatest == Spec => []LatestWhenComplete
<1>1. IInv => LatestWhenComplete
    BY DEF IInv, Complete, LatestWhenComplete
<1> QED BY <1>1, Invariant, PTL

(* The image correlation ID keeps late replies to earlier image requests from finishing a      *)
(* layout: one made from a whole parse has all of its glyphs and images.                       *)
THEOREM LayoutsHaveDependencies == Spec => []LaidOutWithDependencies
<1>1. IInv => LaidOutWithDependencies
    BY DEF IInv
<1> QED BY <1>1, Invariant, PTL

----------------------------------------------------------------------------
(***************************************************************************)
(* While every style keeps a symbol layer, a parse result that has not been *)
(* sent waits for something that will finish its layouts.                   *)
(***************************************************************************)
SymbolsKept == \A p \in Parses : p.layouts

Paired(w) == w.layouts <=> w.result # None
Waits(w) == w.result # None => HasPendingDependencies(w)
Resting(w) == w.state \in {"Idle", "Coalescing"} => Waits(w)

WaitInv == Paired(worker) /\ (~worker.threw => Resting(worker))

LEMMA FinalizeWaits ==
    ASSUME NEW w \in WorkerType, Contents(w), Fresh(w), Asked(w), Paired(w)
    PROVE  Paired(FinalizeLayout(w).w) /\ Waits(FinalizeLayout(w).w)
<1>1. CASE w.data = 0 \/ w.layers = 0 \/ w.result = None \/ HasPendingDependencies(w)
    BY <1>1 DEF FinalizeLayout, Outcome, Waits, Contents
<1>2. CASE ~(w.data = 0 \/ w.layers = 0 \/ w.result = None \/ HasPendingDependencies(w))
    <2>1. FinalizeLayout(w).w = [w EXCEPT !.layouts = FALSE, !.result = None]
        BY <1>2 DEF FinalizeLayout, Outcome
    <2>2. FinalizeLayout(w).w.layouts = FALSE /\ FinalizeLayout(w).w.result = None
        BY <2>1 DEF WorkerType
    <2> QED BY <2>2 DEF Paired, Waits
<1> QED BY <1>1, <1>2

LEMMA ParseWaits ==
    ASSUME SymbolsKept, NEW w \in WorkerType, Contents(w), Paired(w)
    PROVE  Paired(Parse(w).w) /\ (~Parse(w).threw => Waits(Parse(w).w))
<1>1. CASE w.data = 0 \/ w.layers = 0
    BY <1>1 DEF Parse, Outcome, Waits, Contents
<1>2. CASE ~(w.data = 0 \/ w.layers = 0)
    <2> DEFINE r == [data |-> w.data, layers |-> w.layers,
                     needs |-> w.contents.glyphs \cup w.contents.images,
                     whole |-> ~w.contents.throws]
               b == [w EXCEPT !.layouts = w.contents.layouts, !.result = r]
               o1 == RequestNewGlyphs(b)
               o2 == RequestNewImages(o1.w)
               all == o1.sent \o o2.sent \o FinalizeLayout(o2.w).sent
    <2>1. /\ w.contents.throws => Parse(w) = [Outcome(b, <<>>) EXCEPT !.threw = TRUE]
          /\ ~w.contents.throws => Parse(w) = Outcome(FinalizeLayout(o2.w).w, all)
        BY <1>2 DEF Parse
    <2> HIDE DEF all
    <2>2. /\ w.contents \in Parses /\ w.contents \in ParseKind
          /\ w.contents.glyphs \subseteq Glyphs /\ w.contents.images \subseteq Images
          /\ w.contents.throws \in BOOLEAN /\ w.contents.layouts
        BY <1>2, GeometryTileAssumption DEF Contents, ParseKind, SymbolsKept
    <2>3. /\ r \in ParseResult /\ r.data = w.data /\ r.layers = w.layers
          /\ r.needs \cap Glyphs = w.contents.glyphs /\ r.needs \cap Images = w.contents.images
        BY <1>2, <2>2, GeometryTileAssumption DEF ParseResult, WorkerType
    <2>4. r # None
        BY <2>3, GeometryTileAssumption
    <2> HIDE DEF r
    <2>5. /\ b.result = r /\ b.data = w.data /\ b.layers = w.layers /\ b.contents = w.contents
          /\ b.correlationID = w.correlationID
        BY DEF WorkerType
    <2>6. b.layouts
        BY <2>2 DEF WorkerType
    <2>7. b \in WorkerType
        BY <2>2, <2>3, <2>6 DEF WorkerType
    <2> HIDE DEF b
    <2>8. CASE w.contents.throws
        <3>1. Parse(w).w = b /\ Parse(w).threw = TRUE
            BY <2>1, <2>8 DEF Outcome
        <3> QED BY <2>4, <2>5, <2>6, <3>1 DEF Paired
    <2>9. CASE ~w.contents.throws
        <3>1. /\ Keeps(o1.w, b) /\ o1.w.result = r
              /\ b.contents.glyphs \subseteq o1.w.glyphMap \cup o1.w.pendingGlyphs
            BY <2>2, <2>5, <2>7, GlyphsSound
        <3>2. o1.w.layouts
            BY <2>6, <2>7 DEF RequestNewGlyphs, Outcome, WorkerType
        <3> HIDE DEF o1
        <3>3. o1.w \in WorkerType /\ o1.w.contents = w.contents /\ o1.w.contents \in Parses
            BY <2>2, <2>5, <3>1 DEF Keeps
        <3>4. /\ Keeps(o2.w, o1.w) /\ o2.w.result = r /\ o2.w.glyphMap = o1.w.glyphMap
              /\ o2.w.pendingGlyphs = o1.w.pendingGlyphs /\ o2.w.pendingImages = w.contents.images
            BY <3>1, <3>3, ImagesSound
        <3>5. o2.w.layouts
            BY <3>2, <3>3 DEF RequestNewImages, Outcome, WorkerType
        <3> HIDE DEF o2
        <3>6. /\ o2.w \in WorkerType /\ o2.w.data = w.data /\ o2.w.layers = w.layers
              /\ o2.w.contents = w.contents /\ o2.w.correlationID = w.correlationID
            BY <2>5, <3>1, <3>3, <3>4 DEF Keeps
        <3>7. Contents(o2.w) /\ Fresh(o2.w) /\ Paired(o2.w)
            BY <1>2, <2>3, <2>4, <3>4, <3>5, <3>6 DEF Contents, Fresh, Paired
        <3>8. Asked(o2.w)
            BY <2>3, <2>5, <3>1, <3>4 DEF Asked
        <3>9. Paired(FinalizeLayout(o2.w).w) /\ Waits(FinalizeLayout(o2.w).w)
            BY <3>6, <3>7, <3>8, FinalizeWaits
        <3>10. Parse(w).w = FinalizeLayout(o2.w).w
            BY <2>1, <2>9 DEF Outcome
        <3> QED BY <3>9, <3>10
    <2> QED BY <2>2, <2>8, <2>9
<1> QED BY <1>1, <1>2

(* The state alone is changed. *)
LEMMA StatePairs ==
    ASSUME NEW w \in WorkerType,
           NEW s \in {"Idle", "Coalescing", "NeedsParse", "NeedsSymbolLayout"}
    PROVE  LET v == [w EXCEPT !.state = s]
           IN  /\ v.state = s /\ v.threw = w.threw /\ (Paired(w) => Paired(v))
               /\ Waits(w) => Waits(v)
BY DEF WorkerType, Paired, Waits, HasPendingDependencies

(* A handler that ends as o leaves the worker paired, and resting only while it waits. *)
Rests(o) == Paired(o.w) /\ (~worker.threw /\ ~o.threw => Resting(o.w))

LEMMA CoalesceRests ==
    ASSUME NEW o, o \in OutcomeType, Paired(o.w), ~o.threw => Waits(o.w)
    PROVE  Rests(Coalesce(o))
<1>1. CASE o.threw
    BY <1>1 DEF Coalesce, Rests
<1>2. CASE ~o.threw
    <2> DEFINE v == [o.w EXCEPT !.state = "Coalescing"]
    <2>1. o.w \in WorkerType
        BY DEF OutcomeType
    <2>2. Paired(v) /\ Waits(v)
        BY <1>2, <2>1, StatePairs
    <2>3. Coalesce(o) = [[o EXCEPT !.w = v] EXCEPT !.coalesced = TRUE]
        BY <1>2 DEF Coalesce, OutcomeType
    <2> HIDE DEF v
    <2>4. Coalesce(o).w = v
        BY <2>3 DEF OutcomeType
    <2> QED BY <2>2, <2>4 DEF Rests, Resting
<1> QED BY <1>1, <1>2

LEMMA ParseOrPostponeRests ==
    ASSUME SymbolsKept, NEW w \in WorkerType, Contents(w), Paired(w)
    PROVE  Rests(ParseOrPostpone(w)) /\ ParseOrPostpone(w) \in OutcomeType
<1>1. CASE w.state = "Idle"
    <2>1. Parse(w) \in OutcomeType /\ Sound(Parse(w), w)
        BY ParseSound DEF Sound
    <2>2. ParseOrPostpone(w) = Coalesce(Parse(w))
        BY <1>1 DEF ParseOrPostpone
    <2>3. Coalesce(Parse(w)) \in OutcomeType
        BY <2>1, CoalesceDone DEF Done
    <2> QED BY <2>1, <2>2, <2>3, ParseWaits, CoalesceRests
<1>2. CASE w.state # "Idle"
    <2> DEFINE v == [w EXCEPT !.state = "NeedsParse"]
    <2>1. ParseOrPostpone(w) = Outcome(v, <<>>)
        BY <1>2 DEF ParseOrPostpone
    <2>2. v.state = "NeedsParse" /\ Paired(v) /\ v \in WorkerType
        BY StatePairs, StateChanged
    <2> HIDE DEF v
    <2> QED BY <2>1, <2>2 DEF Rests, Resting, Outcome, OutcomeType
<1> QED BY <1>1, <1>2

LEMMA SymbolDependenciesRest ==
    ASSUME NEW w \in WorkerType, Current(w), Asked(w), Paired(w)
    PROVE  Rests(SymbolDependenciesChanged(w)) /\ SymbolDependenciesChanged(w) \in OutcomeType
<1>1. CASE w.state = "Idle" /\ w.layouts
    <2>1. Sound(FinalizeLayout(w), w) /\ FinalizeLayout(w) \in OutcomeType
        BY <1>1, FinalizeSound DEF Current, Sound
    <2>2. Paired(FinalizeLayout(w).w) /\ Waits(FinalizeLayout(w).w)
        BY <1>1, FinalizeWaits DEF Current
    <2>3. SymbolDependenciesChanged(w) = Coalesce(FinalizeLayout(w))
        BY <1>1 DEF SymbolDependenciesChanged
    <2>4. Coalesce(FinalizeLayout(w)) \in OutcomeType
        BY <2>1, CoalesceDone DEF Done
    <2> QED BY <2>1, <2>2, <2>3, <2>4, CoalesceRests
<1>2. CASE w.state = "Coalescing" /\ w.layouts
    <2> DEFINE v == [w EXCEPT !.state = "NeedsSymbolLayout"]
    <2>1. SymbolDependenciesChanged(w) = Outcome(v, <<>>)
        BY <1>2 DEF SymbolDependenciesChanged
    <2>2. v.state = "NeedsSymbolLayout" /\ Paired(v) /\ v \in WorkerType
        BY StatePairs, StateChanged
    <2> HIDE DEF v
    <2> QED BY <2>1, <2>2 DEF Rests, Resting, Outcome, OutcomeType
<1>3. CASE ~(w.state = "Idle" /\ w.layouts) /\ ~(w.state = "Coalescing" /\ w.layouts)
    <2>1. SymbolDependenciesChanged(w) = Outcome(w, <<>>)
        BY <1>3 DEF SymbolDependenciesChanged
    <2> QED BY <1>3, <2>1 DEF Rests, Resting, Waits, Paired, Outcome, OutcomeType
<1> QED BY <1>1, <1>2, <1>3

LEMMA RestKept ==
    ASSUME NEW o \in OutcomeType, o.w.threw = worker.threw, Rests(o), Ends(o)
    PROVE  WaitInv'
<1>1. o.w \in WorkerType /\ o.threw \in BOOLEAN /\ worker' = [o.w EXCEPT !.threw = @ \/ o.threw]
    BY DEF OutcomeType, Ends
<1>2. /\ worker'.state = o.w.state /\ worker'.layouts = o.w.layouts /\ worker'.result = o.w.result
      /\ worker'.pendingGlyphs = o.w.pendingGlyphs /\ worker'.pendingImages = o.w.pendingImages
    BY <1>1 DEF WorkerType
<1>3. worker'.threw = (o.w.threw \/ o.threw)
    BY <1>1 DEF WorkerType
<1>4. ~worker'.threw => ~worker.threw /\ ~o.threw
    BY <1>3, Zenon
<1>5. Paired(o.w) => Paired(worker)'
    BY <1>2 DEF Paired
<1>6. Resting(o.w) => Resting(worker)'
    BY <1>2 DEF Resting, Waits, HasPendingDependencies
<1> QED BY <1>4, <1>5, <1>6 DEF Rests, WaitInv

LEMMA WorkerWaits == ASSUME SymbolsKept, IInv, WaitInv, WorkerStep PROVE WaitInv'
<1>1. worker \in WorkerType /\ workerBox \in Seq(WorkerMessage)
    BY TypesOK DEF IInv, Types
<1>2. /\ Current(worker) /\ Contents(worker) /\ Asked(worker) /\ Paired(worker)
      /\ ~worker.threw => Resting(worker)
    BY DEF IInv, WaitInv, Current
<1> DEFINE m == Head(workerBox)
<1>3. workerBox # <<>> => /\ m \in WorkerMessage
                          /\ m.type = "onImagesAvailable" => Suits(m, worker)
    BY <1>1, TailFacts DEF IInv, ImagesSuit
<1>4. CASE WorkerSetData
    <2> DEFINE w == [worker EXCEPT !.data = m.id, !.contents = m.contents, !.correlationID = m.id]
    <2>1. workerBox # <<>> /\ m.type = "setData" /\ Ends(ParseOrPostpone(w))
        BY <1>4 DEF WorkerSetData, Takes
    <2>2. m.id \in 1..MaxOps /\ m.id # 0 /\ m.contents \in Parses
        BY <1>3, <2>1, WorkerMessageFacts, GeometryTileAssumption DEF SetTypes
    <2> HIDE DEF m
    <2>3. /\ w \in WorkerType /\ w.contents \in Parses /\ w.correlationID # 0 /\ w.data # 0
          /\ w.layers = worker.layers /\ w.result = worker.result /\ w.layouts = worker.layouts
          /\ w.threw = worker.threw
          /\ w.glyphMap = worker.glyphMap /\ w.pendingGlyphs = worker.pendingGlyphs
          /\ w.imageMap = worker.imageMap /\ w.pendingImages = worker.pendingImages
        <3>1. PICK id \in 0..MaxOps : id = m.id
            BY <2>2, GeometryTileAssumption
        <3>2. PICK c \in Parses : c = m.contents
            BY <2>2
        <3>3. w = [worker EXCEPT !.data = id, !.contents = c, !.correlationID = id]
            BY <3>1, <3>2
        <3> HIDE DEF w
        <3> QED BY <1>1, <2>2, <3>1, <3>2, <3>3 DEF WorkerType
    <2> HIDE DEF w
    <2>4. Contents(w) /\ Asked(w) /\ Paired(w)
        BY <1>2, <2>3 DEF Contents, Asked, Paired
    <2>5. Rests(ParseOrPostpone(w)) /\ ParseOrPostpone(w) \in OutcomeType
        BY <2>3, <2>4, ParseOrPostponeRests
    <2>6. ParseOrPostpone(w).w.threw = worker.threw
        BY <2>3, <2>4, ParseOrPostponeDone DEF Done
    <2> QED BY <2>1, <2>5, <2>6, RestKept
<1>5. CASE WorkerSetLayers
    <2> DEFINE w == [worker EXCEPT !.layers = m.id, !.contents = m.contents, !.correlationID = m.id]
    <2>1. workerBox # <<>> /\ m.type = "setLayers" /\ Ends(ParseOrPostpone(w))
        BY <1>5 DEF WorkerSetLayers, Takes
    <2>2. m.id \in 1..MaxOps /\ m.id # 0 /\ m.contents \in Parses
        BY <1>3, <2>1, WorkerMessageFacts, GeometryTileAssumption DEF SetTypes
    <2> HIDE DEF m
    <2>3. /\ w \in WorkerType /\ w.contents \in Parses /\ w.correlationID # 0 /\ w.layers # 0
          /\ w.data = worker.data /\ w.result = worker.result /\ w.layouts = worker.layouts
          /\ w.threw = worker.threw
          /\ w.glyphMap = worker.glyphMap /\ w.pendingGlyphs = worker.pendingGlyphs
          /\ w.imageMap = worker.imageMap /\ w.pendingImages = worker.pendingImages
        <3>1. PICK id \in 0..MaxOps : id = m.id
            BY <2>2, GeometryTileAssumption
        <3>2. PICK c \in Parses : c = m.contents
            BY <2>2
        <3>3. w = [worker EXCEPT !.layers = id, !.contents = c, !.correlationID = id]
            BY <3>1, <3>2
        <3> HIDE DEF w
        <3> QED BY <1>1, <2>2, <3>1, <3>2, <3>3 DEF WorkerType
    <2> HIDE DEF w
    <2>4. Contents(w) /\ Asked(w) /\ Paired(w)
        BY <1>2, <2>3 DEF Contents, Asked, Paired
    <2>5. Rests(ParseOrPostpone(w)) /\ ParseOrPostpone(w) \in OutcomeType
        BY <2>3, <2>4, ParseOrPostponeRests
    <2>6. ParseOrPostpone(w).w.threw = worker.threw
        BY <2>3, <2>4, ParseOrPostponeDone DEF Done
    <2> QED BY <2>1, <2>5, <2>6, RestKept
<1>6. CASE WorkerSetShowCollisionBoxes
    <2> DEFINE w == [worker EXCEPT !.boxes = m.boxes, !.correlationID = m.id]
               v == [w EXCEPT !.state = "NeedsSymbolLayout"]
               o == IF w.state = "Idle" /\ w.result = None THEN Coalesce(Parse(w))
                    ELSE IF w.state = "Coalescing" THEN Outcome(v, <<>>) ELSE Outcome(w, <<>>)
    <2>1. workerBox # <<>> /\ m.type = "setShowCollisionBoxes" /\ Ends(o)
        BY <1>6 DEF WorkerSetShowCollisionBoxes, Takes
    <2>2. m.id \in 1..MaxOps /\ m.id # 0 /\ m.boxes \in BOOLEAN
        BY <1>3, <2>1, WorkerMessageFacts, GeometryTileAssumption DEF SetTypes
    <2> HIDE DEF m
    <2>3. /\ w \in WorkerType /\ w.correlationID # 0 /\ w.state = worker.state
          /\ w.data = worker.data /\ w.layers = worker.layers /\ w.contents = worker.contents
          /\ w.result = worker.result /\ w.layouts = worker.layouts /\ w.threw = worker.threw
          /\ w.pendingGlyphs = worker.pendingGlyphs /\ w.pendingImages = worker.pendingImages
        <3>1. PICK id \in 0..MaxOps : id = m.id
            BY <2>2, GeometryTileAssumption
        <3>2. PICK b \in BOOLEAN : b = m.boxes
            BY <2>2
        <3>3. w = [worker EXCEPT !.boxes = b, !.correlationID = id]
            BY <3>1, <3>2
        <3> HIDE DEF w
        <3> QED BY <1>1, <2>2, <3>1, <3>2, <3>3 DEF WorkerType
    <2> HIDE DEF w
    <2>4. Contents(w) /\ Paired(w) /\ (~worker.threw => Resting(w))
        BY <1>2, <2>3 DEF Contents, Paired, Resting, Waits, HasPendingDependencies
    <2>5. /\ v.state = "NeedsSymbolLayout" /\ Paired(v) /\ v \in WorkerType /\ v.threw = w.threw
        BY <2>3, <2>4, StatePairs, StateChanged
    <2> HIDE DEF v
    <2>6. CASE w.state = "Idle" /\ w.result = None
        <3>1. Parse(w) \in OutcomeType /\ Sound(Parse(w), w)
            BY <2>3, <2>4, ParseSound DEF Sound
        <3>2. Rests(Coalesce(Parse(w)))
            BY <2>3, <2>4, <3>1, ParseWaits, CoalesceRests
        <3>3. Coalesce(Parse(w)) \in OutcomeType /\ Coalesce(Parse(w)).w.threw = worker.threw
            BY <2>3, <3>1, CoalesceDone DEF Done
        <3> QED BY <2>1, <2>6, <3>2, <3>3, RestKept
    <2>7. CASE w.state = "Coalescing"
        <3>1. o = Outcome(v, <<>>)
            BY <2>7
        <3> HIDE DEF o
        <3>2. o \in OutcomeType /\ o.w = v /\ o.threw = FALSE
            BY <2>5, <3>1 DEF Outcome, OutcomeType
        <3> QED BY <2>1, <2>3, <2>5, <3>2, RestKept DEF Rests, Resting
    <2>8. CASE ~(w.state = "Idle" /\ w.result = None) /\ w.state # "Coalescing"
        <3>1. o = Outcome(w, <<>>)
            BY <2>8
        <3> HIDE DEF o
        <3>2. o \in OutcomeType /\ o.w = w /\ o.threw = FALSE
            BY <2>3, <3>1 DEF Outcome, OutcomeType
        <3> QED BY <2>1, <2>3, <2>4, <3>2, RestKept DEF Rests
    <2> QED BY <2>6, <2>7, <2>8
<1>7. CASE WorkerOnGlyphsAvailable
    <2> DEFINE new == m.glyphs \cap worker.pendingGlyphs
               w == [worker EXCEPT !.pendingGlyphs = @ \ new, !.glyphMap = @ \cup new]
    <2>1. Ends(SymbolDependenciesChanged(w))
        BY <1>7 DEF WorkerOnGlyphsAvailable
    <2> HIDE DEF m
    <2>2. /\ worker.pendingGlyphs \ new \in SUBSET Glyphs /\ worker.glyphMap \cup new \in SUBSET Glyphs
        BY <1>1 DEF WorkerType
    <2> HIDE DEF new
    <2>3. /\ w \in WorkerType /\ w.state = worker.state /\ w.correlationID = worker.correlationID
          /\ w.data = worker.data /\ w.layers = worker.layers /\ w.contents = worker.contents
          /\ w.result = worker.result /\ w.layouts = worker.layouts
          /\ w.glyphMap = worker.glyphMap \cup new /\ w.pendingGlyphs = worker.pendingGlyphs \ new
          /\ w.imageMap = worker.imageMap /\ w.pendingImages = worker.pendingImages
          /\ w.threw = worker.threw
        BY <1>1, <2>2 DEF WorkerType
    <2> HIDE DEF w
    <2>4. Current(w) /\ Asked(w) /\ Paired(w)
        BY <1>2, <2>3 DEF Current, Contents, Fresh, Asked, Paired
    <2>5. SymbolDependenciesChanged(w).w.threw = worker.threw
        BY <2>3, <2>4, SymbolDependenciesDone DEF Done
    <2> QED BY <2>1, <2>3, <2>4, <2>5, SymbolDependenciesRest, RestKept
<1>8. CASE WorkerOnImagesAvailable
    <2> DEFINE w == [worker EXCEPT !.imageMap = m.images, !.pendingImages = {}]
               o == IF m.id = worker.imageCorrelationID
                    THEN SymbolDependenciesChanged(w) ELSE Outcome(worker, <<>>)
    <2>1. workerBox # <<>> /\ m.type = "onImagesAvailable" /\ Ends(o)
        BY <1>8 DEF WorkerOnImagesAvailable, Takes
    <2>2. m.images \subseteq Images /\ Suits(m, worker)
        BY <1>3, <2>1, WorkerMessageFacts
    <2> HIDE DEF m
    <2>3. CASE m.id = worker.imageCorrelationID
        <3>1. /\ w \in WorkerType /\ w.state = worker.state /\ w.correlationID = worker.correlationID
              /\ w.data = worker.data /\ w.layers = worker.layers /\ w.contents = worker.contents
              /\ w.result = worker.result /\ w.layouts = worker.layouts
              /\ w.glyphMap = worker.glyphMap /\ w.pendingGlyphs = worker.pendingGlyphs
              /\ w.imageMap = m.images /\ w.threw = worker.threw
            <4>1. PICK new \in SUBSET Images : new = m.images
                BY <2>2
            <4>2. w = [worker EXCEPT !.imageMap = new, !.pendingImages = {}]
                BY <4>1
            <4> HIDE DEF w
            <4> QED BY <1>1, <4>1, <4>2 DEF WorkerType
        <3> HIDE DEF w
        <3>2. Current(w) /\ Asked(w) /\ Paired(w)
            BY <1>2, <2>2, <2>3, <3>1 DEF Current, Contents, Fresh, Asked, Suits, Paired
        <3>3. SymbolDependenciesChanged(w).w.threw = worker.threw
            BY <3>1, <3>2, SymbolDependenciesDone DEF Done
        <3> QED BY <2>1, <2>3, <3>1, <3>2, <3>3, SymbolDependenciesRest, RestKept
    <2>4. CASE m.id # worker.imageCorrelationID
        <3>1. o = Outcome(worker, <<>>)
            BY <2>4
        <3> HIDE DEF o
        <3>2. o \in OutcomeType /\ o.w = worker /\ o.threw = FALSE
            BY <1>1, <3>1 DEF Outcome, OutcomeType
        <3> QED BY <1>2, <2>1, <3>2, RestKept DEF Rests
    <2> QED BY <2>3, <2>4
<1>9. CASE WorkerCoalesced
    <2>1. CASE worker.state = "Coalescing" /\ Ends(Outcome([worker EXCEPT !.state = "Idle"], <<>>))
        <3> DEFINE v == [worker EXCEPT !.state = "Idle"]
                   o == Outcome(v, <<>>)
        <3>1. v \in WorkerType /\ Paired(v) /\ v.threw = worker.threw /\ (Waits(worker) => Waits(v))
            BY <1>1, <1>2, StatePairs, StateChanged
        <3> HIDE DEF v
        <3>2. o \in OutcomeType /\ o.w = v /\ o.threw = FALSE
            BY <3>1 DEF Outcome, OutcomeType
        <3>3. Rests(o)
            BY <1>2, <2>1, <3>1, <3>2 DEF Rests, Resting
        <3>4. Ends(o)
            BY <2>1 DEF v
        <3> HIDE DEF o
        <3> QED BY <3>1, <3>2, <3>3, <3>4, RestKept
    <2>2. CASE Ends(Coalesce(Parse(worker)))
        <3>1. Parse(worker) \in OutcomeType /\ Sound(Parse(worker), worker)
            BY <1>1, <1>2, ParseSound DEF Sound
        <3>2. Rests(Coalesce(Parse(worker)))
            BY <1>1, <1>2, <3>1, ParseWaits, CoalesceRests
        <3>3. Coalesce(Parse(worker)) \in OutcomeType /\ Coalesce(Parse(worker)).w.threw = worker.threw
            BY <1>1, <3>1, CoalesceDone DEF Done
        <3> QED BY <2>2, <3>2, <3>3, RestKept
    <2>3. CASE worker.state = "NeedsSymbolLayout" /\ Ends(Coalesce(FinalizeLayout(worker)))
        <3>1. Sound(FinalizeLayout(worker), worker) /\ FinalizeLayout(worker) \in OutcomeType
            BY <1>1, <1>2, <2>3, FinalizeSound DEF Current, Sound
        <3>2. Paired(FinalizeLayout(worker).w) /\ Waits(FinalizeLayout(worker).w)
            BY <1>1, <1>2, <2>3, FinalizeWaits DEF Current
        <3>3. Rests(Coalesce(FinalizeLayout(worker)))
            BY <3>1, <3>2, CoalesceRests
        <3>4. /\ Coalesce(FinalizeLayout(worker)) \in OutcomeType
              /\ Coalesce(FinalizeLayout(worker)).w.threw = worker.threw
            BY <1>1, <3>1, CoalesceDone DEF Done
        <3> QED BY <2>3, <3>3, <3>4, RestKept
    <2> QED BY <1>9, <2>1, <2>2, <2>3 DEF WorkerCoalesced
<1> QED BY <1>4, <1>5, <1>6, <1>7, <1>8, <1>9 DEF WorkerStep

LEMMA WaitInvariant == ASSUME SymbolsKept PROVE Spec => []WaitInv
<1>1. Init => WaitInv
    <2> SUFFICES ASSUME Init PROVE WaitInv
        OBVIOUS
    <2>1. worker.layouts = FALSE /\ worker.result = None
        BY DEF Init
    <2> QED BY <2>1 DEF WaitInv, Paired, Resting, Waits
<1>2. IInv /\ WaitInv /\ [Next]_vars => WaitInv'
    <2> SUFFICES ASSUME IInv, WaitInv, [Next]_vars PROVE WaitInv'
        OBVIOUS
    <2>1. CASE WorkerStep
        BY <2>1, WorkerWaits
    <2>2. CASE ~WorkerStep
        <3>1. UNCHANGED worker
            BY <2>2 DEF Next, SetData, SetLayers, SetShowCollisionBoxes, SetError, TileStep,
               TileOnLayout, TileOnError, TileGetGlyphs, TileGetImages, NotifyImages,
               GlyphRangeParsed, vars
        <3> QED BY <3>1 DEF WaitInv, Paired, Resting, Waits, HasPendingDependencies
    <2> QED BY <2>1, <2>2
<1> QED BY <1>1, <1>2, Invariant, PTL DEF Spec

(* "Trigger parse if nothing is in flight, otherwise symbol layout will automatically pick up   *)
(* the change": while every style keeps a symbol layer, a parse result that waits in [Idle]    *)
(* waits for a dependency and has layouts that its arrival finishes.  A style without one      *)
(* breaks it, and so does an exception.                                                        *)
THEOREM ResultIsPickedUp == ASSUME SymbolsKept PROVE Spec => []ResultInFlight
<1>1. WaitInv => ResultInFlight
    BY DEF WaitInv, Paired, Resting, Waits, ResultInFlight
<1> QED BY <1>1, WaitInvariant, PTL

----------------------------------------------------------------------------
(***************************************************************************)
(* Whatever a tile that is not complete waits for is on its way: in one of  *)
(* the mailboxes, or with a manager.  What counts is the last message of a  *)
(* type, since a later one overtakes what the earlier has asked or shown.   *)
(***************************************************************************)
LastIn(box, type, m) ==
    \E i \in 1..Len(box) :
        /\ box[i] = m /\ m.type = type
        /\ \A j \in 1..Len(box) : i < j => box[j].type # type

Without(box, type) == \A i \in 1..Len(box) : box[i].type # type

(* The worker's last request for glyphs covers all that it waits for. *)
GlyphsOnTheWay ==
    /\ \A m \in TileMessage : LastIn(tileBox, "getGlyphs", m) => worker.pendingGlyphs \subseteq m.glyphs
    /\ Without(tileBox, "getGlyphs") /\ worker.pendingGlyphs # {} =>
         \/ \E g \in Glyphs : /\ glyphs.requestors[g] # None
                              /\ worker.pendingGlyphs \subseteq glyphs.requestors[g]
         \/ \E i \in 1..Len(workerBox) : /\ workerBox[i].type = "onGlyphsAvailable"
                                         /\ worker.pendingGlyphs \subseteq workerBox[i].glyphs

(* The worker's last request for images has its last ID. *)
ImagesOnTheWay ==
    /\ \A m \in TileMessage : LastIn(tileBox, "getImages", m) => m.id = worker.imageCorrelationID
    /\ Without(tileBox, "getImages") /\ worker.pendingImages # {} =>
         \/ images # None /\ images.id = worker.imageCorrelationID
         \/ \E i \in 1..Len(workerBox) : /\ workerBox[i].type = "onImagesAvailable"
                                         /\ workerBox[i].id = worker.imageCorrelationID

(* The worker has sent all there was to send. *)
Rested(w) ==
    /\ w.data # 0 /\ w.layers # 0 /\ w.result = None
    /\ w.state \in {"Idle", "Coalescing"}

(* Then its last layout is on the way, or the tile has it. *)
LayoutOnTheWay ==
    ~worker.threw /\ Rested(worker) =>
        /\ \A m \in TileMessage : LastIn(tileBox, "onLayout", m) =>
             m.id = worker.correlationID /\ m.boxes = worker.boxes
        /\ Without(tileBox, "onLayout") =>
             /\ tile.shown.boxes = worker.boxes
             /\ worker.correlationID = tile.correlationID => ~tile.pending

(* What the tile was last told is on the way to the worker, or the worker has it. *)
OperationOnTheWay ==
    /\ \A m \in WorkerMessage : LastIn(workerBox, "setShowCollisionBoxes", m) => m.boxes = tile.boxes
    /\ Without(workerBox, "setShowCollisionBoxes") => worker.boxes = tile.boxes
    /\ \/ worker.correlationID = tile.correlationID
       \/ \E i \in 1..Len(workerBox) :
            workerBox[i].type \in SetTypes /\ workerBox[i].id = tile.correlationID

TravelInv == GlyphsOnTheWay /\ ImagesOnTheWay /\ LayoutOnTheWay /\ OperationOnTheWay

----------------------------------------------------------------------------
(* The last message of a type when messages are taken and sent. *)
LEMMA LastTail ==
    ASSUME NEW S, NEW s \in Seq(S), s # <<>>, NEW type
    PROVE  /\ \A m : LastIn(Tail(s), type, m) => LastIn(s, type, m)
           /\ Without(Tail(s), type) =>
                IF Head(s).type = type THEN LastIn(s, type, Head(s)) ELSE Without(s, type)
<1>1. /\ Head(s) = s[1] /\ Len(s) \in Nat \ {0} /\ Len(Tail(s)) = Len(s) - 1
      /\ \A i \in 1..(Len(s) - 1) : Tail(s)[i] = s[i + 1]
    BY TailFacts
<1>2. \A j \in 1..Len(s) : j = 1 \/ (j - 1 \in 1..(Len(s) - 1) /\ s[j] = Tail(s)[j - 1])
    <2>1. ASSUME NEW j \in 1..Len(s), j # 1
          PROVE  j - 1 \in 1..(Len(s) - 1) /\ s[j] = Tail(s)[j - 1]
        <3>1. j - 1 \in 1..(Len(s) - 1) /\ (j - 1) + 1 = j
            BY <1>1, <2>1
        <3> QED BY <1>1, <3>1
    <2> QED BY <2>1
<1> DEFINE t == Tail(s)
<1>3. ASSUME NEW m, LastIn(t, type, m) PROVE LastIn(s, type, m)
    <2>1. PICK i \in 1..(Len(s) - 1) :
            /\ t[i] = m /\ m.type = type
            /\ \A j \in 1..(Len(s) - 1) : i < j => t[j].type # type
        BY <1>1, <1>3 DEF LastIn
    <2>2. i + 1 \in 1..Len(s) /\ s[i + 1] = m
        BY <1>1, <2>1
    <2>3. ASSUME NEW j \in 1..Len(s), i + 1 < j PROVE s[j].type # type
        <3>1. j - 1 \in 1..(Len(s) - 1) /\ s[j] = t[j - 1] /\ i < j - 1
            BY <1>1, <1>2, <2>1, <2>3
        <3> QED BY <2>1, <3>1
    <2> QED BY <2>1, <2>2, <2>3 DEF LastIn
<1>4. ASSUME Without(t, type)
      PROVE  IF Head(s).type = type THEN LastIn(s, type, Head(s)) ELSE Without(s, type)
    <2>1. \A j \in 1..Len(s) : j = 1 \/ s[j].type # type
        BY <1>1, <1>2, <1>4 DEF Without
    <2>2. CASE s[1].type = type
        <3>1. 1 \in 1..Len(s) /\ \A j \in 1..Len(s) : 1 < j => s[j].type # type
            BY <1>1, <2>1
        <3> QED BY <1>1, <2>2, <3>1 DEF LastIn
    <2> QED BY <1>1, <2>1, <2>2 DEF Without
<1> QED BY <1>3, <1>4

LEMMA LastConcat ==
    ASSUME NEW S, NEW s \in Seq(S), NEW t \in Seq(S), NEW type
    PROVE  /\ \A m : LastIn(s \o t, type, m) =>
                LastIn(t, type, m) \/ (Without(t, type) /\ LastIn(s, type, m))
           /\ Without(s \o t, type) => Without(s, type) /\ Without(t, type)
<1> DEFINE u == s \o t
<1>1. /\ Len(s) \in Nat /\ Len(t) \in Nat /\ Len(u) = Len(s) + Len(t)
      /\ \A i \in 1..Len(s) : u[i] = s[i]
      /\ \A i \in 1..Len(t) : u[Len(s) + i] = t[i]
      /\ \A i \in 1..(Len(s) + Len(t)) :
           i \in 1..Len(s) \/ (i - Len(s) \in 1..Len(t) /\ u[i] = t[i - Len(s)])
    BY ConcatFacts
<1> HIDE DEF u
<1>2. \A i \in 1..Len(s) : i \in 1..Len(u)
    BY <1>1
<1>3. \A i \in 1..Len(t) : Len(s) + i \in 1..Len(u)
    BY <1>1
<1>4. ASSUME Without(u, type) PROVE Without(s, type) /\ Without(t, type)
    BY <1>1, <1>2, <1>3, <1>4 DEF Without
<1>5. ASSUME NEW m, LastIn(u, type, m)
      PROVE  LastIn(t, type, m) \/ (Without(t, type) /\ LastIn(s, type, m))
    <2>1. PICK i \in 1..Len(u) : /\ u[i] = m /\ m.type = type
                                 /\ \A j \in 1..Len(u) : i < j => u[j].type # type
        BY <1>5 DEF LastIn
    <2>2. CASE i \in 1..Len(s)
        <3>1. \A j \in 1..Len(t) : t[j].type # type
            <4>1. \A j \in 1..Len(t) : i < Len(s) + j
                BY <1>1, <2>2
            <4> QED BY <1>1, <1>3, <2>1, <4>1
        <3>2. \A j \in 1..Len(s) : i < j => s[j].type # type
            BY <1>1, <1>2, <2>1
        <3> QED BY <1>1, <2>1, <2>2, <3>1, <3>2 DEF LastIn, Without
    <2>3. CASE i - Len(s) \in 1..Len(t) /\ u[i] = t[i - Len(s)]
        <3>1. ASSUME NEW j \in 1..Len(t), i - Len(s) < j PROVE t[j].type # type
            <4>1. i < Len(s) + j
                BY <1>1, <3>1
            <4> QED BY <1>1, <1>3, <2>1, <4>1
        <3> QED BY <2>1, <2>3, <3>1 DEF LastIn
    <2> QED BY <1>1, <2>1, <2>2, <2>3
<1> QED BY <1>4, <1>5 DEF u

LEMMA LastAppend ==
    ASSUME NEW S, NEW s \in Seq(S), NEW x \in S, NEW type
    PROVE  /\ \A m : LastIn(Append(s, x), type, m) =>
                (x.type = type => m = x) /\ (x.type # type => LastIn(s, type, m))
           /\ Without(Append(s, x), type) => Without(s, type) /\ x.type # type
<1> DEFINE u == Append(s, x)
<1>1. /\ Len(s) \in Nat /\ Len(u) = Len(s) + 1 /\ u[Len(s) + 1] = x
      /\ \A i \in 1..Len(s) : u[i] = s[i]
    BY AppendFacts
<1> HIDE DEF u
<1>2. \A i \in 1..Len(u) : i \in 1..Len(s) \/ i = Len(s) + 1
    BY <1>1
<1>3. Len(s) + 1 \in 1..Len(u) /\ \A i \in 1..Len(s) : i \in 1..Len(u) /\ i < Len(s) + 1
    BY <1>1
<1>4. ASSUME NEW m, LastIn(u, type, m)
      PROVE  (x.type = type => m = x) /\ (x.type # type => LastIn(s, type, m))
    <2>1. PICK i \in 1..Len(u) : /\ u[i] = m /\ m.type = type
                                 /\ \A j \in 1..Len(u) : i < j => u[j].type # type
        BY <1>4 DEF LastIn
    <2>2. CASE i = Len(s) + 1
        BY <1>1, <2>1, <2>2
    <2>3. CASE i \in 1..Len(s)
        <3>1. x.type # type
            BY <1>1, <1>3, <2>1, <2>3
        <3>2. \A j \in 1..Len(s) : i < j => s[j].type # type
            BY <1>1, <1>3, <2>1
        <3> QED BY <1>1, <2>1, <2>3, <3>1, <3>2 DEF LastIn
    <2> QED BY <1>2, <2>2, <2>3
<1>5. Without(u, type) => Without(s, type) /\ x.type # type
    BY <1>1, <1>3 DEF Without
<1> QED BY <1>4, <1>5 DEF u

----------------------------------------------------------------------------
(* What is sent is about the worker as it is left. *)
Says(m, v) ==
    /\ m.type = "getGlyphs" => v.pendingGlyphs \subseteq m.glyphs
    /\ m.type = "getImages" => m.id = v.imageCorrelationID
    /\ m.type = "onLayout" => m.id = v.correlationID /\ m.boxes = v.boxes

(* A handler's work on w: what it newly waits for it asks for. *)
Asks(o, w) ==
    /\ \A i \in 1..Len(o.sent) : Says(o.sent[i], o.w)
    /\ Without(o.sent, "getGlyphs") => o.w.pendingGlyphs \subseteq w.pendingGlyphs
    /\ Without(o.sent, "getImages") =>
         /\ o.w.imageCorrelationID = w.imageCorrelationID
         /\ o.w.pendingImages \subseteq w.pendingImages
    /\ o.w.boxes = w.boxes

LEMMA FinalizeAsks ==
    ASSUME NEW w \in WorkerType
    PROVE  LET o == FinalizeLayout(w)
           IN  /\ Asks(o, w)
               /\ \A i \in 1..Len(o.sent) : o.sent[i].type = "onLayout"
               /\ Without(o.sent, "onLayout") /\ o.w.result = None => w.result = None
               /\ o.w.pendingGlyphs = w.pendingGlyphs /\ o.w.pendingImages = w.pendingImages
               /\ o.w.imageCorrelationID = w.imageCorrelationID
<1>1. CASE w.data = 0 \/ w.layers = 0 \/ w.result = None \/ HasPendingDependencies(w)
    <2>1. FinalizeLayout(w).w = w /\ FinalizeLayout(w).sent = <<>>
        BY <1>1 DEF FinalizeLayout, Outcome
    <2> QED BY <2>1 DEF Asks, Without
<1>2. CASE ~(w.data = 0 \/ w.layers = 0 \/ w.result = None \/ HasPendingDependencies(w))
    <2> DEFINE v == [w EXCEPT !.layouts = FALSE, !.result = None]
    <2>1. FinalizeLayout(w).w = v /\ FinalizeLayout(w).sent = <<OnLayout(w)>>
        BY <1>2 DEF FinalizeLayout, Outcome
    <2>2. /\ v.pendingGlyphs = w.pendingGlyphs /\ v.pendingImages = w.pendingImages
          /\ v.imageCorrelationID = w.imageCorrelationID /\ v.correlationID = w.correlationID
          /\ v.boxes = w.boxes
        BY DEF WorkerType
    <2>3. /\ OnLayout(w).type = "onLayout" /\ OnLayout(w).id = w.correlationID
          /\ OnLayout(w).boxes = w.boxes
        BY DEF OnLayout
    <2> HIDE DEF v
    <2>4. /\ Len(<<OnLayout(w)>>) = 1 /\ <<OnLayout(w)>>[1] = OnLayout(w)
          /\ \A i \in 1..1 : i = 1
        OBVIOUS
    <2>5. Says(OnLayout(w), v)
        BY <2>2, <2>3 DEF Says
    <2> QED BY <2>1, <2>2, <2>3, <2>4, <2>5 DEF Asks, Without
<1> QED BY <1>1, <1>2

(* A parse either throws, or leaves a result, or has sent the layout. *)
LEMMA ParseAsks ==
    ASSUME NEW w \in WorkerType, Contents(w)
    PROVE  LET o == Parse(w)
           IN  /\ Asks(o, w)
               /\ ~o.threw /\ Without(o.sent, "onLayout") /\ o.w.result = None =>
                    w.data = 0 \/ w.layers = 0
<1>1. CASE w.data = 0 \/ w.layers = 0
    <2>1. Parse(w).w = w /\ Parse(w).sent = <<>>
        BY <1>1 DEF Parse, Outcome
    <2> QED BY <1>1, <2>1 DEF Asks, Without
<1>2. CASE ~(w.data = 0 \/ w.layers = 0)
    <2> DEFINE r == [data |-> w.data, layers |-> w.layers,
                     needs |-> w.contents.glyphs \cup w.contents.images,
                     whole |-> ~w.contents.throws]
               b == [w EXCEPT !.layouts = w.contents.layouts, !.result = r]
               o1 == RequestNewGlyphs(b)
               o2 == RequestNewImages(o1.w)
               o3 == FinalizeLayout(o2.w)
               all == o1.sent \o o2.sent \o o3.sent
    <2>1. /\ w.contents.throws => Parse(w) = [Outcome(b, <<>>) EXCEPT !.threw = TRUE]
          /\ ~w.contents.throws => Parse(w) = Outcome(o3.w, all)
        BY <1>2 DEF Parse
    <2>2. /\ w.contents \in Parses /\ w.contents \in ParseKind
          /\ w.contents.glyphs \subseteq Glyphs /\ w.contents.images \subseteq Images
          /\ w.contents.throws \in BOOLEAN /\ w.contents.layouts \in BOOLEAN
        BY <1>2, GeometryTileAssumption DEF Contents, ParseKind
    <2>3. r \in ParseResult /\ r.data = w.data /\ r.layers = w.layers
        BY <1>2, <2>2, GeometryTileAssumption DEF ParseResult, WorkerType
    <2>4. r # None
        BY <2>3, GeometryTileAssumption
    <2> HIDE DEF r, all
    <2>5. /\ b.result = r /\ b.contents = w.contents /\ b.boxes = w.boxes
          /\ b.pendingGlyphs = w.pendingGlyphs /\ b.pendingImages = w.pendingImages
          /\ b.imageCorrelationID = w.imageCorrelationID /\ b.correlationID = w.correlationID
          /\ b.data = w.data /\ b.layers = w.layers
        BY DEF WorkerType
    <2>6. b \in WorkerType
        BY <2>2, <2>3 DEF WorkerType
    <2> HIDE DEF b
    <2>7. CASE w.contents.throws
        <3>1. Parse(w).w = b /\ Parse(w).sent = <<>> /\ Parse(w).threw = TRUE
            BY <2>1, <2>7 DEF Outcome
        <3> QED BY <2>5, <3>1 DEF Asks, Without
    <2>8. CASE ~w.contents.throws
        <3>1. /\ Keeps(o1.w, b) /\ o1.w.imageCorrelationID = b.imageCorrelationID
              /\ o1.w.result = r /\ o1.sent \in Seq(TileMessage)
              /\ \A i \in 1..Len(o1.sent) : o1.sent[i].type = "getGlyphs"
            BY <2>2, <2>5, <2>6, GlyphsSound
        <3>2. /\ \A i \in 1..Len(o1.sent) : o1.w.pendingGlyphs \subseteq o1.sent[i].glyphs
              /\ Without(o1.sent, "getGlyphs") => o1.w.pendingGlyphs = w.pendingGlyphs
              /\ o1.w.pendingImages = w.pendingImages /\ o1.w.boxes = w.boxes
            <4> DEFINE missing == b.contents.glyphs \ b.glyphMap
                       v == [b EXCEPT !.pendingGlyphs = @ \cup missing,
                                      !.askedGlyphs = @ \/ missing # {}]
                       m == [type |-> "getGlyphs", glyphs |-> v.pendingGlyphs]
            <4>1. o1.w = v /\ o1.sent = IF v.askedGlyphs THEN <<m>> ELSE <<>>
                BY DEF RequestNewGlyphs, Outcome
            <4>2. /\ v.pendingGlyphs = b.pendingGlyphs \cup missing
                  /\ v.askedGlyphs = (b.askedGlyphs \/ missing # {})
                  /\ v.pendingImages = b.pendingImages /\ v.boxes = b.boxes
                BY <2>6 DEF WorkerType
            <4>3. m.glyphs = v.pendingGlyphs /\ m.type = "getGlyphs"
                OBVIOUS
            <4> HIDE DEF v, m, missing, o1
            <4>4. /\ Len(<<m>>) = 1 /\ <<m>>[1] = m /\ Len(<<>>) = 0
                  /\ \A i \in 1..1 : i = 1
                OBVIOUS
            <4>5. CASE v.askedGlyphs
                BY <2>5, <4>1, <4>2, <4>3, <4>4, <4>5 DEF Without
            <4>6. CASE ~v.askedGlyphs
                <5>1. missing = {}
                    BY <4>2, <4>6, Zenon
                <5> QED BY <2>5, <4>1, <4>2, <4>4, <4>6, <5>1
            <4> QED BY <4>5, <4>6
        <3> HIDE DEF o1
        <3>3. /\ o1.w \in WorkerType /\ o1.w.contents = w.contents /\ o1.w.contents \in Parses
              /\ o1.w.correlationID = w.correlationID
              /\ o1.w.data = w.data /\ o1.w.layers = w.layers
            BY <2>2, <2>5, <3>1 DEF Keeps
        <3>4. /\ Keeps(o2.w, o1.w) /\ o2.w.result = r
              /\ o2.w.imageCorrelationID =
                   w.imageCorrelationID + (IF w.contents.images = {} THEN 0 ELSE 1)
              /\ o2.w.pendingGlyphs = o1.w.pendingGlyphs /\ o2.w.pendingImages = w.contents.images
              /\ o2.sent \in Seq(TileMessage)
              /\ \A i \in 1..Len(o2.sent) : /\ o2.sent[i].type = "getImages"
                                             /\ o2.sent[i].id = o2.w.imageCorrelationID
            BY <2>5, <3>1, <3>3, ImagesSound
        <3>5. /\ Without(o2.sent, "getImages") => w.contents.images = {}
              /\ o2.w.boxes = o1.w.boxes
            <4> DEFINE v == [o1.w EXCEPT !.pendingImages = w.contents.images,
                               !.imageCorrelationID = @ + (IF w.contents.images = {} THEN 0 ELSE 1)]
                       m == [type |-> "getImages", images |-> v.pendingImages,
                             id |-> v.imageCorrelationID]
            <4>1. o2.w = v /\ o2.sent = IF v.pendingImages = {} THEN <<>> ELSE <<m>>
                BY <3>3 DEF RequestNewImages, Outcome
            <4>2. v.boxes = o1.w.boxes /\ v.pendingImages = w.contents.images
                BY <3>3 DEF WorkerType
            <4>3. Len(<<m>>) = 1 /\ <<m>>[1] = m /\ m.type = "getImages"
                OBVIOUS
            <4> HIDE DEF v, m, o2
            <4> QED BY <4>1, <4>2, <4>3 DEF Without
        <3> HIDE DEF o2
        <3>6. /\ o2.w \in WorkerType /\ o2.w.correlationID = w.correlationID
              /\ o2.w.data = w.data /\ o2.w.layers = w.layers /\ o2.w.contents = w.contents
            BY <2>5, <3>1, <3>3, <3>4 DEF Keeps
        <3>7. /\ Asks(o3, o2.w)
              /\ \A i \in 1..Len(o3.sent) : o3.sent[i].type = "onLayout"
              /\ Without(o3.sent, "onLayout") /\ o3.w.result = None => o2.w.result = None
              /\ o3.w.pendingGlyphs = o2.w.pendingGlyphs /\ o3.w.pendingImages = o2.w.pendingImages
              /\ o3.w.imageCorrelationID = o2.w.imageCorrelationID
            BY <3>6, FinalizeAsks
        <3>8. Contents(o2.w) /\ Fresh(o2.w)
            BY <1>2, <2>2, <2>3, <2>4, <3>4, <3>6 DEF Contents, Fresh, WorkerType
        <3>9. o3.sent \in Seq(TileMessage)
            <4>1. CASE o3.sent = <<>>
                BY <4>1
            <4>2. CASE o3.sent # <<>>
                <5>1. /\ ~(o2.w.data = 0 \/ o2.w.layers = 0 \/ o2.w.result = None)
                      /\ o3.sent = <<OnLayout(o2.w)>>
                    BY <4>2 DEF FinalizeLayout, Outcome
                <5>2. OnLayout(o2.w) \in TileMessage
                    <6>1. o2.w.correlationID # 0
                        BY <3>8, <5>1 DEF Contents
                    <6>2. o2.w.correlationID \in 1..MaxOps /\ o2.w.boxes \in BOOLEAN
                        BY <3>6, <6>1, GeometryTileAssumption DEF WorkerType
                    <6>3. o2.w.result \in ParseResult
                        BY <2>3, <3>4
                    <6> QED BY <6>2, <6>3 DEF OnLayout, TileMessage, ParseResult
                <5> QED BY <5>1, <5>2
            <4> QED BY <4>1, <4>2
        <3> HIDE DEF o3
        <3>10. Parse(w).w = o3.w /\ Parse(w).sent = all /\ Parse(w).threw = FALSE
            BY <2>1, <2>8 DEF Outcome
        <3>11. /\ o1.sent \o o2.sent \in Seq(TileMessage)
               /\ \A i \in 1..Len(o1.sent \o o2.sent) : Says((o1.sent \o o2.sent)[i], o3.w)
            <4>1. \A i \in 1..Len(o1.sent) : Says(o1.sent[i], o3.w)
                BY <3>1, <3>2, <3>4, <3>7 DEF Says
            <4>2. \A i \in 1..Len(o2.sent) : Says(o2.sent[i], o3.w)
                BY <3>4, <3>7 DEF Says
            <4> DEFINE s == o1.sent
                       t == o2.sent
            <4>3. /\ s \in Seq(TileMessage) /\ t \in Seq(TileMessage)
                  /\ \A i \in 1..Len(s) : Says(s[i], o3.w)
                  /\ \A i \in 1..Len(t) : Says(t[i], o3.w)
                BY <3>1, <3>4, <4>1, <4>2
            <4> HIDE DEF s, t
            <4>4. s \o t \in Seq(TileMessage) /\ \A i \in 1..Len(s \o t) : Says((s \o t)[i], o3.w)
                BY <4>3, ConcatFacts
            <4> QED BY <4>4 DEF s, t
        <3>12. \A i \in 1..Len(all) : Says(all[i], o3.w)
            <4>1. \A i \in 1..Len(o3.sent) : Says(o3.sent[i], o3.w)
                BY <3>7 DEF Asks
            <4> DEFINE both == o1.sent \o o2.sent
            <4> HIDE DEF both
            <4>2. all = both \o o3.sent
                BY DEF all, both
            <4>3. /\ both \in Seq(TileMessage)
                  /\ \A i \in 1..Len(both) : Says(both[i], o3.w)
                BY <3>11 DEF both
            <4> QED BY <3>9, <4>1, <4>2, <4>3, ConcatFacts
        <3>13. \A type : Without(all, type) =>
                 /\ Without(o1.sent, type) /\ Without(o2.sent, type) /\ Without(o3.sent, type)
            <4> SUFFICES ASSUME NEW type, Without(all, type)
                         PROVE  /\ Without(o1.sent, type) /\ Without(o2.sent, type)
                                /\ Without(o3.sent, type)
                OBVIOUS
            <4> DEFINE both == o1.sent \o o2.sent
            <4> HIDE DEF both
            <4>1. all = both \o o3.sent /\ both \in Seq(TileMessage)
                BY <3>11 DEF all, both
            <4>2. Without(both, type) /\ Without(o3.sent, type)
                BY <3>9, <4>1, LastConcat
            <4>3. Without(o1.sent, type) /\ Without(o2.sent, type)
                BY <3>1, <3>4, <4>2, LastConcat DEF both
            <4> QED BY <4>2, <4>3
        <3>14. o3.w.boxes = w.boxes
            BY <3>2, <3>5, <3>7 DEF Asks
        <3>15. Without(all, "getGlyphs") => o3.w.pendingGlyphs \subseteq w.pendingGlyphs
            BY <3>2, <3>4, <3>7, <3>13
        <3>16. Without(all, "getImages") =>
                 o3.w.imageCorrelationID = w.imageCorrelationID /\ o3.w.pendingImages = {}
            <4>1. w.imageCorrelationID \in Nat
                BY WorkerNumbers
            <4> QED BY <3>4, <3>5, <3>7, <3>13, <4>1
        <3>17. Without(all, "onLayout") => o3.w.result # None
            BY <2>4, <3>4, <3>7, <3>13
        <3> QED BY <3>10, <3>12, <3>14, <3>15, <3>16, <3>17 DEF Asks
    <2> QED BY <2>2, <2>7, <2>8
<1> QED BY <1>1, <1>2

LEMMA CoalesceAsks ==
    ASSUME NEW w, NEW o \in OutcomeType, Asks(o, w)
    PROVE  /\ Asks(Coalesce(o), w) /\ Coalesce(o).sent = o.sent /\ Coalesce(o).threw = o.threw
           /\ Coalesce(o).w.data = o.w.data /\ Coalesce(o).w.layers = o.w.layers
           /\ Coalesce(o).w.result = o.w.result
<1>1. CASE o.threw
    BY <1>1 DEF Coalesce
<1>2. CASE ~o.threw
    <2> DEFINE v == [o.w EXCEPT !.state = "Coalescing"]
    <2>1. o.w \in WorkerType
        BY DEF OutcomeType
    <2>2. /\ v.data = o.w.data /\ v.layers = o.w.layers /\ v.result = o.w.result
          /\ v.boxes = o.w.boxes /\ v.correlationID = o.w.correlationID
          /\ v.imageCorrelationID = o.w.imageCorrelationID
          /\ v.pendingGlyphs = o.w.pendingGlyphs /\ v.pendingImages = o.w.pendingImages
        BY <2>1 DEF WorkerType
    <2>3. Coalesce(o) = [[o EXCEPT !.w = v] EXCEPT !.coalesced = TRUE]
        BY <1>2 DEF Coalesce, OutcomeType
    <2> HIDE DEF v
    <2>4. Coalesce(o).w = v /\ Coalesce(o).sent = o.sent /\ Coalesce(o).threw = o.threw
        BY <2>3 DEF OutcomeType
    <2> HIDE DEF Coalesce
    <2> QED BY <2>2, <2>4 DEF Asks, Says
<1> QED BY <1>1, <1>2

(* The state alone is changed. *)
LEMMA StateAsks ==
    ASSUME NEW w \in WorkerType,
           NEW s \in {"Idle", "Coalescing", "NeedsParse", "NeedsSymbolLayout"}
    PROVE  LET o == Outcome([w EXCEPT !.state = s], <<>>)
           IN  /\ Asks(o, w) /\ o.sent = <<>> /\ ~o.threw /\ o.w.state = s
               /\ o.w.data = w.data /\ o.w.layers = w.layers /\ o.w.result = w.result
<1> DEFINE v == [w EXCEPT !.state = s]
           o == Outcome(v, <<>>)
<1>1. /\ v.data = w.data /\ v.layers = w.layers /\ v.result = w.result
      /\ v.boxes = w.boxes /\ v.imageCorrelationID = w.imageCorrelationID
      /\ v.pendingGlyphs = w.pendingGlyphs /\ v.pendingImages = w.pendingImages /\ v.state = s
    BY DEF WorkerType
<1> HIDE DEF v
<1>2. o.w = v /\ o.sent = <<>> /\ o.threw = FALSE
    BY DEF Outcome
<1> HIDE DEF o
<1>3. Asks(o, w) /\ o.sent = <<>> /\ ~o.threw /\ o.w.state = s
    BY <1>1, <1>2 DEF Asks
<1>4. o.w.data = w.data /\ o.w.layers = w.layers /\ o.w.result = w.result
    BY <1>1, <1>2
<1> QED BY <1>3, <1>4 DEF o, v

LEMMA ParseOrPostponeAsks ==
    ASSUME NEW w \in WorkerType, Contents(w)
    PROVE  LET o == ParseOrPostpone(w)
           IN  Asks(o, w) /\ (~o.threw /\ Without(o.sent, "onLayout") => ~Rested(o.w))
<1>1. CASE w.state = "Idle"
    <2>1. Parse(w) \in OutcomeType /\ Parse(w).w.data = w.data /\ Parse(w).w.layers = w.layers
        BY ParseSound DEF Sound, Keeps
    <2>2. ParseOrPostpone(w) = Coalesce(Parse(w))
        BY <1>1 DEF ParseOrPostpone
    <2> QED BY <2>1, <2>2, ParseAsks, CoalesceAsks DEF Rested
<1>2. CASE w.state # "Idle"
    <2>1. ParseOrPostpone(w) = Outcome([w EXCEPT !.state = "NeedsParse"], <<>>)
        BY <1>2 DEF ParseOrPostpone
    <2> QED BY <2>1, StateAsks DEF Rested
<1> QED BY <1>1, <1>2

LEMMA SymbolDependenciesAsk ==
    ASSUME NEW w \in WorkerType, Current(w), Asked(w)
    PROVE  LET o == SymbolDependenciesChanged(w)
           IN  Asks(o, w) /\ (Without(o.sent, "onLayout") /\ Rested(o.w) => Rested(w))
<1>1. CASE w.state = "Idle" /\ w.layouts
    <2>1. /\ FinalizeLayout(w) \in OutcomeType
          /\ FinalizeLayout(w).w.data = w.data /\ FinalizeLayout(w).w.layers = w.layers
        BY <1>1, FinalizeSound DEF Current, Sound, Keeps
    <2>2. SymbolDependenciesChanged(w) = Coalesce(FinalizeLayout(w))
        BY <1>1 DEF SymbolDependenciesChanged
    <2> QED BY <1>1, <2>1, <2>2, FinalizeAsks, CoalesceAsks DEF Rested
<1>2. CASE w.state = "Coalescing" /\ w.layouts
    <2>1. SymbolDependenciesChanged(w) = Outcome([w EXCEPT !.state = "NeedsSymbolLayout"], <<>>)
        BY <1>2 DEF SymbolDependenciesChanged
    <2> QED BY <2>1, StateAsks DEF Rested
<1>3. CASE ~(w.state = "Idle" /\ w.layouts) /\ ~(w.state = "Coalescing" /\ w.layouts)
    <2>1. SymbolDependenciesChanged(w).w = w /\ SymbolDependenciesChanged(w).sent = <<>>
        BY <1>3 DEF SymbolDependenciesChanged, Outcome
    <2> QED BY <2>1 DEF Asks
<1> QED BY <1>1, <1>2, <1>3

----------------------------------------------------------------------------
(* A handler of the worker has taken m and ends with o: what m brings is no longer waited for, *)
(* and a worker that rests without having sent a layout has rested before.                     *)
Arrives(m, o) ==
    /\ o \in OutcomeType /\ o.w.threw = worker.threw /\ Sends(o.sent, o.w)
    /\ o.w.correlationID = (IF m.type \in SetTypes THEN m.id ELSE worker.correlationID)
    /\ o.w.boxes = (IF m.type = "setShowCollisionBoxes" THEN m.boxes ELSE worker.boxes)
    /\ \A i \in 1..Len(o.sent) : Says(o.sent[i], o.w)
    /\ Without(o.sent, "getGlyphs") =>
         /\ o.w.pendingGlyphs \subseteq worker.pendingGlyphs
         /\ m.type = "onGlyphsAvailable" => o.w.pendingGlyphs \cap m.glyphs = {}
    /\ Without(o.sent, "getImages") =>
         /\ o.w.imageCorrelationID = worker.imageCorrelationID
         /\ o.w.pendingImages \subseteq worker.pendingImages
         /\ m.type = "onImagesAvailable" /\ m.id = worker.imageCorrelationID => o.w.pendingImages = {}
    /\ Without(o.sent, "onLayout") /\ ~o.threw /\ Rested(o.w) => Rested(worker) /\ m.type \notin SetTypes

LEMMA HandlerTravels ==
    ASSUME IInv, TravelInv, workerBox # <<>>, NEW o, Arrives(Head(workerBox), o), Ends(o)
    PROVE  TravelInv'
<1> DEFINE m == Head(workerBox)
           rest == Tail(workerBox)
           errors == IF o.threw THEN <<[type |-> "onError", id |-> o.w.correlationID]>> ELSE <<>>
           ticket == IF o.coalesced THEN <<Ticket>> ELSE <<>>
<1>1. /\ worker' = [o.w EXCEPT !.threw = @ \/ o.threw]
      /\ tileBox' = tileBox \o o.sent \o errors /\ workerBox' = rest \o ticket
      /\ UNCHANGED <<tile, glyphs, images>>
    BY DEF Ends, Ticket
<1>2. /\ workerBox \in Seq(WorkerMessage) /\ tileBox \in Seq(TileMessage)
      /\ o.w \in WorkerType /\ m \in WorkerMessage /\ rest \in Seq(WorkerMessage)
      /\ o.threw \in BOOLEAN /\ o.coalesced \in BOOLEAN /\ o.sent \in Seq(TileMessage)
    BY TailFacts, TypesOK DEF IInv, Types, Arrives, OutcomeType
<1>3. /\ worker'.data = o.w.data /\ worker'.layers = o.w.layers /\ worker'.result = o.w.result
      /\ worker'.state = o.w.state /\ worker'.boxes = o.w.boxes
      /\ worker'.correlationID = o.w.correlationID
      /\ worker'.imageCorrelationID = o.w.imageCorrelationID
      /\ worker'.pendingGlyphs = o.w.pendingGlyphs /\ worker'.pendingImages = o.w.pendingImages
    BY <1>1, <1>2 DEF WorkerType
<1>4. worker'.threw = (o.w.threw \/ o.threw)
    BY <1>1, <1>2 DEF WorkerType
<1>5. ~worker'.threw => ~worker.threw /\ ~o.threw
    BY <1>4, Zenon DEF Arrives
<1>6. /\ ticket \in Seq(WorkerMessage) /\ Len(ticket) \in {0, 1}
      /\ \A i \in 1..Len(ticket) : ticket[i].type = "coalesced"
    <2>1. Ticket \in WorkerMessage /\ Ticket.type = "coalesced"
        BY DEF Ticket, WorkerMessage
    <2>2. <<Ticket>> \in Seq(WorkerMessage) /\ Len(<<Ticket>>) = 1 /\ <<Ticket>>[1] = Ticket
        BY <2>1
    <2>3. Len(<<>>) = 0 /\ <<>> \in Seq(WorkerMessage)
        OBVIOUS
    <2> QED BY <2>1, <2>2, <2>3
<1> DEFINE S == TileMessage \cup {[type |-> "onError", id |-> o.w.correlationID]}
<1>7. /\ errors \in Seq(S) /\ \A i \in 1..Len(errors) : errors[i].type = "onError"
    <2> DEFINE e == [type |-> "onError", id |-> o.w.correlationID]
    <2>1. e.type = "onError" /\ e \in S
        OBVIOUS
    <2> HIDE DEF e, S
    <2>2. <<e>> \in Seq(S) /\ Len(<<e>>) = 1 /\ <<e>>[1] = e /\ Len(<<>>) = 0 /\ <<>> \in Seq(S)
        BY <2>1
    <2> QED BY <2>1, <2>2 DEF e
<1>8. ASSUME NEW type, type # "onError"
      PROVE  /\ \A x : LastIn(tileBox', type, x) =>
                  LastIn(o.sent, type, x) \/ (Without(o.sent, type) /\ LastIn(tileBox, type, x))
             /\ Without(tileBox', type) => Without(tileBox, type) /\ Without(o.sent, type)
    <2> DEFINE both == tileBox \o o.sent
    <2>1. both \in Seq(TileMessage) /\ TileMessage \subseteq S
        BY <1>2, ConcatFacts
    <2>2. /\ \A x : LastIn(both, type, x) =>
                  LastIn(o.sent, type, x) \/ (Without(o.sent, type) /\ LastIn(tileBox, type, x))
          /\ Without(both, type) => Without(tileBox, type) /\ Without(o.sent, type)
        BY <1>2, LastConcat
    <2>3. tileBox' = both \o errors
        BY <1>1
    <2> HIDE DEF both, errors, S
    <2>4. both \in Seq(S)
        BY <2>1
    <2>5. \A x : ~LastIn(errors, type, x)
        BY <1>7, <1>8 DEF LastIn
    <2> QED BY <1>7, <2>2, <2>3, <2>4, <2>5, LastConcat
<1> HIDE DEF errors, S
<1>9. ASSUME NEW x \in TileMessage, NEW type, LastIn(o.sent, type, x)
      PROVE  Says(x, o.w) /\ x.type = type
    BY <1>9 DEF LastIn, Arrives
<1>10. ASSUME NEW i \in 1..Len(workerBox), workerBox[i] # m
       PROVE  \E j \in 1..Len(workerBox') : workerBox'[j] = workerBox[i]
    <2>1. /\ Len(rest) = Len(workerBox) - 1 /\ m = workerBox[1] /\ Len(workerBox) \in Nat
          /\ \A j \in 1..Len(rest) : rest[j] = workerBox[j + 1]
        BY <1>2, TailFacts
    <2> HIDE DEF rest, m
    <2>2. i # 1 /\ i - 1 \in 1..Len(rest) /\ (i - 1) + 1 = i
        BY <1>10, <2>1
    <2>3. rest[i - 1] = workerBox[i]
        BY <2>1, <2>2
    <2>4. workerBox'[i - 1] = rest[i - 1] /\ Len(workerBox') = Len(rest) + Len(ticket)
        BY <1>1, <1>2, <1>6, <2>2, ConcatFacts
    <2>5. i - 1 \in 1..Len(workerBox')
        BY <1>6, <2>1, <2>2, <2>4
    <2> QED BY <2>3, <2>4, <2>5
<1>11. GlyphsOnTheWay'
    <2>1. ASSUME NEW x \in TileMessage, LastIn(tileBox', "getGlyphs", x)
          PROVE  o.w.pendingGlyphs \subseteq x.glyphs
        <3>1. CASE LastIn(o.sent, "getGlyphs", x)
            BY <1>9, <3>1 DEF Says
        <3>2. CASE Without(o.sent, "getGlyphs") /\ LastIn(tileBox, "getGlyphs", x)
            BY <3>2 DEF Arrives, TravelInv, GlyphsOnTheWay
        <3> QED BY <1>8, <2>1, <3>1, <3>2
    <2>2. ASSUME Without(tileBox', "getGlyphs"), o.w.pendingGlyphs # {}
          PROVE  \/ \E g \in Glyphs : /\ glyphs.requestors[g] # None
                                      /\ o.w.pendingGlyphs \subseteq glyphs.requestors[g]
                 \/ \E i \in 1..Len(workerBox') :
                      /\ workerBox'[i].type = "onGlyphsAvailable"
                      /\ o.w.pendingGlyphs \subseteq workerBox'[i].glyphs
        <3>1. Without(tileBox, "getGlyphs") /\ Without(o.sent, "getGlyphs")
            BY <1>8, <2>2
        <3>2. /\ o.w.pendingGlyphs \subseteq worker.pendingGlyphs
              /\ m.type = "onGlyphsAvailable" => o.w.pendingGlyphs \cap m.glyphs = {}
            BY <3>1 DEF Arrives
        <3>3. CASE \E g \in Glyphs : /\ glyphs.requestors[g] # None
                                     /\ worker.pendingGlyphs \subseteq glyphs.requestors[g]
            BY <3>2, <3>3
        <3>4. CASE \E i \in 1..Len(workerBox) :
                     /\ workerBox[i].type = "onGlyphsAvailable"
                     /\ worker.pendingGlyphs \subseteq workerBox[i].glyphs
            <4>1. PICK i \in 1..Len(workerBox) :
                     /\ workerBox[i].type = "onGlyphsAvailable"
                     /\ worker.pendingGlyphs \subseteq workerBox[i].glyphs
                BY <3>4
            <4>2. workerBox[i] # m
                BY <2>2, <3>2, <4>1
            <4> QED BY <1>10, <3>2, <4>1, <4>2
        <3> QED BY <2>2, <3>1, <3>2, <3>3, <3>4 DEF TravelInv, GlyphsOnTheWay
    <2> QED BY <1>1, <1>3, <2>1, <2>2 DEF GlyphsOnTheWay
<1>12. ImagesOnTheWay'
    <2>1. ASSUME NEW x \in TileMessage, LastIn(tileBox', "getImages", x)
          PROVE  x.id = o.w.imageCorrelationID
        <3>1. CASE LastIn(o.sent, "getImages", x)
            BY <1>9, <3>1 DEF Says
        <3>2. CASE Without(o.sent, "getImages") /\ LastIn(tileBox, "getImages", x)
            BY <3>2 DEF Arrives, TravelInv, ImagesOnTheWay
        <3> QED BY <1>8, <2>1, <3>1, <3>2
    <2>2. ASSUME Without(tileBox', "getImages"), o.w.pendingImages # {}
          PROVE  \/ images # None /\ images.id = o.w.imageCorrelationID
                 \/ \E i \in 1..Len(workerBox') : /\ workerBox'[i].type = "onImagesAvailable"
                                                  /\ workerBox'[i].id = o.w.imageCorrelationID
        <3>1. Without(tileBox, "getImages") /\ Without(o.sent, "getImages")
            BY <1>8, <2>2
        <3>2. /\ o.w.imageCorrelationID = worker.imageCorrelationID
              /\ o.w.pendingImages \subseteq worker.pendingImages
              /\ ~(m.type = "onImagesAvailable" /\ m.id = worker.imageCorrelationID)
            BY <2>2, <3>1 DEF Arrives
        <3>3. CASE \E i \in 1..Len(workerBox) : /\ workerBox[i].type = "onImagesAvailable"
                                                /\ workerBox[i].id = worker.imageCorrelationID
            BY <1>10, <3>2, <3>3
        <3> QED BY <2>2, <3>1, <3>2, <3>3 DEF TravelInv, ImagesOnTheWay
    <2> QED BY <1>1, <1>3, <2>1, <2>2 DEF ImagesOnTheWay
<1>13. LayoutOnTheWay'
    <2> SUFFICES ASSUME ~worker'.threw, Rested(o.w)
                 PROVE  /\ \A x \in TileMessage : LastIn(tileBox', "onLayout", x) =>
                             x.id = o.w.correlationID /\ x.boxes = o.w.boxes
                        /\ Without(tileBox', "onLayout") =>
                             /\ tile.shown.boxes = o.w.boxes
                             /\ o.w.correlationID = tile.correlationID => ~tile.pending
        BY <1>1, <1>3 DEF LayoutOnTheWay, Rested
    <2>1. ~worker.threw /\ ~o.threw
        BY <1>5
    <2>2. Without(o.sent, "onLayout") =>
            /\ Rested(worker) /\ o.w.correlationID = worker.correlationID /\ o.w.boxes = worker.boxes
        BY <2>1 DEF Arrives, SetTypes
    <2>3. ASSUME NEW x \in TileMessage, LastIn(tileBox', "onLayout", x)
          PROVE  x.id = o.w.correlationID /\ x.boxes = o.w.boxes
        <3>1. CASE LastIn(o.sent, "onLayout", x)
            BY <1>9, <3>1 DEF Says
        <3>2. CASE Without(o.sent, "onLayout") /\ LastIn(tileBox, "onLayout", x)
            BY <2>1, <2>2, <3>2 DEF TravelInv, LayoutOnTheWay
        <3> QED BY <1>8, <2>3, <3>1, <3>2
    <2>4. ASSUME Without(tileBox', "onLayout")
          PROVE  /\ tile.shown.boxes = o.w.boxes
                 /\ o.w.correlationID = tile.correlationID => ~tile.pending
        <3>1. Without(tileBox, "onLayout") /\ Without(o.sent, "onLayout")
            BY <1>8, <2>4
        <3> QED BY <2>1, <2>2, <3>1 DEF TravelInv, LayoutOnTheWay
    <2> QED BY <2>3, <2>4
<1>14. OperationOnTheWay'
    <2>1. \A type : type # "coalesced" =>
            /\ \A x : LastIn(workerBox', type, x) => LastIn(rest, type, x)
            /\ Without(workerBox', type) => Without(rest, type)
        <3> SUFFICES ASSUME NEW type, type # "coalesced"
                     PROVE  /\ \A x : LastIn(workerBox', type, x) => LastIn(rest, type, x)
                            /\ Without(workerBox', type) => Without(rest, type)
            OBVIOUS
        <3>1. \A x : ~LastIn(ticket, type, x)
            BY <1>6 DEF LastIn
        <3> QED BY <1>1, <1>2, <1>6, <3>1, LastConcat
    <2>2. /\ \A x : LastIn(rest, "setShowCollisionBoxes", x)
                      => LastIn(workerBox, "setShowCollisionBoxes", x)
          /\ Without(rest, "setShowCollisionBoxes") =>
               IF m.type = "setShowCollisionBoxes" THEN LastIn(workerBox, "setShowCollisionBoxes", m)
               ELSE Without(workerBox, "setShowCollisionBoxes")
        BY <1>2, LastTail
    <2>3. Without(workerBox', "setShowCollisionBoxes") => o.w.boxes = tile.boxes
        BY <1>2, <2>1, <2>2 DEF Arrives, TravelInv, OperationOnTheWay
    <2>4. \/ o.w.correlationID = tile.correlationID
          \/ \E i \in 1..Len(workerBox') :
               workerBox'[i].type \in SetTypes /\ workerBox'[i].id = tile.correlationID
        <3>1. CASE worker.correlationID = tile.correlationID
            <4>1. m.type \notin SetTypes
                <5>1. 1 \in 1..Len(workerBox) /\ m = workerBox[1]
                    BY <1>2, TailFacts
                <5>2. m.type \in SetTypes =>
                        worker.correlationID < m.id /\ m.id <= tile.correlationID
                    BY <5>1 DEF IInv, OperationsInOrder
                <5>3. m.type \in SetTypes => m.id \in Nat
                    BY <1>2, WorkerMessageFacts, GeometryTileAssumption
                <5>4. tile.correlationID \in Nat
                    BY TypesOK, TileNumbers DEF IInv, Types
                <5> QED BY <3>1, <5>2, <5>3, <5>4
            <4> QED BY <3>1, <4>1 DEF Arrives
        <3>2. CASE \E i \in 1..Len(workerBox) :
                     workerBox[i].type \in SetTypes /\ workerBox[i].id = tile.correlationID
            <4>1. PICK i \in 1..Len(workerBox) :
                     workerBox[i].type \in SetTypes /\ workerBox[i].id = tile.correlationID
                BY <3>2
            <4>2. CASE workerBox[i] = m
                BY <4>1, <4>2 DEF Arrives
            <4> QED BY <1>10, <4>1, <4>2
        <3> QED BY <3>1, <3>2 DEF TravelInv, OperationOnTheWay
    <2>5. \A x \in WorkerMessage : LastIn(workerBox', "setShowCollisionBoxes", x) => x.boxes = tile.boxes
        BY <2>1, <2>2 DEF TravelInv, OperationOnTheWay
    <2> QED BY <1>1, <1>3, <2>3, <2>4, <2>5 DEF OperationOnTheWay
<1> QED BY <1>11, <1>12, <1>13, <1>14 DEF TravelInv

(* From the worker that a handler has written to, to the one it has found. *)
LEMMA ArrivesFrom ==
    ASSUME NEW m, NEW w, NEW o, Done(o, w), Asks(o, w),
           w.threw = worker.threw,
           w.correlationID = (IF m.type \in SetTypes THEN m.id ELSE worker.correlationID),
           w.boxes = (IF m.type = "setShowCollisionBoxes" THEN m.boxes ELSE worker.boxes),
           w.imageCorrelationID = worker.imageCorrelationID,
           w.pendingGlyphs \subseteq worker.pendingGlyphs,
           m.type = "onGlyphsAvailable" => w.pendingGlyphs \cap m.glyphs = {},
           w.pendingImages \subseteq worker.pendingImages,
           m.type = "onImagesAvailable" /\ m.id = worker.imageCorrelationID => w.pendingImages = {},
           Without(o.sent, "onLayout") /\ ~o.threw /\ Rested(o.w) =>
               Rested(worker) /\ m.type \notin SetTypes
    PROVE  Arrives(m, o)
<1>1. /\ o \in OutcomeType /\ o.w.threw = w.threw /\ Sends(o.sent, o.w)
      /\ o.w.correlationID = w.correlationID
    BY DEF Done
<1>2. /\ \A i \in 1..Len(o.sent) : Says(o.sent[i], o.w)
      /\ o.w.boxes = w.boxes
    BY DEF Asks
<1>3. Without(o.sent, "getGlyphs") =>
         /\ o.w.pendingGlyphs \subseteq worker.pendingGlyphs
         /\ m.type = "onGlyphsAvailable" => o.w.pendingGlyphs \cap m.glyphs = {}
    BY DEF Asks
<1>4. Without(o.sent, "getImages") =>
         /\ o.w.imageCorrelationID = worker.imageCorrelationID
         /\ o.w.pendingImages \subseteq worker.pendingImages
         /\ m.type = "onImagesAvailable" /\ m.id = worker.imageCorrelationID => o.w.pendingImages = {}
    BY DEF Asks
<1> QED BY <1>1, <1>2, <1>3, <1>4 DEF Arrives

LEMMA WorkerTravels == ASSUME IInv, TravelInv, WorkerStep PROVE TravelInv'
<1>1. worker \in WorkerType /\ workerBox \in Seq(WorkerMessage)
    BY TypesOK DEF IInv, Types
<1>2. Current(worker) /\ Contents(worker) /\ Asked(worker)
    BY DEF IInv, Current
<1> DEFINE m == Head(workerBox)
<1>3. workerBox # <<>> => /\ m \in WorkerMessage
                          /\ m.type = "onImagesAvailable" => Suits(m, worker)
    BY <1>1, TailFacts DEF IInv, ImagesSuit
<1>4. CASE WorkerSetData
    <2> DEFINE w == [worker EXCEPT !.data = m.id, !.contents = m.contents, !.correlationID = m.id]
               o == ParseOrPostpone(w)
    <2>1. workerBox # <<>> /\ m.type = "setData" /\ Ends(o)
        BY <1>4 DEF WorkerSetData, Takes
    <2>2. m.id \in 1..MaxOps /\ m.id # 0 /\ m.contents \in Parses
        BY <1>3, <2>1, WorkerMessageFacts, GeometryTileAssumption DEF SetTypes
    <2>3. /\ w \in WorkerType /\ w.contents \in Parses /\ w.correlationID = m.id /\ w.data # 0
          /\ w.layers = worker.layers /\ w.result = worker.result
          /\ w.threw = worker.threw /\ w.boxes = worker.boxes
          /\ w.glyphMap = worker.glyphMap /\ w.pendingGlyphs = worker.pendingGlyphs
          /\ w.imageMap = worker.imageMap /\ w.pendingImages = worker.pendingImages
          /\ w.imageCorrelationID = worker.imageCorrelationID
        <3> HIDE DEF m
        <3>1. PICK id \in 0..MaxOps : id = m.id
            BY <2>2, GeometryTileAssumption
        <3>2. PICK c \in Parses : c = m.contents
            BY <2>2
        <3>3. w = [worker EXCEPT !.data = id, !.contents = c, !.correlationID = id]
            BY <3>1, <3>2
        <3> HIDE DEF w
        <3> QED BY <1>1, <2>2, <3>1, <3>2, <3>3 DEF WorkerType
    <2> HIDE DEF w, m
    <2>4. Contents(w) /\ Asked(w)
        BY <1>2, <2>2, <2>3 DEF Contents, Asked
    <2>5. Done(o, w)
        BY <2>3, <2>4, ParseOrPostponeDone
    <2>6. Asks(o, w) /\ (~o.threw /\ Without(o.sent, "onLayout") => ~Rested(o.w))
        BY <2>3, <2>4, ParseOrPostponeAsks
    <2> HIDE DEF o
    <2>7. Arrives(m, o)
        BY <2>1, <2>3, <2>5, <2>6, ArrivesFrom DEF SetTypes
    <2> QED BY <2>1, <2>7, HandlerTravels DEF m
<1>5. CASE WorkerSetLayers
    <2> DEFINE w == [worker EXCEPT !.layers = m.id, !.contents = m.contents, !.correlationID = m.id]
               o == ParseOrPostpone(w)
    <2>1. workerBox # <<>> /\ m.type = "setLayers" /\ Ends(o)
        BY <1>5 DEF WorkerSetLayers, Takes
    <2>2. m.id \in 1..MaxOps /\ m.id # 0 /\ m.contents \in Parses
        BY <1>3, <2>1, WorkerMessageFacts, GeometryTileAssumption DEF SetTypes
    <2>3. /\ w \in WorkerType /\ w.contents \in Parses /\ w.correlationID = m.id /\ w.layers # 0
          /\ w.data = worker.data /\ w.result = worker.result
          /\ w.threw = worker.threw /\ w.boxes = worker.boxes
          /\ w.glyphMap = worker.glyphMap /\ w.pendingGlyphs = worker.pendingGlyphs
          /\ w.imageMap = worker.imageMap /\ w.pendingImages = worker.pendingImages
          /\ w.imageCorrelationID = worker.imageCorrelationID
        <3> HIDE DEF m
        <3>1. PICK id \in 0..MaxOps : id = m.id
            BY <2>2, GeometryTileAssumption
        <3>2. PICK c \in Parses : c = m.contents
            BY <2>2
        <3>3. w = [worker EXCEPT !.layers = id, !.contents = c, !.correlationID = id]
            BY <3>1, <3>2
        <3> HIDE DEF w
        <3> QED BY <1>1, <2>2, <3>1, <3>2, <3>3 DEF WorkerType
    <2> HIDE DEF w, m
    <2>4. Contents(w) /\ Asked(w)
        BY <1>2, <2>2, <2>3 DEF Contents, Asked
    <2>5. Done(o, w)
        BY <2>3, <2>4, ParseOrPostponeDone
    <2>6. Asks(o, w) /\ (~o.threw /\ Without(o.sent, "onLayout") => ~Rested(o.w))
        BY <2>3, <2>4, ParseOrPostponeAsks
    <2> HIDE DEF o
    <2>7. Arrives(m, o)
        BY <2>1, <2>3, <2>5, <2>6, ArrivesFrom DEF SetTypes
    <2> QED BY <2>1, <2>7, HandlerTravels DEF m
<1>6. CASE WorkerSetShowCollisionBoxes
    <2> DEFINE w == [worker EXCEPT !.boxes = m.boxes, !.correlationID = m.id]
               v == [w EXCEPT !.state = "NeedsSymbolLayout"]
               o == IF w.state = "Idle" /\ w.result = None THEN Coalesce(Parse(w))
                    ELSE IF w.state = "Coalescing" THEN Outcome(v, <<>>) ELSE Outcome(w, <<>>)
    <2>1. workerBox # <<>> /\ m.type = "setShowCollisionBoxes" /\ Ends(o)
        BY <1>6 DEF WorkerSetShowCollisionBoxes, Takes
    <2>2. m.id \in 1..MaxOps /\ m.id # 0 /\ m.boxes \in BOOLEAN
        BY <1>3, <2>1, WorkerMessageFacts, GeometryTileAssumption DEF SetTypes
    <2>3. /\ w \in WorkerType /\ w.correlationID = m.id /\ w.boxes = m.boxes /\ w.state = worker.state
          /\ w.data = worker.data /\ w.layers = worker.layers /\ w.contents = worker.contents
          /\ w.result = worker.result /\ w.threw = worker.threw
          /\ w.glyphMap = worker.glyphMap /\ w.pendingGlyphs = worker.pendingGlyphs
          /\ w.imageMap = worker.imageMap /\ w.pendingImages = worker.pendingImages
          /\ w.imageCorrelationID = worker.imageCorrelationID
        <3> HIDE DEF m
        <3>1. PICK id \in 0..MaxOps : id = m.id
            BY <2>2, GeometryTileAssumption
        <3>2. PICK b \in BOOLEAN : b = m.boxes
            BY <2>2
        <3>3. w = [worker EXCEPT !.boxes = b, !.correlationID = id]
            BY <3>1, <3>2
        <3> HIDE DEF w
        <3> QED BY <1>1, <2>2, <3>1, <3>2, <3>3 DEF WorkerType
    <2> HIDE DEF w, m
    <2>4. Contents(w) /\ Asked(w) /\ Current(w)
        BY <1>2, <2>2, <2>3 DEF Contents, Asked, Current, Fresh
    <2>5. Done(o, w) /\ Asks(o, w) /\ (~o.threw /\ Without(o.sent, "onLayout") => ~Rested(o.w))
        <3>1. CASE w.state = "Idle" /\ w.result = None
            <4>1. Sound(Parse(w), w)
                BY <2>3, <2>4, ParseSound
            <4>2. Parse(w) \in OutcomeType /\ Parse(w).w.data = w.data /\ Parse(w).w.layers = w.layers
                BY <4>1 DEF Sound, Keeps
            <4>3. o = Coalesce(Parse(w))
                BY <3>1
            <4> HIDE DEF o
            <4>4. Asks(o, w) /\ (~o.threw /\ Without(o.sent, "onLayout") => ~Rested(o.w))
                BY <2>3, <2>4, <4>2, <4>3, ParseAsks, CoalesceAsks DEF Rested
            <4> QED BY <2>3, <4>1, <4>3, <4>4, CoalesceDone
        <3>2. CASE w.state = "Coalescing"
            <4>1. o = Outcome(v, <<>>)
                BY <3>2
            <4> HIDE DEF o
            <4>2. Done(o, w)
                BY <2>3, <2>4, <3>2, <4>1, StateDone DEF Current
            <4>3. Asks(o, w) /\ ~Rested(o.w)
                BY <2>3, <4>1, StateAsks DEF Rested
            <4> QED BY <4>2, <4>3
        <3>3. CASE ~(w.state = "Idle" /\ w.result = None) /\ w.state # "Coalescing"
            <4>1. o = Outcome(w, <<>>)
                BY <3>3
            <4> HIDE DEF o
            <4>2. Done(o, w) /\ o.w = w /\ o.sent = <<>>
                BY <2>3, <2>4, <4>1, NothingDone DEF Outcome
            <4> QED BY <3>3, <4>2 DEF Asks, Rested
        <3> QED BY <3>1, <3>2, <3>3
    <2> HIDE DEF o
    <2>6. Arrives(m, o)
        BY <2>1, <2>3, <2>5, ArrivesFrom DEF SetTypes
    <2> QED BY <2>1, <2>6, HandlerTravels DEF m
<1>7. CASE WorkerOnGlyphsAvailable
    <2> DEFINE new == m.glyphs \cap worker.pendingGlyphs
               w == [worker EXCEPT !.pendingGlyphs = @ \ new, !.glyphMap = @ \cup new]
               o == SymbolDependenciesChanged(w)
    <2>1. workerBox # <<>> /\ m.type = "onGlyphsAvailable" /\ Ends(o)
        BY <1>7 DEF WorkerOnGlyphsAvailable, Takes
    <2> HIDE DEF m
    <2>2. /\ worker.pendingGlyphs \ new \in SUBSET Glyphs /\ worker.glyphMap \cup new \in SUBSET Glyphs
          /\ (worker.pendingGlyphs \ new) \cap m.glyphs = {}
        BY <1>1 DEF WorkerType
    <2> HIDE DEF new
    <2>3. /\ w \in WorkerType /\ w.state = worker.state /\ w.correlationID = worker.correlationID
          /\ w.data = worker.data /\ w.layers = worker.layers /\ w.contents = worker.contents
          /\ w.result = worker.result /\ w.boxes = worker.boxes
          /\ w.glyphMap = worker.glyphMap \cup new /\ w.pendingGlyphs = worker.pendingGlyphs \ new
          /\ w.imageMap = worker.imageMap /\ w.pendingImages = worker.pendingImages
          /\ w.imageCorrelationID = worker.imageCorrelationID /\ w.threw = worker.threw
        BY <1>1, <2>2 DEF WorkerType
    <2> HIDE DEF w
    <2>4. Current(w) /\ Asked(w)
        BY <1>2, <2>3 DEF Current, Contents, Fresh, Asked
    <2>5. Done(o, w)
        BY <2>3, <2>4, SymbolDependenciesDone
    <2>6. Asks(o, w) /\ (Without(o.sent, "onLayout") /\ Rested(o.w) => Rested(w))
        BY <2>3, <2>4, SymbolDependenciesAsk
    <2>7. Rested(w) => Rested(worker)
        BY <2>3 DEF Rested
    <2> HIDE DEF o
    <2>8. Arrives(m, o)
        BY <2>1, <2>2, <2>3, <2>5, <2>6, <2>7, ArrivesFrom DEF SetTypes
    <2> QED BY <2>1, <2>8, HandlerTravels DEF m
<1>8. CASE WorkerOnImagesAvailable
    <2> DEFINE w == [worker EXCEPT !.imageMap = m.images, !.pendingImages = {}]
               o == IF m.id = worker.imageCorrelationID
                    THEN SymbolDependenciesChanged(w) ELSE Outcome(worker, <<>>)
    <2>1. workerBox # <<>> /\ m.type = "onImagesAvailable" /\ Ends(o)
        BY <1>8 DEF WorkerOnImagesAvailable, Takes
    <2>2. m.images \subseteq Images /\ Suits(m, worker)
        BY <1>3, <2>1, WorkerMessageFacts
    <2> HIDE DEF m
    <2>3. CASE m.id = worker.imageCorrelationID
        <3>1. /\ w \in WorkerType /\ w.state = worker.state /\ w.correlationID = worker.correlationID
              /\ w.data = worker.data /\ w.layers = worker.layers /\ w.contents = worker.contents
              /\ w.result = worker.result /\ w.boxes = worker.boxes
              /\ w.glyphMap = worker.glyphMap /\ w.pendingGlyphs = worker.pendingGlyphs
              /\ w.imageMap = m.images /\ w.pendingImages = {} /\ w.threw = worker.threw
              /\ w.imageCorrelationID = worker.imageCorrelationID
            <4>1. PICK new \in SUBSET Images : new = m.images
                BY <2>2
            <4>2. w = [worker EXCEPT !.imageMap = new, !.pendingImages = {}]
                BY <4>1
            <4> HIDE DEF w
            <4> QED BY <1>1, <4>1, <4>2 DEF WorkerType
        <3> HIDE DEF w
        <3>2. Current(w) /\ Asked(w)
            BY <1>2, <2>2, <2>3, <3>1 DEF Current, Contents, Fresh, Asked, Suits
        <3>3. o = SymbolDependenciesChanged(w)
            BY <2>3
        <3> HIDE DEF o
        <3>4. Done(o, w)
            BY <3>1, <3>2, <3>3, SymbolDependenciesDone
        <3>5. Asks(o, w) /\ (Without(o.sent, "onLayout") /\ Rested(o.w) => Rested(worker))
            BY <3>1, <3>2, <3>3, SymbolDependenciesAsk DEF Rested
        <3>6. Arrives(m, o)
            BY <2>1, <3>1, <3>4, <3>5, ArrivesFrom DEF SetTypes
        <3> QED BY <2>1, <3>6, HandlerTravels DEF m
    <2>4. CASE m.id # worker.imageCorrelationID
        <3>1. o = Outcome(worker, <<>>)
            BY <2>4
        <3> HIDE DEF o
        <3>2. Done(o, worker) /\ o.w = worker /\ o.sent = <<>>
            BY <1>1, <1>2, <3>1, NothingDone DEF Outcome
        <3>3. Asks(o, worker)
            BY <3>2 DEF Asks
        <3>4. Arrives(m, o)
            BY <2>1, <2>4, <3>2, <3>3, ArrivesFrom DEF SetTypes
        <3> QED BY <2>1, <3>4, HandlerTravels DEF m
    <2> QED BY <2>3, <2>4
<1>9. CASE WorkerCoalesced
    <2>1. workerBox # <<>> /\ m.type = "coalesced"
        BY <1>9 DEF WorkerCoalesced, Takes
    <2> HIDE DEF m
    <2>2. SUFFICES ASSUME NEW o, Ends(o), Done(o, worker), Asks(o, worker),
                          Without(o.sent, "onLayout") /\ ~o.threw /\ Rested(o.w) => Rested(worker)
                   PROVE  TravelInv'
        <3>1. CASE worker.state = "Coalescing" /\ Ends(Outcome([worker EXCEPT !.state = "Idle"], <<>>))
            <4> DEFINE o == Outcome([worker EXCEPT !.state = "Idle"], <<>>)
            <4>1. Done(o, worker)
                BY <1>1, <1>2, <3>1, StateDone DEF Current
            <4>2. Asks(o, worker) /\ (Rested(o.w) => Rested(worker))
                BY <1>1, <3>1, StateAsks DEF Rested
            <4> HIDE DEF o
            <4> QED BY <2>2, <3>1, <4>1, <4>2 DEF o
        <3>2. CASE Ends(Coalesce(Parse(worker)))
            <4> DEFINE o == Coalesce(Parse(worker))
            <4>1. Sound(Parse(worker), worker)
                BY <1>1, <1>2, ParseSound
            <4>2. /\ Parse(worker) \in OutcomeType
                  /\ Parse(worker).w.data = worker.data /\ Parse(worker).w.layers = worker.layers
                BY <4>1 DEF Sound, Keeps
            <4>3. Asks(o, worker) /\ (~o.threw /\ Without(o.sent, "onLayout") => ~Rested(o.w))
                BY <1>1, <1>2, <4>2, ParseAsks, CoalesceAsks DEF Rested
            <4>4. Done(o, worker)
                BY <1>1, <4>1, CoalesceDone
            <4> HIDE DEF o
            <4> QED BY <2>2, <3>2, <4>3, <4>4 DEF o
        <3>3. CASE /\ worker.state = "NeedsSymbolLayout" /\ worker.result # None
                   /\ Ends(Coalesce(FinalizeLayout(worker)))
            <4> DEFINE o == Coalesce(FinalizeLayout(worker))
            <4>1. Sound(FinalizeLayout(worker), worker)
                BY <1>1, <1>2, <3>3, FinalizeSound DEF Current
            <4>2. FinalizeLayout(worker) \in OutcomeType
                BY <4>1 DEF Sound
            <4>3. Asks(o, worker) /\ (Without(o.sent, "onLayout") => ~Rested(o.w))
                BY <1>1, <3>3, <4>2, FinalizeAsks, CoalesceAsks DEF Rested
            <4>4. Done(o, worker)
                BY <1>1, <4>1, CoalesceDone
            <4> HIDE DEF o
            <4> QED BY <2>2, <3>3, <4>3, <4>4 DEF o
        <3> QED BY <1>9, <3>1, <3>2, <3>3 DEF WorkerCoalesced
    <2>3. Arrives(m, o)
        BY <2>1, <2>2, ArrivesFrom DEF SetTypes
    <2> QED BY <2>1, <2>2, <2>3, HandlerTravels DEF m
<1> QED BY <1>4, <1>5, <1>6, <1>7, <1>8, <1>9 DEF WorkerStep

----------------------------------------------------------------------------
(* The tile changes what it wants, and says so to the worker. *)
LEMMA BoxesLast ==
    ASSUME NEW s \in Seq(WorkerMessage), NEW x \in WorkerMessage
    PROVE  /\ \A m : LastIn(Append(s, x), "setShowCollisionBoxes", m) =>
                /\ x.type = "setShowCollisionBoxes" => m = x
                /\ x.type # "setShowCollisionBoxes" => LastIn(s, "setShowCollisionBoxes", m)
           /\ Without(Append(s, x), "setShowCollisionBoxes") =>
                Without(s, "setShowCollisionBoxes") /\ x.type # "setShowCollisionBoxes"
BY LastAppend

LEMMA ChangeTravels ==
    ASSUME IInv, TravelInv, NEW n \in WorkerMessage, n.type \in SetTypes, n.id = tile'.correlationID,
           workerBox' = Append(workerBox, n), UNCHANGED <<worker, tileBox, glyphs, images>>,
           tile.correlationID < tile'.correlationID, tile'.correlationID \in Nat,
           tile'.shown = tile.shown,
           IF n.type = "setShowCollisionBoxes" THEN tile'.boxes = n.boxes ELSE tile'.boxes = tile.boxes
    PROVE  TravelInv'
<1>1. workerBox \in Seq(WorkerMessage)
    BY TypesOK DEF IInv, Types
<1>2. /\ Len(workerBox') = Len(workerBox) + 1 /\ workerBox'[Len(workerBox) + 1] = n
      /\ Len(workerBox) \in Nat
      /\ \A i \in 1..Len(workerBox) : workerBox'[i] = workerBox[i]
    BY <1>1, AppendFacts
<1>3. /\ Len(workerBox) + 1 \in 1..Len(workerBox')
      /\ \A i \in 1..Len(workerBox) : i \in 1..Len(workerBox')
    BY <1>2
<1>4. GlyphsOnTheWay'
    BY <1>2, <1>3 DEF TravelInv, GlyphsOnTheWay
<1>5. ImagesOnTheWay'
    BY <1>2, <1>3 DEF TravelInv, ImagesOnTheWay
<1>6. LayoutOnTheWay'
    <2>1. worker.correlationID <= tile.correlationID
        BY DEF IInv, OperationsInOrder
    <2>2. worker.correlationID \in Nat /\ tile.correlationID \in Nat
        BY TypesOK, TileNumbers, WorkerNumbers DEF IInv, Types
    <2>3. worker.correlationID # tile'.correlationID
        BY <2>1, <2>2
    <2> QED BY <2>3 DEF TravelInv, LayoutOnTheWay
<1>7. OperationOnTheWay'
    <2>1. /\ \A m : LastIn(workerBox', "setShowCollisionBoxes", m) =>
               /\ n.type = "setShowCollisionBoxes" => m = n
               /\ n.type # "setShowCollisionBoxes" => LastIn(workerBox, "setShowCollisionBoxes", m)
          /\ Without(workerBox', "setShowCollisionBoxes") =>
               Without(workerBox, "setShowCollisionBoxes") /\ n.type # "setShowCollisionBoxes"
        <3> DEFINE s == workerBox
                   t == Append(s, n)
        <3>1. /\ \A m : LastIn(t, "setShowCollisionBoxes", m) =>
                   /\ n.type = "setShowCollisionBoxes" => m = n
                   /\ n.type # "setShowCollisionBoxes" => LastIn(s, "setShowCollisionBoxes", m)
              /\ Without(t, "setShowCollisionBoxes") =>
                   Without(s, "setShowCollisionBoxes") /\ n.type # "setShowCollisionBoxes"
            BY <1>1, BoxesLast
        <3>2. workerBox' = t
            OBVIOUS
        <3> HIDE DEF s, t
        <3> QED BY <3>1, <3>2 DEF s
    <2>2. \E i \in 1..Len(workerBox') :
            workerBox'[i].type \in SetTypes /\ workerBox'[i].id = tile'.correlationID
        BY <1>2, <1>3
    <2> QED BY <2>1, <2>2 DEF TravelInv, OperationOnTheWay
<1> QED BY <1>4, <1>5, <1>6, <1>7 DEF TravelInv

LEMMA SetTravels ==
    ASSUME IInv, TravelInv, SetData \/ SetLayers \/ SetShowCollisionBoxes
    PROVE  TravelInv'
<1>1. tile \in TileType /\ tile.correlationID \in Nat /\ MayChange /\ MaxOps \in Nat
    BY TypesOK, TileNumbers, GeometryTileAssumption DEF IInv, Types, SetData, SetLayers,
       SetShowCollisionBoxes
<1>2. Changed \in 1..MaxOps /\ tile.correlationID < Changed /\ Changed \in Nat
    BY <1>1 DEF Changed, MayChange
<1>3. CASE SetData
    <2>1. PICK p \in Parses : workerBox' = Append(workerBox, [type |-> "setData", id |-> Changed, contents |-> p])
        BY <1>3 DEF SetData, ToWorker
    <2> DEFINE n == [type |-> "setData", id |-> Changed, contents |-> p]
    <2>2. n \in WorkerMessage /\ n.type = "setData" /\ n.id = Changed
        BY <1>2 DEF WorkerMessage
    <2>3. /\ tile'.correlationID = Changed /\ tile'.shown = tile.shown /\ tile'.boxes = tile.boxes
          /\ UNCHANGED <<worker, tileBox, glyphs, images>>
        BY <1>1, <1>3 DEF SetData, TileType
    <2> HIDE DEF n
    <2> QED BY <1>2, <2>1, <2>2, <2>3, ChangeTravels DEF SetTypes, n
<1>4. CASE SetLayers
    <2>1. PICK p \in Parses : workerBox' = Append(workerBox, [type |-> "setLayers", id |-> Changed, contents |-> p])
        BY <1>4 DEF SetLayers, ToWorker
    <2> DEFINE n == [type |-> "setLayers", id |-> Changed, contents |-> p]
    <2>2. n \in WorkerMessage /\ n.type = "setLayers" /\ n.id = Changed
        BY <1>2 DEF WorkerMessage
    <2>3. /\ tile'.correlationID = Changed /\ tile'.shown = tile.shown /\ tile'.boxes = tile.boxes
          /\ UNCHANGED <<worker, tileBox, glyphs, images>>
        BY <1>1, <1>4 DEF SetLayers, TileType
    <2> HIDE DEF n
    <2> QED BY <1>2, <2>1, <2>2, <2>3, ChangeTravels DEF SetTypes, n
<1>5. CASE SetShowCollisionBoxes
    <2> DEFINE n == [type |-> "setShowCollisionBoxes", id |-> Changed, boxes |-> ~tile.boxes]
    <2>1. workerBox' = Append(workerBox, n)
        BY <1>5 DEF SetShowCollisionBoxes, ToWorker
    <2>2. /\ n \in WorkerMessage /\ n.type = "setShowCollisionBoxes" /\ n.id = Changed
          /\ n.boxes = ~tile.boxes
        <3>1. PICK b \in BOOLEAN : b = ~tile.boxes
            BY Zenon
        <3>2. n = [type |-> "setShowCollisionBoxes", id |-> Changed, boxes |-> b]
            BY <3>1
        <3> HIDE DEF n
        <3> QED BY <1>2, <3>1, <3>2 DEF WorkerMessage
    <2>3. /\ tile'.correlationID = Changed /\ tile'.shown = tile.shown /\ tile'.boxes = ~tile.boxes
          /\ UNCHANGED <<worker, tileBox, glyphs, images>>
        BY <1>1, <1>5 DEF SetShowCollisionBoxes, TileType
    <2>4. tile'.boxes = n.boxes
        BY <2>2, <2>3, Zenon
    <2> HIDE DEF n
    <2> QED BY <1>2, <2>1, <2>2, <2>3, <2>4, ChangeTravels DEF SetTypes
<1> QED BY <1>3, <1>4, <1>5

(* A message of another type is taken. *)
LEMMA RestTravels ==
    ASSUME tileBox \in Seq(TileMessage), tileBox # <<>>, tileBox' = Tail(tileBox), NEW type
    PROVE  /\ \A m : LastIn(tileBox', type, m) => LastIn(tileBox, type, m)
           /\ Head(tileBox).type # type /\ Without(tileBox', type) => Without(tileBox, type)
           /\ Head(tileBox).type = type /\ Without(tileBox', type) =>
                LastIn(tileBox, type, Head(tileBox))
BY LastTail

LEMMA ResultTravels ==
    ASSUME IInv, TravelInv, TileOnLayout \/ TileOnError
    PROVE  TravelInv'
<1> DEFINE m == Head(tileBox)
<1>1. /\ tile \in TileType /\ tileBox \in Seq(TileMessage) /\ tileBox # <<>>
      /\ tileBox' = Tail(tileBox) /\ UNCHANGED <<worker, workerBox, glyphs, images>>
      /\ m.type \in {"onLayout", "onError"} /\ m \in TileMessage
    BY TypesOK, TailFacts DEF IInv, Types, TileOnLayout, TileOnError, TileTakes
<1>2. GlyphsOnTheWay'
    BY <1>1, RestTravels DEF TravelInv, GlyphsOnTheWay
<1>3. ImagesOnTheWay'
    BY <1>1, RestTravels DEF TravelInv, ImagesOnTheWay
<1>4. /\ tile'.correlationID = tile.correlationID /\ tile'.boxes = tile.boxes
      /\ tile'.pending => tile.pending /\ m.id # tile.correlationID
      /\ tile'.shown.boxes = IF m.type = "onLayout" THEN m.boxes ELSE tile.shown.boxes
    <2>1. CASE TileOnLayout
        <3> HIDE DEF m
        <3>1. /\ m.type = "onLayout"
              /\ tile' = [tile EXCEPT !.loaded = TRUE, !.pending = StillPending(m),
                                !.shown = [data |-> m.data, layers |-> m.layers, boxes |-> m.boxes]]
            BY <2>1 DEF TileOnLayout, TileTakes, m
        <3> QED BY <1>1, <3>1 DEF TileType, StillPending
    <2>2. CASE TileOnError
        <3> HIDE DEF m
        <3>1. /\ m.type = "onError"
              /\ tile' = [tile EXCEPT !.loaded = TRUE, !.pending = StillPending(m),
                                      !.failed = @ \/ m.id = tile.correlationID]
            BY <2>2 DEF TileOnError, TileTakes, m
        <3> QED BY <1>1, <3>1 DEF TileType, StillPending
    <2> QED BY <2>1, <2>2
<1>5. LayoutOnTheWay'
    <2> SUFFICES ASSUME ~worker.threw, Rested(worker)
                 PROVE  /\ \A x \in TileMessage : LastIn(tileBox', "onLayout", x) =>
                             x.id = worker.correlationID /\ x.boxes = worker.boxes
                        /\ Without(tileBox', "onLayout") =>
                             /\ tile'.shown.boxes = worker.boxes
                             /\ worker.correlationID = tile'.correlationID => ~tile'.pending
        BY <1>1 DEF LayoutOnTheWay
    <2>1. \A x \in TileMessage : LastIn(tileBox, "onLayout", x) =>
             x.id = worker.correlationID /\ x.boxes = worker.boxes
        BY DEF TravelInv, LayoutOnTheWay
    <2>2. ASSUME Without(tileBox', "onLayout")
          PROVE  /\ tile'.shown.boxes = worker.boxes
                 /\ worker.correlationID = tile'.correlationID => ~tile'.pending
        <3>1. CASE m.type = "onLayout"
            <4>1. LastIn(tileBox, "onLayout", m)
                BY <1>1, <2>2, <3>1, RestTravels
            <4>2. m.id = worker.correlationID /\ m.boxes = worker.boxes
                BY <1>1, <2>1, <4>1
            <4> HIDE DEF m
            <4> QED BY <1>4, <3>1, <4>2
        <3>2. CASE m.type = "onError"
            <4>1. Without(tileBox, "onLayout")
                BY <1>1, <2>2, <3>2, RestTravels
            <4>2. /\ tile.shown.boxes = worker.boxes
                  /\ worker.correlationID = tile.correlationID => ~tile.pending
                BY <4>1 DEF TravelInv, LayoutOnTheWay
            <4> HIDE DEF m
            <4> QED BY <1>4, <3>2, <4>2
        <3> QED BY <1>1, <3>1, <3>2
    <2> QED BY <1>1, <2>1, <2>2, RestTravels
<1>6. OperationOnTheWay'
    BY <1>1, <1>4 DEF TravelInv, OperationOnTheWay
<1> QED BY <1>2, <1>3, <1>5, <1>6 DEF TravelInv

(* A manager answers, or takes a request and may answer at once. *)
LEMMA AnswerTravels ==
    ASSUME IInv, TravelInv, UNCHANGED <<tile, worker>>,
           \/ UNCHANGED workerBox
           \/ \E n \in WorkerMessage :
                n.type \notin SetTypes /\ workerBox' = Append(workerBox, n)
    PROVE  /\ OperationOnTheWay'
           /\ \A i \in 1..Len(workerBox) : i \in 1..Len(workerBox') /\ workerBox'[i] = workerBox[i]
           /\ \A n \in WorkerMessage : workerBox' = Append(workerBox, n) =>
                Len(workerBox') \in 1..Len(workerBox') /\ workerBox'[Len(workerBox')] = n
<1>1. workerBox \in Seq(WorkerMessage)
    BY TypesOK DEF IInv, Types
<1>2. ASSUME NEW n \in WorkerMessage, workerBox' = Append(workerBox, n)
      PROVE  /\ Len(workerBox') = Len(workerBox) + 1 /\ workerBox'[Len(workerBox) + 1] = n
             /\ Len(workerBox) \in Nat
             /\ \A i \in 1..Len(workerBox) : workerBox'[i] = workerBox[i]
    BY <1>1, <1>2, AppendFacts
<1>3. ASSUME NEW n \in WorkerMessage, workerBox' = Append(workerBox, n)
      PROVE  /\ Len(workerBox') \in 1..Len(workerBox') /\ workerBox'[Len(workerBox')] = n
             /\ \A i \in 1..Len(workerBox) : i \in 1..Len(workerBox') /\ workerBox'[i] = workerBox[i]
    BY <1>2, <1>3
<1>4. \A i \in 1..Len(workerBox) : i \in 1..Len(workerBox') /\ workerBox'[i] = workerBox[i]
    BY <1>3
<1>5. /\ \A m : LastIn(workerBox', "setShowCollisionBoxes", m)
                  => LastIn(workerBox, "setShowCollisionBoxes", m)
      /\ Without(workerBox', "setShowCollisionBoxes") => Without(workerBox, "setShowCollisionBoxes")
    <2>1. CASE UNCHANGED workerBox
        BY <2>1
    <2>2. CASE \E n \in WorkerMessage :
                 n.type \notin SetTypes /\ workerBox' = Append(workerBox, n)
        BY <1>1, <2>2, LastAppend DEF SetTypes
    <2> QED BY <2>1, <2>2
<1> QED BY <1>3, <1>4, <1>5 DEF TravelInv, OperationOnTheWay

LEMMA TileGetGlyphsTravels == ASSUME IInv, TravelInv, TileGetGlyphs PROVE TravelInv'
<1> DEFINE m == Head(tileBox)
           missing == m.glyphs \ glyphs.parsed
           n == [type |-> "onGlyphsAvailable", glyphs |-> m.glyphs]
<1>1. /\ tileBox \in Seq(TileMessage) /\ tileBox # <<>> /\ m \in TileMessage
      /\ m.type = "getGlyphs" /\ tileBox' = Tail(tileBox) /\ UNCHANGED <<tile, worker, images>>
      /\ glyphs \in GlyphsType
    BY TypesOK, TailFacts DEF IInv, Types, TileGetGlyphs, TileTakes
<1>2. /\ IF missing = {} THEN workerBox' = Append(workerBox, n) ELSE UNCHANGED workerBox
      /\ glyphs' = [glyphs EXCEPT !.requestors =
                     [g \in Glyphs |-> IF g \in missing THEN m.glyphs ELSE @[g]]]
    BY DEF TileGetGlyphs, ToWorker
<1>3. m.glyphs \subseteq Glyphs
    BY <1>1, TileMessageFacts
<1>4. n \in WorkerMessage /\ n.type = "onGlyphsAvailable" /\ n.glyphs = m.glyphs
    BY <1>3 DEF WorkerMessage
<1> HIDE DEF m, n
<1>5. \A g \in Glyphs : g \in missing => glyphs'.requestors[g] = m.glyphs
    BY <1>1, <1>2 DEF GlyphsType
<1> HIDE DEF missing
<1>6. OperationOnTheWay'
      /\ \A i \in 1..Len(workerBox) : i \in 1..Len(workerBox') /\ workerBox'[i] = workerBox[i]
    BY <1>1, <1>2, <1>4, AnswerTravels DEF SetTypes
<1>7. missing = {} => \E i \in 1..Len(workerBox') : workerBox'[i] = n
    BY <1>1, <1>2, <1>4, AnswerTravels DEF SetTypes
<1>8. GlyphsOnTheWay'
    <2>1. ASSUME Without(tileBox', "getGlyphs"), worker.pendingGlyphs # {}
          PROVE  \/ \E g \in Glyphs : /\ glyphs'.requestors[g] # None
                                      /\ worker.pendingGlyphs \subseteq glyphs'.requestors[g]
                 \/ \E i \in 1..Len(workerBox') :
                      /\ workerBox'[i].type = "onGlyphsAvailable"
                      /\ worker.pendingGlyphs \subseteq workerBox'[i].glyphs
        <3>1. worker.pendingGlyphs \subseteq m.glyphs
            BY <1>1, <2>1, RestTravels DEF TravelInv, GlyphsOnTheWay, m
        <3>2. CASE missing = {}
            BY <1>4, <1>7, <3>1, <3>2
        <3>3. CASE missing # {}
            <4>1. PICK g \in missing : TRUE
                BY <3>3
            <4>2. g \in Glyphs /\ glyphs'.requestors[g] = m.glyphs
                BY <1>3, <1>5, <4>1 DEF missing
            <4>3. m.glyphs # None
                BY <1>3, GeometryTileAssumption
            <4> QED BY <3>1, <4>2, <4>3
        <3> QED BY <3>2, <3>3
    <2> QED BY <1>1, <2>1, RestTravels DEF TravelInv, GlyphsOnTheWay
<1>9. ImagesOnTheWay'
    BY <1>1, <1>6, RestTravels DEF TravelInv, ImagesOnTheWay, m
<1>10. LayoutOnTheWay'
    BY <1>1, RestTravels DEF TravelInv, LayoutOnTheWay, m
<1> QED BY <1>6, <1>8, <1>9, <1>10 DEF TravelInv

(* The range is the last one missing, or another is as much waited for. *)
LEMMA GlyphRangeParsedTravels ==
    ASSUME IInv, TravelInv, NEW g \in Glyphs, GlyphRangeParsed(g)
    PROVE  TravelInv'
<1> DEFINE wanted == glyphs.requestors[g]
           n == [type |-> "onGlyphsAvailable", glyphs |-> wanted]
<1>1. /\ glyphs \in GlyphsType /\ UNCHANGED <<tile, worker, tileBox, images>>
      /\ wanted # None
      /\ IF \A h \in Glyphs \ {g} : glyphs.requestors[h] # wanted
         THEN workerBox' = Append(workerBox, n) ELSE UNCHANGED workerBox
      /\ glyphs' = [glyphs EXCEPT !.parsed = @ \cup {g}, !.requestors[g] = None]
    BY TypesOK DEF IInv, Types, GlyphRangeParsed, ToWorker
<1>2. wanted \subseteq Glyphs
    BY <1>1 DEF GlyphsType
<1>3. n \in WorkerMessage /\ n.type = "onGlyphsAvailable" /\ n.glyphs = wanted
    BY <1>2 DEF WorkerMessage
<1>4. \A h \in Glyphs \ {g} : glyphs'.requestors[h] = glyphs.requestors[h]
    BY <1>1 DEF GlyphsType
<1> HIDE DEF n
<1>5. OperationOnTheWay'
      /\ \A i \in 1..Len(workerBox) : i \in 1..Len(workerBox') /\ workerBox'[i] = workerBox[i]
    BY <1>1, <1>3, AnswerTravels DEF SetTypes
<1>6. (\A h \in Glyphs \ {g} : glyphs.requestors[h] # wanted)
        => \E i \in 1..Len(workerBox') : workerBox'[i] = n
    BY <1>1, <1>3, AnswerTravels DEF SetTypes
<1>7. GlyphsOnTheWay'
    <2>1. ASSUME Without(tileBox, "getGlyphs"), worker.pendingGlyphs # {}
          PROVE  \/ \E h \in Glyphs : /\ glyphs'.requestors[h] # None
                                      /\ worker.pendingGlyphs \subseteq glyphs'.requestors[h]
                 \/ \E i \in 1..Len(workerBox') :
                      /\ workerBox'[i].type = "onGlyphsAvailable"
                      /\ worker.pendingGlyphs \subseteq workerBox'[i].glyphs
        <3>1. CASE \E i \in 1..Len(workerBox) : /\ workerBox[i].type = "onGlyphsAvailable"
                                                /\ worker.pendingGlyphs \subseteq workerBox[i].glyphs
            BY <1>5, <3>1
        <3>2. ASSUME NEW k \in Glyphs, glyphs.requestors[k] # None,
                     worker.pendingGlyphs \subseteq glyphs.requestors[k]
              PROVE  \/ \E h \in Glyphs : /\ glyphs'.requestors[h] # None
                                          /\ worker.pendingGlyphs \subseteq glyphs'.requestors[h]
                     \/ \E i \in 1..Len(workerBox') :
                          /\ workerBox'[i].type = "onGlyphsAvailable"
                          /\ worker.pendingGlyphs \subseteq workerBox'[i].glyphs
            <4>1. CASE k # g
                BY <1>4, <3>2, <4>1
            <4>2. CASE k = g /\ \A h \in Glyphs \ {g} : glyphs.requestors[h] # wanted
                BY <1>3, <1>6, <3>2, <4>2
            <4>3. CASE k = g /\ \E h \in Glyphs \ {g} : glyphs.requestors[h] = wanted
                BY <1>1, <1>4, <3>2, <4>3
            <4> QED BY <4>1, <4>2, <4>3
        <3> QED BY <2>1, <3>1, <3>2 DEF TravelInv, GlyphsOnTheWay
    <2> HIDE DEF wanted
    <2> QED BY <1>1, <2>1 DEF TravelInv, GlyphsOnTheWay
<1>8. ImagesOnTheWay'
    BY <1>1, <1>5 DEF TravelInv, ImagesOnTheWay
<1>9. LayoutOnTheWay'
    BY <1>1 DEF TravelInv, LayoutOnTheWay
<1> QED BY <1>5, <1>7, <1>8, <1>9 DEF TravelInv

LEMMA TileGetImagesTravels == ASSUME IInv, TravelInv, TileGetImages PROVE TravelInv'
<1> DEFINE m == Head(tileBox)
<1>1. /\ tileBox \in Seq(TileMessage) /\ tileBox # <<>> /\ m \in TileMessage
      /\ m.type = "getImages" /\ tileBox' = Tail(tileBox) /\ UNCHANGED <<tile, worker, workerBox, glyphs>>
      /\ images' = [images |-> m.images, id |-> m.id]
    BY TypesOK, TailFacts DEF IInv, Types, TileGetImages, TileTakes
<1>2. m.images \subseteq Images /\ m.id \in Nat
    BY <1>1, TileMessageFacts
<1>3. images' # None /\ images'.id = m.id
    BY <1>1, <1>2, GeometryTileAssumption
<1>4. GlyphsOnTheWay'
    BY <1>1, RestTravels DEF TravelInv, GlyphsOnTheWay, m
<1>5. ImagesOnTheWay'
    <2>1. Without(tileBox', "getImages") => m.id = worker.imageCorrelationID
        BY <1>1, RestTravels DEF TravelInv, ImagesOnTheWay, m
    <2> HIDE DEF m
    <2> QED BY <1>1, <1>3, <2>1, RestTravels DEF TravelInv, ImagesOnTheWay
<1>6. LayoutOnTheWay'
    BY <1>1, RestTravels DEF TravelInv, LayoutOnTheWay, m
<1>7. OperationOnTheWay'
    BY <1>1 DEF TravelInv, OperationOnTheWay
<1> QED BY <1>4, <1>5, <1>6, <1>7 DEF TravelInv

LEMMA NotifyImagesTravels == ASSUME IInv, TravelInv, NotifyImages PROVE TravelInv'
<1> DEFINE n == [type |-> "onImagesAvailable", images |-> images.images, id |-> images.id]
<1>1. /\ images \in [images : SUBSET Images, id : Nat] /\ workerBox' = Append(workerBox, n)
      /\ UNCHANGED <<tile, worker, tileBox, glyphs>>
    BY TypesOK DEF IInv, Types, ImagesType, NotifyImages, ToWorker
<1>2. n \in WorkerMessage /\ n.type = "onImagesAvailable" /\ n.id = images.id
    BY <1>1 DEF WorkerMessage
<1> HIDE DEF n
<1>3. /\ OperationOnTheWay'
      /\ \A i \in 1..Len(workerBox) : i \in 1..Len(workerBox') /\ workerBox'[i] = workerBox[i]
      /\ Len(workerBox') \in 1..Len(workerBox') /\ workerBox'[Len(workerBox')] = n
    BY <1>1, <1>2, AnswerTravels DEF SetTypes
<1>4. GlyphsOnTheWay'
    BY <1>1, <1>3 DEF TravelInv, GlyphsOnTheWay
<1>5. ImagesOnTheWay'
    BY <1>1, <1>2, <1>3 DEF TravelInv, ImagesOnTheWay
<1>6. LayoutOnTheWay'
    BY <1>1 DEF TravelInv, LayoutOnTheWay
<1> QED BY <1>3, <1>4, <1>5, <1>6 DEF TravelInv

LEMMA InitTravels == Init => TravelInv
<1> SUFFICES ASSUME Init PROVE TravelInv
    OBVIOUS
<1>1. Len(tileBox) = 0 /\ Len(workerBox) = 0
    BY DEF Init
<1>2. \A type, m : ~LastIn(tileBox, type, m) /\ ~LastIn(workerBox, type, m)
    BY <1>1 DEF LastIn
<1>3. worker.pendingGlyphs = {} /\ worker.pendingImages = {} /\ worker.data = 0
    BY DEF Init
<1>4. worker.boxes = tile.boxes /\ worker.correlationID = tile.correlationID
    BY DEF Init
<1> QED BY <1>2, <1>3, <1>4
        DEF TravelInv, GlyphsOnTheWay, ImagesOnTheWay, LayoutOnTheWay, Rested, OperationOnTheWay

LEMMA NextTravels == IInv /\ TravelInv /\ [Next]_vars => TravelInv'
<1> SUFFICES ASSUME IInv, TravelInv, [Next]_vars PROVE TravelInv'
    OBVIOUS
<1>1. CASE SetError
    <2>1. tile' = [tile EXCEPT !.loaded = TRUE] /\ UNCHANGED <<worker, workerBox, tileBox, glyphs, images>>
        BY <1>1 DEF SetError
    <2>2. /\ tile'.shown = tile.shown /\ tile'.correlationID = tile.correlationID
          /\ tile'.pending = tile.pending /\ tile'.boxes = tile.boxes
        BY <2>1, TypesOK DEF IInv, Types, TileType
    <2> QED BY <2>1, <2>2 DEF TravelInv, GlyphsOnTheWay, ImagesOnTheWay, LayoutOnTheWay, OperationOnTheWay
<1>2. CASE UNCHANGED vars
    BY <1>2 DEF vars, TravelInv, GlyphsOnTheWay, ImagesOnTheWay, LayoutOnTheWay, OperationOnTheWay
<1> QED
    BY <1>1, <1>2, SetTravels, WorkerTravels, ResultTravels, TileGetGlyphsTravels, TileGetImagesTravels,
       NotifyImagesTravels, GlyphRangeParsedTravels
    DEF Next, TileStep

(* When all is quiet, what was on the way has arrived. *)
LEMMA QuietIsComplete ==
    ASSUME IInv, WaitInv, TravelInv
    PROVE  NothingLeftPending
<1> SUFFICES ASSUME Quiet, ~worker.threw, tile.data # 0, tile.layers # 0
             PROVE  ~tile.pending /\ tile.shown.boxes = tile.boxes
    BY Zenon DEF NothingLeftPending
<1>1. /\ Len(workerBox) = 0 /\ Len(tileBox) = 0 /\ images = None
      /\ \A g \in Glyphs : glyphs.requestors[g] = None
    BY DEF Quiet
<1>2. \A type : Without(workerBox, type) /\ Without(tileBox, type)
    BY <1>1 DEF Without
<1>3. worker.pendingGlyphs = {} /\ worker.pendingImages = {}
    BY <1>1, <1>2 DEF TravelInv, GlyphsOnTheWay, ImagesOnTheWay
<1>4. /\ worker.boxes = tile.boxes /\ worker.correlationID = tile.correlationID
      /\ worker.data = tile.data /\ worker.layers = tile.layers
    BY <1>1, <1>2 DEF TravelInv, OperationOnTheWay, IInv, OperationsInOrder
<1>5. worker.state = "Idle"
    <2>1. {i \in 1..Len(workerBox) : workerBox[i].type = "coalesced"} = {}
        BY <1>1
    <2>2. Cardinality({i \in 1..Len(workerBox) : workerBox[i].type = "coalesced"}) = 0
        BY <2>1, FS_EmptySet
    <2> QED BY <2>2 DEF IInv, CoalescedInFlight
<1>6. worker.result = None
    BY <1>3, <1>5 DEF WaitInv, Resting, Waits, HasPendingDependencies
<1>7. Rested(worker)
    BY <1>4, <1>5, <1>6 DEF Rested
<1> QED BY <1>2, <1>4, <1>7 DEF TravelInv, LayoutOnTheWay

(* No tile is left pending: while every style keeps a symbol layer and parsing has not thrown,  *)
(* a tile with data and layers that waits for nothing any more is complete, and shows          *)
(* collision boxes when they are on.  However glyphs, images, results and set messages have     *)
(* crossed, the reply to the last of each has been sent and has been used.                      *)
THEOREM NothingIsLeftPending == ASSUME SymbolsKept PROVE Spec => []NothingLeftPending
<1>1. Spec => []TravelInv
    BY InitTravels, NextTravels, Invariant, PTL DEF Spec
<1> QED BY <1>1, Invariant, WaitInvariant, QuietIsComplete, PTL
=============================================================================
