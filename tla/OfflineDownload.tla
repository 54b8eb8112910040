-------------------------- MODULE OfflineDownload --------------------------
(***************************************************************************)
(* OfflineDownload: the download of one offline region, with the part of    *)
(* OfflineDatabase it works against.                                        *)
(*                                                                          *)
(* The style is ensured first; it names the other resources: tile sources   *)
(* by URL, whose TileJSON names tiles, tiles of inline tilesets, and glyph  *)
(* ranges, sprites and images ("files").  Everything happens on the         *)
(* database thread: a resource is ensured by a task of its run loop and, if *)
(* the database does not have it, by an online request.                     *)
(*                                                                          *)
(* An online request that fails keeps its place in "requests".  A failed    *)
(* attempt changes nothing here: OnlineFileSource retries it, or never, if  *)
(* the error is one that is not retried, such as a 404.                     *)
(***************************************************************************)
EXTENDS Naturals, FiniteSets, SequencesExt

CONSTANTS
    Style,          \* the style
    Sources,        \* the TileJSONs of the tile sources given by URL, in the order of the style
    SourceTiles,    \* the tiles each TileJSON names; one that cannot be converted has none
    InlineTiles,    \* the tiles of inline tilesets, in the order of tileCover()
    Files,          \* glyph ranges, sprites, images, in the order queueResource() is called
    MapboxTiles,    \* the tiles that count against the limit
    Ambient,        \* what may be in the database before (from the map or another region)
    TileLimits,     \* the values given to setOfflineMapboxTileCountLimit
    MaxConcurrent,  \* OnlineFileSource::getMaximumConcurrentRequests()
    BatchSize,      \* how full the buffer is when it is flushed (64 in the code)
    MaxSessions,    \* how often the download is activated (bound)
    MaxFailures,    \* how often SQLite fails to write a batch (bound)
    Unknown         \* an offlineMapboxTileCount that is not cached

Readable == DOMAIN SourceTiles
Tiles == ToSet(InlineTiles) \cup UNION {ToSet(SourceTiles[s]) : s \in Readable}
Resources == {Style} \cup ToSet(Sources) \cup Tiles \cup ToSet(Files)

(* The sequences name every resource once: "fetching" below is a set. *)
ASSUME OfflineDownloadAssumption ==
    /\ Readable \subseteq ToSet(Sources)
    /\ \A names \in {Sources, InlineTiles, Files} \cup {SourceTiles[s] : s \in Readable} :
          names \in Seq(ToSet(names)) /\ IsInjective(names)
    /\ Style \notin ToSet(Sources) \cup Tiles \cup ToSet(Files)
    /\ ToSet(Sources) \cap (Tiles \cup ToSet(Files)) = {} /\ Tiles \cap ToSet(Files) = {}
    /\ \A s \in Readable :
          /\ ToSet(SourceTiles[s]) \cap ToSet(InlineTiles) = {}
          /\ \A t \in Readable \ {s} : ToSet(SourceTiles[s]) \cap ToSet(SourceTiles[t]) = {}
    /\ MapboxTiles \subseteq Tiles /\ Ambient \subseteq Resources
    /\ TileLimits # {} /\ TileLimits \subseteq Nat
    /\ MaxConcurrent \in Nat \ {0} /\ BatchSize \in Nat \ {0}
    /\ MaxSessions \in Nat /\ MaxFailures \in Nat
    /\ Unknown \notin Nat

VARIABLES
    download,  \* the members of OfflineDownload, see DownloadType
    buffer,    \* Seq(Resources): online responses that wait for the batched insertion
    stored,    \* SUBSET Resources: the resources in the database
    marked,    \* SUBSET stored: those in region_resources and region_tiles
    tileCount, \* the cached offlineMapboxTileCount, or Unknown
    tileLimit, \* offlineMapboxTileCountLimit
    sessions,  \* how often the download was activated
    failures   \* how often a batch failed

vars == <<download, buffer, stored, marked, tileCount, tileLimit, sessions, failures>>

(* "work" are the tasks on the run loop and "fetching" the online requests: together they are *)
(* the list "requests".  "missing" is requiredSourceURLs.                                      *)
DownloadType ==
    [active : BOOLEAN, completed : Nat, required : Nat, precise : BOOLEAN,
     missing : SUBSET Resources, remaining : Seq(Resources), work : Seq(Resources),
     fetching : SUBSET Resources]

Init ==
    /\ download = [active |-> FALSE, completed |-> 0, required |-> 0, precise |-> FALSE,
                   missing |-> {}, remaining |-> <<>>, work |-> <<>>, fetching |-> {}]
    /\ buffer = <<>>
    /\ stored \in SUBSET Ambient
    /\ marked = {}
    /\ tileCount = Unknown
    /\ tileLimit \in TileLimits
    /\ sessions = 0 /\ failures = 0

----------------------------------------------------------------------------
(***************************************************************************)
(* The member functions, as functions of the members.                      *)
(***************************************************************************)

(* deactivateDownload().  The buffer and the status stay as they are. *)
Deactivated(d) ==
    [d EXCEPT !.active = FALSE, !.missing = {}, !.remaining = <<>>, !.work = <<>>, !.fetching = {}]

Outstanding(d) == Len(d.work) + Cardinality(d.fetching)

(* Fault: everything that remains is ensured at once. *)
ContinuedUnmetered(d) ==
    IF d.remaining = <<>> /\ d.completed >= d.required
    THEN Deactivated(d)
    ELSE [d EXCEPT !.work = @ \o d.remaining, !.remaining = <<>>]

(* continueDownload(): stop if all is done, else ensure as many as there are slots for. *)
Continued(d) ==
    IF d.remaining = <<>> /\ d.completed >= d.required
    THEN Deactivated(d)
    ELSE LET free == IF Outstanding(d) < MaxConcurrent THEN MaxConcurrent - Outstanding(d) ELSE 0
             n == IF Len(d.remaining) < free THEN Len(d.remaining) ELSE free
         IN  [d EXCEPT !.work = @ \o SubSeq(d.remaining, 1, n),
                       !.remaining = SubSeq(@, n + 1, Len(@))]

(* queueTiles() and queueResource(). *)
WithTilesUncounted(d, tiles) == [d EXCEPT !.remaining = @ \o tiles]  \* fault: not required
WithTiles(d, tiles) ==
    [d EXCEPT !.required = @ + Len(tiles), !.remaining = @ \o tiles]
WithFiles(d, files) ==
    [d EXCEPT !.required = @ + Len(files), !.remaining = Reverse(files) \o @]

(* The callback of the style: all of its TileJSONs are ensured at once, whatever is           *)
(* outstanding, the rest as far as there are slots.                                            *)
StyleParsed(d) ==
    LET withSources == [d EXCEPT !.precise = (Sources = <<>>), !.required = @ + Len(Sources),
                                 !.missing = ToSet(Sources), !.work = @ \o Sources]
    IN  Continued(WithFiles(WithTiles(withSources, InlineTiles), Files))

SourceParsedPrecise(d, s) ==    \* fault: the number is called precise after the first TileJSON
    IF s \notin Readable THEN d
    ELSE [WithTiles(d, SourceTiles[s]) EXCEPT !.missing = @ \ {s}, !.precise = TRUE]

(* The callback of a TileJSON.  One that cannot be converted stays missing. *)
SourceParsed(d, s) ==
    IF s \notin Readable THEN d
    ELSE [WithTiles(d, SourceTiles[s]) EXCEPT !.missing = @ \ {s},
                                              !.precise = (@ \/ d.missing \ {s} = {})]

(* The callback given to ensureResource(), if any. *)
CalledBack(d, r) ==
    CASE r = Style -> StyleParsed(d)
      [] r \in ToSet(Sources) -> SourceParsed(d, r)
      [] OTHER -> d

(* exceedsOfflineMapboxTileCountLimit(), which counts once and then trusts the cached count. *)
CurrentCount == IF tileCount = Unknown THEN Cardinality(marked \cap MapboxTiles) ELSE tileCount
ExceedsLate(r, count) == r \in MapboxTiles /\ count > tileLimit  \* fault: one tile too many
Exceeds(r, count) == r \in MapboxTiles /\ count >= tileLimit
CachedBy(r) == IF r \in MapboxTiles THEN CurrentCount ELSE tileCount

----------------------------------------------------------------------------
(***************************************************************************)
(* setState and the tile limit, from the application.                      *)
(***************************************************************************)
Activate ==
    /\ ~download.active
    /\ sessions < MaxSessions
    /\ sessions' = sessions + 1
    /\ download' = [active |-> TRUE, completed |-> 0, required |-> 1, precise |-> FALSE,
                    missing |-> {}, remaining |-> <<>>, work |-> <<Style>>, fetching |-> {}]
    /\ UNCHANGED <<buffer, stored, marked, tileCount, tileLimit, failures>>

Deactivate ==
    /\ download.active
    /\ download' = Deactivated(download)
    /\ UNCHANGED <<buffer, stored, marked, tileCount, tileLimit, sessions, failures>>

(* setOfflineMapboxTileCountLimit(), at any time. *)
SetOfflineMapboxTileCountLimit(n) ==
    /\ n # tileLimit
    /\ tileLimit' = n
    /\ UNCHANGED <<download, buffer, stored, marked, tileCount, sessions, failures>>

(***************************************************************************)
(* ensureResource: its task on the run loop.                               *)
(***************************************************************************)

(* The database has the resource: it becomes one of the region and counts as completed. *)
FoundInDatabase(r) ==
    /\ r \in stored
    /\ marked' = marked \cup {r}
    /\ LET ready == CalledBack([download EXCEPT !.work = Tail(@)], r)
       IN  download' = Continued([ready EXCEPT !.completed = @ + 1])
    /\ UNCHANGED tileCount

RefusedByLimit(r) ==
    /\ r \notin stored
    /\ Exceeds(r, CurrentCount)
    /\ download' = Deactivated(download)
    /\ tileCount' = CachedBy(r)
    /\ UNCHANGED marked

RequestedOnline(r) ==
    /\ r \notin stored
    /\ ~Exceeds(r, CurrentCount)
    /\ download' = [download EXCEPT !.work = Tail(@), !.fetching = @ \cup {r}]
    /\ tileCount' = CachedBy(r)
    /\ UNCHANGED marked

EnsureResource ==
    /\ download.work # <<>>
    /\ LET r == Head(download.work)
       IN  FoundInDatabase(r) \/ RefusedByLimit(r) \/ RequestedOnline(r)
    /\ UNCHANGED <<buffer, stored, tileLimit, sessions, failures>>

(***************************************************************************)
(* ensureResource: the response of the online request.                     *)
(***************************************************************************)

(* putRegionResources() stores a batch up to the first tile above the limit. *)
CountAfter(batch, i) ==
    CurrentCount + Cardinality((ToSet(SubSeq(batch, 1, i)) \cap MapboxTiles) \ marked)
Refused(batch) == {i \in 1..Len(batch) : Exceeds(batch[i], CountAfter(batch, i - 1))}
Accepted(batch) ==
    IF Refused(batch) = {} THEN batch
    ELSE SubSeq(batch, 1, Min(Refused(batch)) - 1)

PutRegionResourcesUnstored(batch) ==    \* fault: refused tiles become part of the region
    /\ stored' = stored \cup ToSet(Accepted(batch))
    /\ marked' = marked \cup ToSet(batch)
    /\ tileCount' = CountAfter(batch, Len(batch))

PutRegionResources(batch) ==
    /\ stored' = stored \cup ToSet(Accepted(batch))
    /\ marked' = marked \cup ToSet(Accepted(batch))
    /\ tileCount' = IF ToSet(batch) \cap MapboxTiles = {} THEN tileCount
                    ELSE CountAfter(batch, Len(Accepted(batch)))

IsFlushedFull(d, batch) == Len(batch) = BatchSize  \* fault: the last batch is left in the buffer
IsFlushedAt(d, batch) == Len(batch) = BatchSize \/ d.remaining = <<>>

(* The end of the callback: the limit again, for the resource that arrived, and the next ones. *)
FinishResponse(d, r, count) ==
    download' = IF Exceeds(r, count) THEN Deactivated(d) ELSE Continued(d)

ArrivedKept(r) == CalledBack(download, r)  \* fault: the request stays in the list
Arrived(r) == CalledBack([download EXCEPT !.fetching = @ \ {r}], r)
Batch(r) == Append(buffer, r)

Buffered(r) ==
    /\ ~IsFlushedAt(Arrived(r), Batch(r))
    /\ buffer' = Batch(r)
    /\ FinishResponse(Arrived(r), r, CurrentCount)
    /\ tileCount' = CachedBy(r)
    /\ UNCHANGED <<stored, marked, failures>>

Flushed(r) ==
    /\ IsFlushedAt(Arrived(r), Batch(r))
    /\ Refused(Batch(r)) = {}
    /\ PutRegionResources(Batch(r))
    /\ buffer' = <<>>
    /\ FinishResponse([Arrived(r) EXCEPT !.completed = @ + Len(Batch(r))], r,
                      CountAfter(Batch(r), Len(Batch(r))))
    /\ UNCHANGED failures

(* MapboxTileLimitExceededException: what was accepted is committed but not counted, and the *)
(* buffer keeps the whole batch.                                                              *)
FlushedToLimit(r) ==
    /\ IsFlushedAt(Arrived(r), Batch(r))
    /\ Refused(Batch(r)) # {}
    /\ PutRegionResources(Batch(r))
    /\ buffer' = Batch(r)
    /\ download' = Deactivated(Arrived(r))
    /\ UNCHANGED failures

(* The transaction fails with an error that is taken to be temporary: putRegionResources()    *)
(* logs it and returns normally.  The rows are rolled back, the cached count is not.           *)
FlushFailed(r) ==
    /\ IsFlushedAt(Arrived(r), Batch(r))
    /\ failures < MaxFailures
    /\ failures' = failures + 1
    /\ buffer' = <<>>
    /\ \E i \in 0..Len(Accepted(Batch(r))) :
         /\ FinishResponse(Arrived(r), r, CountAfter(Batch(r), i))
         /\ tileCount' = IF ToSet(Batch(r)) \cap MapboxTiles = {} THEN tileCount
                         ELSE CountAfter(Batch(r), i)
    /\ UNCHANGED <<stored, marked>>

Respond(r) ==
    /\ r \in download.fetching
    /\ Buffered(r) \/ Flushed(r) \/ FlushedToLimit(r) \/ FlushFailed(r)
    /\ UNCHANGED <<tileLimit, sessions>>

----------------------------------------------------------------------------
Next ==
    \/ Activate
    \/ Deactivate
    \/ \E n \in TileLimits : SetOfflineMapboxTileCountLimit(n)
    \/ EnsureResource
    \/ \E r \in Resources : Respond(r)

Spec == Init /\ [][Next]_vars

(* The run loop executes its tasks, and each request is eventually answered without error: by  *)
(* a network that works in the end, and a server that has everything.                           *)
Fairness ==
    /\ WF_vars(EnsureResource)
    /\ \A r \in Resources : WF_vars(Respond(r))

FairSpec == Spec /\ Fairness

----------------------------------------------------------------------------
(* Types of the variables. *)
TypeOK ==
    /\ download \in DownloadType
    /\ buffer \in Seq(Resources)
    /\ stored \subseteq Resources /\ marked \subseteq stored
    /\ tileCount \in Nat \cup {Unknown} /\ tileLimit \in TileLimits
    /\ sessions \in 0..MaxSessions /\ failures \in 0..MaxFailures

(* "The number of resources that have been fully downloaded and are ready for offline access"  *)
(* (offline.hpp): a download that calls itself complete has all its resources in the database.  *)
CompleteMeansStored ==
    sessions > 0 /\ download.completed >= download.required => Resources \subseteq marked

(* No required resource is dropped or counted twice on its way from the queue over the run     *)
(* loop, the network and the buffer into the count, while the database can be written.          *)
Accounted ==
    download.active /\ failures = 0 =>
        download.required =
            download.completed + Len(buffer) + Outstanding(download) + Len(download.remaining)

(* The download meters itself: except for the TileJSONs of its style, which are ensured all   *)
(* at once, it never has more requests than the online file source serves.                      *)
SlotsMetered ==
    \/ Outstanding(download) <= MaxConcurrent
    \/ ToSet(download.work) \cup download.fetching \subseteq ToSet(Sources)

(* "True when the value of requiredResourceCount is a precise count ... and false when it is    *)
(* merely a lower bound": once it is true, the count does not change until the download is       *)
(* activated again, in whatever order the TileJSONs arrive.                                      *)
PreciseIsFinal ==
    [][download.precise =>
         \/ download'.precise /\ download'.required = download.required
         \/ ~download.active /\ download'.active]_vars

(* "Active (resources are being downloaded or will be downloaded)": an active download always  *)
(* has a task or a request outstanding that will call continueDownload().                       *)
NotStranded == download.active => Outstanding(download) > 0

(* "Once the limit has been reached, the SDK will not download further offline tiles": no tile *)
(* is requested when the region tables hold as many as the limit allows.                         *)
LimitKept ==
    [][\A r \in MapboxTiles :
         r \in download'.fetching /\ r \notin download.fetching =>
             Cardinality(marked \cap MapboxTiles) < tileLimit]_vars

(* With a working database an active download comes to an end, if no resource is refused by   *)
(* the server for good.                                                                         *)
DownloadEnds ==
    download.active /\ failures = 0 ~> ~download.active \/ failures > 0
=============================================================================
