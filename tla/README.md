# Mapbox GL Native in TLA+

TLA+ modules that model the concurrent and stateful core of Mapbox GL Native
(the C++ library under `src/src/mbgl`, `src/include/mbgl` and
`src/platform/default`), the TLC configurations that check them on small
instances, and proofs that TLAPS checks for every value of the constants: of the
actor runtime, of `Thread`, of the two file sources and the cache, of the tile and its
worker, of the tiles of a source and still images, and of region downloads.

`PROJECT.json` lists the components, the runs, the lines of code each definition
translates, the hazards the properties are for, and the theorems.

## 1. The system

The library renders maps on one thread, parses tiles on a pool of threads, and
fetches and stores resources on a file source thread. The threads talk through
actors. Its parts, the state each keeps and what makes it correct:

| Part | State | Operations | What makes it correct |
|---|---|---|---|
| **Mailbox, ActorRef, Actor** (`actor/`) | queue of messages, `closed`, the scheduler, two mutexes | push, receive, open, close | no message lost while the actor lives, order kept, one handler at a time, no handler on a dead object |
| **Schedulers**: `ThreadPool`, `RunLoop`, `Thread` | queue of weak pointers or tasks, threads, `terminate` | schedule, process, stop, pause, join | every task runs once or is dropped on purpose; joining terminates |
| **OnlineFileSource**, `NetworkStatus` | all, pending and active requests; a timer, failure count and reason for each request; the global online flag and its observers | request, cancel, complete, retry, expire, go on- and offline, limit connections | a request is in one state at a time, none is forgotten, slots are used, priorities are kept |
| **DefaultFileSource** | one request per client, region downloads | request (cache, then network), cancel, region operations | each client gets the cached and then the fresh response |
| **OfflineDownload** | status, remaining resources, requests, buffer | setState, ensureResource, continueDownload | counts add up; complete means that everything is stored; it ends |
| **OfflineDatabase** | SQLite tables, the cached tile count | get, put, region resources, eviction, merge | the limit is kept; eviction spares region resources |
| **GeometryTile, GeometryTileWorker** | correlation IDs, `pending`; worker state, parse result, pending glyphs and images | setData, setLayers, setShowCollisionBoxes and the messages between the two | the last operation, and only it, completes the tile; dependencies are awaited; it settles |
| **GlyphManager, ImageManager** | ranges, images, requestors | getGlyphs, getImages, notify | each requestor is answered once it can be |
| **TileLoader** | its `Resource` with validators, one request | load from cache, from network, makeRequired, makeOptional | a required tile is revalidated, and shows nothing older than before |
| **Raster and custom tiles** | correlation IDs | setData | stale results are ignored |
| **TilePyramid, TileCache, updateRenderables** | tiles by ID, cached tiles, what is drawn | update, tile events, fading, wrap jumps | what is drawn is in use; what can be drawn is |
| **Style, Map, Renderer** | style loading, still image requests, update parameters, transitions | loadURL, render, renderStill, jumpTo | each still request is answered, with a complete image |
| **Expressions, layout, placement, GL** | - | pure functions, numeric code | - |
| **Platform SDKs** | - | bindings | - |

Interactions. A request goes from a `Tile` (map thread) to `DefaultFileSource`
(a message to the file source thread), to the database and `OnlineFileSource`
there, and comes back as a message. A tile's data goes as a message to its worker
(thread pool), which asks the tile for glyphs and images (messages), which asks
the managers (calls on the map thread). Region downloads live on the file source
thread and call the database and `OnlineFileSource` directly. `NetworkStatus` is
set by any thread and wakes the file source thread with an `AsyncTask`. The style,
its sources, the sprite and the tiles tell `Map` (calls on the map thread), which
sends update parameters to the frontend; its next frame updates the pyramids, which
create, keep and drop tiles.

What is hard here: destructors that run while another thread pushes or
receives; wakeups that depend on "was empty"; callbacks that delete the object
that calls them; requests that wait for a network that returns while they
decide to wait; results that arrive after newer operations; downloads that
are paused, resumed, refused and failed between two steps; requests that are
known by an address which is used again; a thread that waits for another
to be paused or to end; and frames that are only drawn if somebody asks for them.

## 2. Modules

| Module | Models | Kind |
|---|---|---|
| `ActorChannel` | what the actor documentation promises: an inbox, one handler at a time, nothing after the end | abstract specification |
| `Mailbox` | `Mailbox`, `ActorRef::invoke`, `EstablishedActor`, the threads of a scheduler | implements `ActorChannel` |
| `Mailbox_proofs` | the inductive invariant and the safety theorems of `Mailbox`, the refinement of `ActorChannel` and the order of messages | proofs |
| `Threads` | `util::Thread`, `RunLoop`, `ThreadPool`: pausing, stopping, terminating, joining | component |
| `PendingRequests` | the list with its border iterator, as operators | algorithm |
| `OnlineFileSource` | requests, timers, slots, callbacks, `NetworkStatus` | extends `PendingRequests` |
| `OfflineDatabase` | the cache: get, put, eviction, as operators | algorithm |
| `DefaultFileSource` | a resource between `TileLoader`, `FileSourceRequest`, `DefaultFileSource::Impl`, the database and the server | composition, extends `OfflineDatabase` |
| `OfflineDownload` | one region's download with the database operations it uses | component |
| `GeometryTile` | tile, worker, their two mailboxes, the two managers' answers | composition |
| `UpdateRenderables` | tile IDs, what a tile can do, `updateRenderables` | algorithm |
| `TilePyramid` | the tiles of a source, `TileCache`, frames of a Continuous map | extends `UpdateRenderables` |
| `Map` | still images of a Static map, the loading of its style, the frontend and the renderer's test | composition, extends `TilePyramid` |
| `SequenceFacts` | what the proofs share about queues (appending, taking, splitting, reversing, membership, counting) and about folds over sets and sequences | lemmas |
| `Map_proofs` | the tiles of a source and what is drawn of them, frame by frame, and still images: proofs about `UpdateRenderables`, `TilePyramid` and `Map` | proofs |
| `Threads_proofs`, `OnlineFileSource_proofs`, `DefaultFileSource_proofs`, `OfflineDownload_proofs`, `GeometryTile_proofs` | the inductive invariant and the theorems of the module each is named after | proofs |
| `MC...` | the constants of small instances for TLC | model checking |

The modules meet at interfaces: `Threads` has a mailbox reduced to what `Mailbox` shows
of it (it schedules itself while it has messages), `DefaultFileSource` has an online
request reduced to "armed" and "asked", which is what `OnlineFileSource` says about
it, and `TilePyramid` a tile reduced to what `GeometryTile` and `TileLoader` bring it to.

Each of the component modules has one action per handler, named as the C++
function where there is one. Operators marked *Fault* stand before the
definition they vary. They are not part of any specification. Each is a
plausible bug (a dropped check, a missing reset, a swapped order), and
replacing the definition by it makes TLC report the property it is listed
with in `PROJECT.json`: so each property is known to be able to fail.

### Mailbox

State: the members of every mailbox (`queue`, `scheduler`, `closed`, the holder of
each mutex), the life of the object behind it (`object`), the scheduler's queue of
weak pointers (`tasks`), and where each thread stands (`worker`, `call`,
`closer`). `queueMutex` and the pool's mutex are held for one critical section
without blocking calls, so each such section is one step. `pushingMutex` and `receivingMutex`
are variables: the code blocks on them, `receivingMutex` for as long as a handler
runs.

- `Invoke`, `PushEnter`, `PushCommit`, `InvokeReturn` are `ActorRef::invoke` and
  `Mailbox::push`. A thread inside `invoke` holds a strong reference (`Exists`).
- `TakeTask`, `Receive`, `ReceiveReturn` are the loop of a pool thread,
  `maybeReceive` and `receive`. Between `Receive` and `ReceiveReturn` the handler
  runs; it may invoke, open, close and destroy like any other code (`MayAct`).
- `Open`, `CloseEnter`, `CloseCommit`, `DestroyWithoutClose` are the construction
  and destruction of an `EstablishedActor`, and the destruction of an object that
  gives out `ActorRef`s but does not close its mailbox (`OnlineFileRequest`).
  `Closing` says which objects close theirs.
- With `RunLoopScheduler`, the thread also runs callbacks that are no handlers, in
  which objects may be created and destroyed.

Reading `closed` and taking the pushing mutex are one step in `PushEnter`
although the code locks first; between the two nobody else can change `closed`,
which is only written under that mutex. A handler that closes its mailbox from inside
keeps the recursive mutex until `receive()` returns.

`ImplementsChannel` is the refinement: a mailbox is "holding" until it has a scheduler
and "gone" once closed, and its runner is whoever holds the receiving mutex while
executing a message. It is stated for the mailboxes in `Closing`, the others break it
(section 5).

### Threads

State: what the main thread does or is blocked in (`main`), the promises of
`pause()`, `resume()` and the destructor (`held`, `resumes`, `stoppable`), the
`RunLoop` (its two queues, whether its `AsyncTask` is signalled, whether it
is still referenced), the object's mailbox, and the pool (`queue`, `terminate`,
where each worker stands).

- `Send`, `Pause`, `Resume`, `Destroy`, `Terminate` are what the main thread calls;
  `MainReturns` is the return of whatever it is blocked in, and for the two
  destructors their further steps (`Stop`, `Join`; `NotifyAll`, `JoinWorkers`).
- `Start` to `Exit` are the thread: it polls the loop, `process()` empties the
  queue of high priority before each task of the default one, and a task may be
  the one of `pause()`, which blocks, the empty one of the destructor, `stop()`,
  or a `receive()` of the mailbox.
- `Event` is a timer or a watch. It runs only in the loop, which is the
  point of `PausedMeansHeld`.
- `Check`, `Reply`, `SpuriousWakeup` are a thread of the pool with its condition
  variable.

The object handles a request by a message to the pool, whose actor replies: the three
kinds of threads wait for each other. Work tasks that are cancelled, timers
themselves and the lazily made background scheduler are left out.

### OnlineFileSource

State: the sets `allRequests`, `activeRequests`, `pendingRequests`; for each
request `timer` ("off", "armed", or "never" for the endless timeout of offline
mode) and `failedReason`; the stack of callbacks under way, `calling`; `online`
and `maximum`; and `network`, `reaching`, `notified` for `NetworkStatus` and the
`AsyncTask`.

Timeouts are abstracted to finite or none. That is what the control flow
distinguishes: `schedule()` returns early for none, and it replaces a finite timeout by an
endless one while offline. A finite timer may fire at any time. `Reasons` groups
the error reasons by what the code does with them: not retried, retried after a
delay, or retried when the network is back.

`schedule()` reads `NetworkStatus` once per call. Where one event schedules several
requests (`Reschedule`), the model lets them all read the same value. `NeverMeansOffline`
would only be weaker with a read each: a request that reads "offline" later than its
neighbour is notified by the same later `Reachable()`.

Callbacks are reentrant: `Respond` pushes a frame, and until `CallbackReturn` pops
it, requests may be created and deleted but the run loop delivers nothing
(`AtRunLoop`). While `online` is false `activateRequest` calls back synchronously,
so frames nest. `TimerFires` above the limit queues the request; the two
priorities and the border are in `PendingRequests`, with the iterator as an index
that moves when predecessors are inserted or erased.

### OfflineDatabase and DefaultFileSource

`OfflineDatabase` has no variables: a database is a record of rows and of their order
of access, `Put` is `put()` with the eviction before it, and `Touched` and `Cached` are
`get()`. A row holds the version of its data, the version its ETag names, and whether it
may be used without asking. All rows have one size. The time of an access is kept as the
number of rows that were accessed before (`accessed`, `Ranked`), which is all that eviction looks at: that
accesses happen at different times is an abstraction, the code deletes rows of equal times together.

State of `DefaultFileSource`: `requestor` (a `TileLoader` each, or a plain user who asks
once), the mailboxes of the `FileSourceRequest`s and of `Impl`, the online
request in `tasks` for each address, the database and the server.

- `Construct`, `MakeRequired`, `MakeOptional`, `Receive`, `Destroy` are `TileLoader`, with
  every call they make on a `FileSourceRequest`. Destroying one queues the cancellation and
  closes its mailbox (`Reset`); the next may get the same address.
- `ImplStep` takes the next message of `Impl`: `RequestCacheOnly`, `RequestNetworkOnly`,
  `RequestAll` or `Cancel`.
- `Ask`, `Complete`, `CompleteWithError` are the connection and `OnlineFileRequest::completed`,
  with the validators and `priorData`; `Impl` puts the response in the database and
  passes it on. After an error the request is armed again (the server, the connection, the rate limit,
  or any answer that says when it expires), or is "refused": `schedule()` returns without a timer (a 403, say). That
  a request without a timer had an error is history. Network answers that there is no such resource (404)
  are left out.
- `ServerChanges` and `RowExpires` are the environment. A version is a number;
  an ETag is the version it names.

`since` is a history variable: the version the server had when the tile became
required. Asset and file URLs and the operations that only pass a call on
are left out.

### OfflineDownload

State: the record `download` holds the members of `OfflineDownload` (`completed` and
`required` of the status, `remaining`, `work` and `fetching` for the list
`requests`), next to `buffer` and the database: `stored`, `marked` (in
`region_resources` or `region_tiles`), the cached `tileCount`, and `tileLimit`. The
member functions are operators on the record, so that each action makes every call
its handler makes, in order: e.g. `Flushed` is the callback of the online
request up to its `continueDownload()`.

A style names resources by constants: any number of sources by URL (`Sources`), each with a
TileJSON that names tiles (`SourceTiles`) or cannot be converted (it is in no domain, names none,
and the count stays imprecise), the tiles of inline tilesets, and files. The order in which they are queued is
kept: all TileJSONs are ensured at once in the callback of the style, tiles are put at the back, files at the front. Each resource is
named once: the code has a list of requests where the model has the set `fetching`. Failed online attempts change
nothing here (the request stays, `OnlineFileSource` retries it, or never), so there is no
action for them; fairness says that each request eventually succeeds. `FlushFailed` is
an exception of SQLite inside `putRegionResources` that `handleError` treats as
temporary; a corrupt database, which is deleted, is left out.

### GeometryTile

State: `tile` and `worker` hold the members of the two actors, `workerBox` and
`tileBox` their mailboxes, `glyphs` and `images` what the two managers remember
about the tile. Data and layers are named by the correlation ID of the call
that set them; that call also chooses what parsing will give (`Parses`). The
nested calls of a handler (parse, then requests, then `finalizeLayout`, then
`coalesce`) are composed as functions from worker to *outcome*.

`shown` is what `onLayout` brought last, and `failed` is a history variable:
the last operation ended in an error the observer was told of. Each glyph range
has one glyph. A layout result carries the flag `whole`: an exception leaves a parse result behind
that has asked for none of its glyphs and images, and `setShowCollisionBoxes` may still
finish it (section 3). `NotifyImages` covers both the immediate and the later answer of
the `ImageManager`. Only `parse()` throws; an exception of `finalizeLayout` is left out.
The `obsolete` flag, which makes the worker drop work for a tile that is being
destroyed, is left out: no property is about a destroyed tile.

### UpdateRenderables and TilePyramid

A tile ID is the zoom it is used at, the copy of the world and the path from the root of
the source to its canonical tile (`Branches` says how many children there are to a tile; 4
in the code, where the model works for any number). Overzoomed tiles have a zoom
beyond the length of their path. `Updated` is `updateRenderables`: a fold over the
ideal tiles which creates, retains and draws, and ascends to parents until one
has been checked. `OutOfBounds` are the canonical tiles that `TileRange::contains` refuses; since it shifts
the range of the last zoom, the tiles below one of them are among them too, which is an
assumption of `TilePyramid`.

State of `TilePyramid`: `tiles`, `cache`, `shown` (`renderTiles`), the last camera, and
`news`, what has happened since the last frame. `AfterUpdate` is one call of `update()`: the wrap
jump, both passes, the fading tiles, the resizing of the cache, and the tiles that
go to it. A camera is given by the tiles of the last zoom that it sees, nearest first,
and the cover of another zoom follows from them: `util::tileCover` itself is geometry.

A tile is "new", "tried" (the cache has answered), "failed" (its request had an error and it has no
data), "unparsable" (its parsing has thrown) or "renderable". The last two are complete; a failed
one is loaded, but still pending from `setLayers`. A request to the server may fail whatever the tile
has, with `setError` (`SetError`); parsing throws for the tiles in `Broken`, of the database too (`OnError`).
An error is only reported to the map, a layout or the answer of the cache asks for a frame
(`OnTileError`, `OnTileChanged`); the difference matters, see section 3. `Online` are the tiles the
server answers for, an empty tile after a 404 included. Left to `GeometryTile` is that a renderable tile is parsed
again; raster tiles, whose `pending` is false after an error, are not modelled.

### Map

`mode` is a variable that never changes: "Continuous" behaves as `TilePyramid` says,
"Static" has the actions of this module. State: what of the style is loaded, `lastError`,
whether there is a `stillImageRequest`, the camera, and `updateParameters`, the last
update the frontend was told.

`OnUpdate` is `Map::Impl::onUpdate`: in Static mode it does nothing without a request,
otherwise it takes a snapshot and invalidates the frontend. Each event of the style, a
source, the sprite or a tile ends with it or with `OnResourceError`.
`RenderFrame` is the task of `HeadlessFrontend`: `Renderer::Impl::render` updates the
tiles and answers the request if everything is loaded, which of a tile means complete (`IsComplete`). A tile's layout waits
for images of the sprite in the code; here both arrive at any time. Only one source,
one style and one sprite are loaded, and a source in a Static map is never hidden.

## 3. What TLC checks

| Run | Bounds | Properties |
|---|---|---|
| `mailbox` | two mailboxes (`b` held back at first and closed by its object, `a` never closed), two pool threads, one sender with two messages, handlers with one | `TypeOK`, `NoLostWakeup`, `NoSpuriousWakeup`, `ProcessedInOrderSent`, `DeliveredToLiveObject`, `DestructorWaitsForHandler`, `ImplementsChannel`, `ImplementsFairChannel` |
| `threads` | three requests, two pauses, a pool of two threads | `PausedMeansHeld`, `QueueProcessed`, `EveryWaitEnds` |
| `online_requests` | one regular and two low requests (one of these transformed), one or two connections, one thread inside `Set` | `TypeOK`, `OneStateAtATime`, `SlotsUsed`, `NeverMeansOffline`, `FifoByPriority`, `RegularServed`, `RetriedWhenReachable` |
| `file_source` | a tile that changes and a style that must be revalidated, two addresses, a cache with one free row besides one of a region, two versions, two lives, three changes of necessity, one error | `TypeOK`, `TasksFollowRequests`, `NeverOlder`, `RequiredIsRevalidated` |
| `download_first` | ten resources: the style, three TileJSONs of which one cannot be converted, five tiles of which three are limited, and glyphs; limits 1, 2 and 4, two requests at a time, batches of three, one failed batch | `TypeOK`, `CompleteMeansStored`, `Accounted`, `SlotsMetered`, `PreciseIsFinal`, `LimitKept`, `DownloadEnds` |
| `tile` | four operations, two glyphs, two images, parses that need both, that need one glyph, and that throw | `CoalescedInFlight`, `LatestWhenComplete`, `LaidOutWithDependencies`, `ResultInFlight`, `NothingLeftPending`, `Settles` |
| `map` | a source of three zooms with two children to a tile, three cameras (one overzoomed, one across the antimeridian), prefetching by one zoom, caches of one and two tiles, one tile that cannot be parsed, three changes of camera or layers, two calls of the user for still images | `RenderTilesRetained`, `Covered`, `EventuallyDrawn`, `StillIsComplete`, `StillAnswered` |

Five more runs, `mailbox_unclosed`, `download_resumed`, `download_cached`,
`tile_symbols_removed` and `file_source_stale`, show a disagreement each, and so do three configurations
that are kept beside the runs, `MCOfflineDownloadAmbient.cfg`, `MCMapExhausted.cfg` and `MCMapCache.cfg`: TLC reports their one property
violated. See section 5.

Why the bounds are enough. A mailbox's protocol is about "was empty" against
"left something": two messages of a sender and one of each handler make the queue go through
empty, one and several, with two threads racing to receive, and a third pushing or
destroying. Mailboxes share only the scheduler's queue and the threads, so two of them
show every interference. Three requests and their replies let the mailbox of `Threads` be
rescheduled behind a pause, behind `stop()` and after it, and the second pause
meets a loop that has work left from the first. The pending list needs elements on both sides
of its border, and two on one, for front, middle and end; one and two connections make the limit bind and
shrink while it is exceeded. Two addresses and two lives let an address be used again while a
cancellation and an answer for it are on the way; one row for two resources makes
each `put()` evict the other. The download has an inline tile set and more TileJSONs than slots, more resources
than fit in one batch, limits below, at and above its number of
tiles, and TileJSONs that are answered in any order before, between and after the tiles. Four
operations let a tile have results of two older operations in flight while a
third is parsed and a fourth waits; two images and two glyphs let one arrive
without the other. The source of `map` has a root only the server has, one leaf in the database, a leaf
that nobody has, a tile between that cannot be parsed, and one half out of bounds: substitutes come from above and from below.

`CHECK_DEADLOCK FALSE` is set in every configuration: each program rests when nobody
asks for anything (no message, no request, no operation left within its
bound). That nothing rests too early is what the liveness properties, `NoLostWakeup`,
`OneStateAtATime`, `TasksFollowRequests` and `NothingLeftPending` say.

The types of `GeometryTile` are not checked by its run, since they are proved for all constants (section 4).
No symmetry is used: the runs check liveness along with safety. `CHOOSE` picks an index or an arbitrary default.

### Fairness

- `Mailbox`: a thread that can take a step of the runtime eventually does, and handlers
  return (weak fairness of each thread). No thread is assumed to win a lock it only
  finds free now and then, and nobody is obliged to send or destroy.
- `Threads`: threads that can run do (weak fairness of the object's thread, of each worker,
  and of the returns of the main thread, which need not call anything).
  `Poll` is strongly fair: libuv looks at every handle in an iteration, so events cannot
  keep it from the async handle.
- `OnlineFileSource`: the run loop polls all its handles in every iteration (libuv), so
  a timer, a response or the async task that is ready again and again is served: strong
  fairness. Timers go off because their timeouts are finite; a connection is
  answered, by a timeout error at the latest. Callbacks return.
- `DefaultFileSource`: both mailboxes are drained, an armed online request is asked
  and an asked one is answered (both shown of `Mailbox` and `OnlineFileSource`). The server's
  errors are bounded, and a refused request is never asked again. Fairness is written out as "infinitely often not possible, or infinitely often
  taken", which is what strong fairness says, with its condition readable.
- `OfflineDownload`: the run loop runs its tasks, and each request is eventually answered
  without error. The second is an assumption about the network and the server, so
  `DownloadEnds` reads "with a working network and database, and a server that refuses no resource for good".
- `GeometryTile`: mailboxes are drained, which `ImplementsFairChannel` shows of
  `Mailbox`, and the managers' requests are answered. Nobody has to change the tile.
- `TilePyramid`: an invalidated frontend draws a frame, fading symbols are placed and another
  frame follows (`hasTransitions`), and requests are answered; data that
  is there is laid out in the end, or its parsing throws. Nobody has to move the camera.
- `Map`: the frontend's task runs, and the style, the source, the sprite and the tiles are
  answered, if only with an error.

### Conditions in the properties

- `Accounted` and `DownloadEnds` are about downloads whose batches have all been
  written. After a failed batch the resources are neither stored nor counted,
  and the download stays active and incomplete: `handleError` logs the error
  and the download goes on.
- `SlotsUsed` is about the limit of the moment, which may change: a slot is only taken below it, a request only
  made to wait once it is reached, and while one waits no slot is lost. It does not say that no request waits while a slot is
  free: `setMaximumConcurrentRequests()` activates nobody when it raises the limit
  (online_file_source.cpp:166-168), so those that wait go on until a slot changes hands.
- `SlotsMetered` exempts the time in which only TileJSONs are outstanding: `activateDownload()`
  ensures those of all sources in one loop, whatever the number of slots.
- `LimitKept` is checked for tiles that were not in the database before, with those that were in section 5.
- `CompleteMeansStored` is checked for one activation, with resumption in section 5.
- `ResultInFlight`, `CoalescedInFlight` and `NothingLeftPending` are checked for parsing that does
  not throw. When `coalesced()` throws, the worker stays in `NeedsParse` without
  a "coalesced" on its way and later "set" messages are only remembered; when
  parsing throws in `Idle`, a parse result stays that the next
  `setShowCollisionBoxes` takes for work in flight.
- `LaidOutWithDependencies` exempts the layouts that are made from such a result: they lack what
  the parse would have asked for, under the correlation ID of an operation whose error the
  tile has already been told of.
- `NeverOlder` and `RequiredIsRevalidated` are checked with a resource that changes and one
  that must be revalidated, not with one that does both, which is section 5. So no resource that changes
  has `priorData` in their run.
- `RequiredIsRevalidated` exempts a tile whose request the server has refused with an error that is not retried, as
  long as that request is the tile's.
- `DownloadEnds` leaves out a server that refuses a resource for good: its request is never repeated, and the download
  stays active.
- `EventuallyDrawn` promises a parent that only the server has if `news` returns to "none", that is if
  frames follow errors for some other reason. Nothing asks for a frame after the error of
  a tile, and it is the frame after it that makes the parent required. A parent
  in the database is promised in any case.
- `StillAnswered` exempts a style that has failed for good. Its error is reported
  but not kept as `lastError`, so a `renderStill()` after it is accepted and never answered. It also exempts
  a tile that stays in use and cannot be had, which is section 5.
- `StillAnswered` is checked with annotations enabled, the default. Without them the last update after a
  style has been parsed may come before it counts as loaded, and if the camera sees only tiles
  out of bounds nothing sends another: with `Annotations = FALSE` TLC reports a
  request that is never answered.

Observations that no statement of the repository contradicts, and no property is about:
`renderStill(camera, ...)` moves the camera of an image in progress even when it is
rejected (map.cpp:67-72); an error of a source or the sprite is never forgotten, so `renderStill()` fails
after the source has recovered; an ideal tile that a prefetched
tile without data retains as its child is retained as optional first, and so is not refreshed; and
`Thread`'s constructor does not wait for its object as its comment says (thread.hpp:21-27),
which the `AspiringActor`'s held-back mailbox makes harmless.

## 4. What TLAPS proves

Every theorem is about the specification of a module with its constants left open: any number
of threads, requests, addresses, glyphs or tiles, any limits, and any of the bounds on operations that
the runs need. The assumptions are the named `ASSUME`s of the modules, which TLC evaluates in
the runs, and the few conditions that a theorem states itself.

Each proof has one shape: an invariant `IInv` that is inductive (TLC checked each as an invariant of
the run before it was proved), one lemma for each action that the action preserves it, with one
step for each conjunct, `NextIInv` that puts the lemmas together, `Invariant` (`Spec => []IInv`), and the
properties that follow. Below, what each `IInv` has to say beyond the property, and why.

### The actor runtime

`Mailbox_proofs` proves, for every set of mailboxes and threads and every number of
messages:

- `Typed`: `Spec => []TypeOK`.
- `WakeupsAreNotLost`: an open mailbox with messages always has a `receive()` coming.
- `WakeupsAreNotSpurious`: `assert(!queue.empty())` in `receive()` holds, and a
  mailbox is scheduled at most once at a time.
- `OneMessageAtATime`: no two threads execute messages of one mailbox.
- `DeadActorsAcceptNothing`: the queue of a closed mailbox does not change.
- `HandlersRunOnLiveObjects`: a handler only starts on an object that lives, if
  its destructor closes the mailbox.
- `DestructorsWait`: such an object only dies under a handler that destroys it
  itself.
- `MailboxesImplementChannels`: `Spec => ImplementsChannel`, the refinement of
  `ActorChannel` (its safety part).
- `MessagesKeepTheirOrder`: messages of one thread to one mailbox are processed in
  the order sent.

Assumptions: `MailboxAssumption` (threads and senders are disjoint, `NoOne` is none
of them, the subsets are subsets) and `NoOneIsNoMessage`. TLC evaluates both.

The argument. `NoLostWakeup` is not inductive: that `push` need not schedule a
mailbox whose queue is not empty relies on some thread having scheduled it,
and that `ReceiveReturn` need not reschedule relies on the queue having been left
empty *since*. The invariant is

    IInv == TypeOK /\ LockInv /\ SchedulerInv /\ CallInv /\ NoSpuriousWakeup /\ NoLostWakeup

`LockInv` says who holds the two mutexes when: a thread executing a message of
a mailbox, or inside `close()`, holds its receiving mutex; one inside `push()` holds the
pushing mutex, and then the mailbox is not closed. `SchedulerInv` says that only
mailboxes with a scheduler have a `receive()` due, that the mailbox of an unborn object has none,
and that an idle thread has claimed no mailbox. `CallInv` says that a thread in `invoke` has a message
number. `NoSpuriousWakeup` and `NoLostWakeup` need each other: the first
says that at most one `receive()` is due and that it finds a message, so the
one that takes the last message is the only one due, and the next `push`
finds the queue empty and schedules; the second that at least one is. For each action a lemma proves `IInv'`; `NextIInv`
puts them together.

`HandlersRunOnLiveObjects` and the refinement use one more invariant, `ObjectInv`: a mailbox
has a scheduler exactly when its object was constructed, only a living object is
being closed, and in `Closing`, "dead" and "closed" are the same.

The refinement has one lemma per kind of step: `PushCommit` is `Send`, `Receive`
is `Begin`, `ReceiveReturn` is `End`, `Open` is `Establish`, `CloseCommit` is `Destroy`,
and everything else changes nothing of the channel (`ChannelStutter`). The abstract runner
is read from the receiving mutex; `RunnerIsWorker` shows that it is the thread
executing a message, whatever else the mutex is taken for.

The order of messages is inductive together with `OldIsPushed`: what a thread has in
any queue, or in a handler, has a smaller number than the message it is
about to push.

### Threads

`PausedThreadIsHeld` (`PausedMeansHeld`), `QueueProcessedAtExit` (`QueueProcessed`) and
`MailboxScheduled`, for any number of messages, pauses and pool threads.

`PauseInv` says where the task of a pause can be: while `pause()` waits, alone in the queue of high
priority or in the hands of the thread, and from its return to `resume()` in its hands; no later
pause can have put another there. `StopInv` says that the loop is only told to stop when the
last request has been sent, and is only left without one, which needs `ScheduledIffFilled`: the
mailbox of the object is scheduled, once, exactly while it has messages, so the loop cannot run dry
in front of a filled mailbox. `CountInv` counts the requests in the mailbox and the handled ones.

### OnlineFileSource

`TypeCorrect`, `RequestLifetime` (`OneStateAtATime`), `ConnectionsLimited` (`SlotsUsed`),
`FixedLimitIsUsed`, `NoTimerIsForgotten` (`NeverMeansOffline`) and the action property `ServedInOrder`
(`FifoByPriority`), for any requests and limits, and any depth of nested callbacks.

`SlotsUsed` is an action property, since the limit may be lowered below what is active, and raised above it while
requests wait. It counts the active requests *and the callbacks on the stack* (`Used`): a response frees the slot of its request,
but the next one is only activated when the callback has returned. `SlotsInv` says that these together
are within some limit of `Maxima`, and reach one while anything is pending; `SlotsKept` has the steps of `SlotsUsed`, one
for each action. If `Maxima` is a single limit, both give what a reader expects (`FixedLimitIsUsed`): never more active
requests than it allows, and exactly as many, outside of callbacks, while anything is pending. `Laid` is the list: regular requests, then the border, then the low
ones, none twice; `TakenOut` and `PutIn` say what erasing and inserting change, with the
iterator moved, and `FifoByPriority` follows from them for each action.

### DefaultFileSource and the cache

`TypeCorrect` (`TypeOK`: with it, rows of regions are never evicted and the cache never has
more rows than its size), `RequestsAreFollowed` (`TasksFollowRequests`), and, assuming `ChangesOfTiles`, the
action property `NothingGoesBack` (`NeverOlder`), for any requestors,
addresses, resources, versions, sizes and batches of eviction. `ChangesOfTiles` says that the resources that change on the
server are those of tiles and need no revalidation before they may be shown; without it `file_source_stale`
shows a tile go back.

The main thread destroys a request and reuses its address before `Impl` knows. `Follows` is about the order
of messages in the one queue: what a dead request has left, in the queue or in `tasks`, has a
cancellation of its address behind it (`Cancelled`); a living request is named by one message at most
(`Referenced`), and no cancellation stands behind its own message, or after it was taken, in the queue at
all (`Served`). That is what would break if a cancellation could be overtaken. Because handlers
are composed of calls that return a new state, each call has its lemma (`CancelAppended`, `ResetFollows`, `RequestedFollows`,
`ProgressFollows`), and the actions cite them.

`Cache` needs that the ranks of access are an order of the rows (`RankedFacts`), and that the least
number of rounds which makes room exists (`LeastNatural`, from the well-foundedness of the natural numbers).
It assumes `Keys # {}`, and that a put is refused when rows of regions leave no room.

`NeverOlder` needs to know every version that can still reach a requestor. `VersionInv` says of the messages to `Impl`, the online
requests, the requestors and the rows that none has a version the server has not had, and that no `priorData`
is kept of a resource that changes (`MessageOK`, `TaskOK`, `HolderOK`, `RowsOK`); this is where `ChangesOfTiles` is needed, since
a row that may be shown is never sent as `priorData`. The versions of one resource are then in order (`TrailOK`): what the
tile shows is at most what each reply in the mailbox of its request bears, these ascend (`Ascending`), and the
answer of the server, once it has been asked, is at least all of them (`Precede`). A reply of the cache needs no place in
this order, since only a tile that shows nothing asks the cache. The order holds because a request asks the server again only when its last answer has
been passed on, and because a cancelled request takes its mailbox along, so
that an answer to it can meet no later one (`ResetInFlight`).

### GeometryTile

`TypeCorrect`, `OneCoalescedInFlight` (`CoalescedInFlight`), `CompleteShowsLatest`
(`LatestWhenComplete`), `LayoutsHaveDependencies` (`LaidOutWithDependencies`), and, assuming
that every style keeps a symbol layer (`SymbolsKept`), `ResultIsPickedUp` (`ResultInFlight`) and
`NothingIsLeftPending` (`NothingLeftPending`), for any
number of operations, any glyphs and images, and any outcomes of parsing, throwing included. Without `SymbolsKept` the last
two are false: `tile_symbols_removed` shows the consequence. `None` is assumed to be no parse result,
no request for images and no set of glyphs.

`OperationsInOrder` says that the worker lags behind the tile by what is in its mailbox, in order: what
it does not have of the tile's contents is among it. `ResultsInOrder` says the same of the results on
their way to the tile. `Current` says that a parse result belongs to the worker's contents unless it
is in `NeedsParse`, in which it will parse again. Together they give `Complete`: a tile that is not pending has the
worker's contents, and so has every layout that may still arrive, so
that a late one changes nothing. For the dependencies, `ImagesSuit` says
that a request or reply with the worker's last image correlation ID is about all that its result needs, which is
what the ID is there for.

`NothingLeftPending` needs to know where everything is that a tile still waits for. `TravelInv` says so, and what
counts is always the last message of a type, since it overtakes what earlier ones have asked or
brought. `GlyphsOnTheWay`: the last request of the worker covers all the glyphs it waits for, and is in the tile's mailbox,
or with the `GlyphManager`, or its answer is in the worker's mailbox. `ImagesOnTheWay` says the same of the
last image correlation ID. `LayoutOnTheWay`: a worker that has sent everything (`Rested`) has its last layout on the way, or the tile
has it. `OperationOnTheWay`: what the tile was last told is on the way to the worker, or the worker has it. When all is
quiet nothing is in any of these places, so no result waits, and the tile shows the
last one (`QuietIsComplete`).

The handlers are functions from a worker to an outcome, so the lemmas are about outcomes (`Sound`, `Signals`, `Rests`), one
for each nested call.

### The tiles of a source and still images

`Map_proofs` proves of `Map` in both modes `MapTilesAreRetained` (`RenderTilesRetained`), `MapTilesAreCovered` (`Covered`)
and the action property `ImagesAreComplete` (`StillIsComplete`), and the first two of `TilePyramid` alone (`TilesAreRetained`,
`IdealTilesAreCovered`), for any zooms, number of children, cameras, cache sizes, prefetching and
tiles that can be had.

The invariants are simple, for every frame makes everything anew: `PyramidInv` says that the maps
are finite, that what is drawn is in use, renderable and under its own place, and that what is cached is renderable
and listed; `ToldInv`, that what the frontend was told last of the style, the source and the sprite is still true. The work is in the
frame, that is in `updateRenderables`, from which both `Covered` and `StillIsComplete` follow (`FrameCovers`, `FrameComplete`).
Three folds are nested there: over the ideal tiles, over the substitutes below one, over the levels above it.

- `Ascent` holds after each level. It says that the tiles passed are checked and not renderable, and why the
  ascent may have stopped: the last one was drawn, or another tile's ascent has been there.
- `Pass` holds after each ideal tile. Its core, `CheckedOK`, is what makes stopping at a checked tile right: from
  each checked tile upwards something is drawn, or nothing is renderable up to the root. It also says
  why a checked tile may be missing (`Accounted`): it is out of bounds, or some tile has
  not heard from the cache yet. That is what lets a still image conclude from "all tiles are loaded" that the parents of a tile that cannot be parsed have been tried.
  `CheckedOK` is only true because each pass has its own set of checked tiles: with one for both (the mutant
  `UpdatedOnce`) the prefetching pass checks tiles without drawing them.
- `Done` and `Exact` are what a pass leaves for each ideal tile. They stay true when later tiles are
  done (`DoneStays`), since nothing that is retained, drawn or checked is taken back (`Grows`). `Exact` needs that no other
  ideal tile, substitute or ancestor takes the place of a renderable ideal tile (`NearPlaces`): overzoomed tiles share
  their place with those above and below.
- `Faded`, the wrap jump and the moves to and from the cache keep this (`FadedOK`, `DrawnMoved`, `CreateOK`, `AllAddedOK`).

What a fold computes is usually proved by induction over its data, for which the library's theorems take an
operator as a parameter. `SequenceFacts` has the induction for sets instead: `Induction` is about a set of numbers, `FoldSolved` and
`FoldLeftSolved` give for a *function* that makes one step the results of all prefixes, and the recursive
definition the library's folds `CHOOSE` by is shown to be solved by these. `Erased`, `AllAdded`, `Cover`,
`RenderChildren`, `RenderParents` and `Updated` are proved about with them, which is why the model writes each
as a fold.

### OfflineDownload

`TypeCorrect`, `RequestsAreMetered` (`SlotsMetered`), the action property `PreciseCount` (`PreciseIsFinal`), and for a download that has been activated
once at most (`sessions =< 1`) `NoResourceIsDropped` (`Accounted`) and `CompleteIsStored` (`CompleteMeansStored`),
for any style, any number of sources, convertible or not, of tiles and of files, any size of a batch and number of slots, any changes of the
limit and any number of failed batches. In a second session both are false, which is `download_resumed`. `LimitIsKept` is the
action property `LimitKept` if no tile that counts was in the database before (`Ambient \cap MapboxTiles = {}`); section 3 says why
it needs that.

`Sound` is about the lists: no resource is listed twice; the style, while listed, is alone; a TileJSON
is never listed together with its tiles; a download that is not active has empty lists; there
are not more requests than slots, or only TileJSONs. The last is inductive since the TileJSONs are listed when nothing
else is, and `continueDownload()` adds nothing while they fill the slots. `PreciseCount` needs, besides, that a
precise count means that no TileJSON that can be read is listed, nor the style: nothing that could name more resources. `Balanced` is the count, an equation while no batch has
been lost and an inequality after, so that a download that has lost one never counts as complete. `Traced` says where
each resource is that is not yet in the region: in the buffer, listed, or to be named by the style or
a TileJSON that is. When the count is reached nothing is left in any of these places (`AllThere`). `Covered` says that the cached
count of tiles is at least that in the tables: a failed transaction leaves it too high, never too low. Every callback is covered by
`CalledBackFacts`, which says that what becomes required is what becomes listed.

### What is only model-checked

- Liveness: `EveryWaitEnds`, `RegularServed`, `RetriedWhenReachable`, `RequiredIsRevalidated`, `DownloadEnds`,
  `Settles`, `EventuallyDrawn`, `StillAnswered` and `ImplementsFairChannel`. It rests on fairness, so on `ENABLED`, which
  the prover does not handle.
- The eight disagreements of section 5.

## 5. Where the code disagrees with what it says

- **Messages to the dead** (`mailbox_unclosed`). `OnlineFileRequest` gives an
  `ActorRef` to the `ResourceTransform`, but its destructor only drops the
  mailbox. While another thread is inside `ActorRef::invoke`, that thread's
  strong reference keeps the mailbox alive; its message is queued, and
  `maybeReceive` runs the handler on the destroyed request. `actor_ref.hpp`
  says that sending to a dead actor is a no-op.
- **Resumed downloads** (`download_resumed`). `deactivateDownload()` keeps the
  buffer, `activateDownload()` resets the counts, and the next flush counts the old
  responses; the same resources are then counted again when they are found
  in the database. The status becomes complete while resources are missing.
- **Stranded downloads** (`download_cached`). The buffer is flushed only when a response
  arrives. If the last resources are found in the database, what the buffer holds
  is never stored or counted, and the region stays active without any request.
- **Tiles that lose their symbols** (`tile_symbols_removed`). The worker keeps the pending glyphs
  of an earlier parse. If the new parse has no symbol layouts, the result still waits
  for them, but their arrival is ignored because there are no layouts.

- **Revalidated tiles go back** (`file_source_stale`). `completed()` uses `priorData` with a 304 and
  keeps it otherwise. After a 200 it stays while the ETag becomes the new one, and the
  next 304 is answered with the data of the old version: the tile goes back, and the
  database stores the old data under the new ETag, which every later 304 confirms.
- **Tiles that are not counted** (`LimitKept` in `MCOfflineDownloadAmbient.cfg`). When a tile that the database already has becomes part of a region
  (`hasRegionResource`), the cached `offlineMapboxTileCount` is not raised, and another tile is requested
  although the regions hold as many as the limit allows. `offline.hpp` says that the SDK will then not
  download further offline tiles.
- **Images that are never answered** (`StillAnsweredWithoutTile` in `MCMapExhausted.cfg`). `GeometryTile::setError()` leaves the tile
  pending, which `setLayers()` made it and only a parse could change. The error fails the request for the image, but as long
  as the tile is in use and is not loaded after all, the next `renderStill()` is accepted and never answered. `tile.hpp` says that a tile is
  complete when all options to get it have been exhausted, and a test expects `isComplete()` after `setError()`, without `setLayers()` before.
- **A cache with keys but no tiles** (`CacheWithinSize` in `MCMapCache.cfg`). `TileCache::add()` removes an old key only when the tile is new
  to the cache, so a tile that is in it already, after a wrap jump, is listed twice. When `setSize()` drops the first of these
  the other one dangles, `pop()` of it removes nothing, and the assertion at the end of `add()` fails.

The last three have no run of their own in `PROJECT.json`; `tlc -config MCMapCache.cfg MCMap` and the like show them.

The other conditions and the observations of section 3 are about behaviour on which no
statement of the repository was found.

## 6. Not modelled, and the plan

Not modelled and why, component by component, is in `PROJECT.json`. In short:

- Numeric and GPU code (transform, shaping, placement, buckets, programs) is out of TLC's reach,
  and the platform SDKs are bindings. These two, with the generated style properties and the
  expressions, are most of the repository's lines, so the share that
  any state machine can stand for is small.
- Parsing, decoding and conversion (styles, tiles, expressions, headers) are data
  transformations; SQLite, libcurl and libuv are external; the asset, local and HTTP file
  sources do one piece of I/O per request.
- `HttpTimeout` is pure, and its shift is clamped to 31 before it is made.
- Raster, GeoJSON and custom tiles, and annotations, have small protocols of their own that are not modelled yet.

Left out of what is modelled: `ActorRef::ask` (an `invoke` with a promise),
`OfflineDownload::getStatus` and the queries of a tile, which only read; response headers;
the merge, the migration and the invalidation of the database; eviction of glyphs and images; several requestors of one manager;
a second style, and changes of the layers of a Static map.

The plan had seven steps: threads, the file source with its loader, the managers in full,
the tile pyramid, timeouts, the database's eviction, and still images. All are done but
two: the managers, which `GeometryTile` has for one requestor, and the timeouts, which have
no state. Next, in this order:

1. `CustomTileLoader`: the fetches and cancellations of tiles that wait in a cache.
2. `GlyphManager` and `ImageManager` with several requestors, sprites and missing images.
