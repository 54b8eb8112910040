------------------------- MODULE DefaultFileSource -------------------------
(***************************************************************************)
(* The life of a resource between its requestor on the main thread, the     *)
(* file source thread (DefaultFileSource::Impl with its OfflineDatabase)    *)
(* and the server: TileLoader, FileSourceRequest, Impl::request and cancel, *)
(* and what OnlineFileRequest::completed does with validators and data.     *)
(*                                                                          *)
(* A FileSourceRequest is known to Impl by its address only, and addresses  *)
(* are reused.  A reference (ActorRef) to a request is its address while    *)
(* the request lives and Dead from then on: its mailbox is closed.          *)
(* When the connection is made, and retries, are OnlineFileSource's matter: *)
(* here a task is armed until the server is asked, then asked.              *)
(***************************************************************************)
EXTENDS OfflineDatabase, SequencesExt

CONSTANTS
    Requestors,      \* the users of the file source
    Plain,           \* those that ask once with LoadingMethod::All; the others are TileLoaders
    KeyOf,           \* [Requestors -> Keys]
    Addresses,       \* where a FileSourceRequest may be allocated
    NoAddress, Dead, \* no request; a reference to a destroyed one
    MustRevalidate,  \* SUBSET Keys: served with "must-revalidate"
    Changing,        \* SUBSET Keys: those the server changes
    MaxVersion,      \* the last version of a resource (bound)
    MaxLives,        \* how many requestors are constructed (bound)
    MaxChanges,      \* how often the necessity changes (bound)
    MaxErrors,       \* how often the server fails (bound)
    MaxInbox         \* responses waiting for one requestor (bound)

ASSUME DefaultFileSourceAssumption ==
    /\ Plain \subseteq Requestors
    /\ KeyOf \in [Requestors -> Keys]
    /\ NoAddress \notin Addresses /\ Dead \notin Addresses
    /\ MustRevalidate \subseteq Keys /\ Changing \subseteq Keys
    /\ MaxVersion \in Nat \ {0}
    /\ {MaxLives, MaxChanges, MaxErrors, MaxInbox} \subseteq Nat

VARIABLES
    requestor,  \* [Requestors -> [alive, required, method, etag, prior, request, data, since]]
    inbox,      \* [Addresses -> Seq(Response)]: the mailbox of the request at the address
    queue,      \* Seq: the mailbox of Impl
    tasks,      \* [Addresses -> task]: the online requests, by the address of the requestor's
    db,         \* the OfflineDatabase
    server,     \* [Keys -> 1..MaxVersion]: the current version of each resource
    spent       \* [lives, changes, errors]: counters for the bounds

vars == <<requestor, inbox, queue, tasks, db, server, spent>>

Versions == 0..MaxVersion

(* A requestor that does not exist.  "etag" and "prior" are priorEtag and priorData of its    *)
(* Resource, "data" is what its tile shows, "since" a history variable: the version the       *)
(* server had when the requestor last became required.                                        *)
Absent == [alive |-> FALSE, required |-> FALSE, method |-> "CacheOnly", etag |-> 0, prior |-> 0,
           request |-> NoAddress, data |-> 0, since |-> 0]

(* The state of an OnlineFileRequest: "armed" while its timer or the queue has it, "asked"    *)
(* with the server's answer on the way, "idle" when nothing more will happen: no timer runs.  *)
(* "refused" is "idle" after an error that is not retried; that it was one is history.        *)
NoTask == [ref |-> Dead, state |-> "none", key |-> CHOOSE k \in Keys : TRUE,
           etag |-> 0, prior |-> 0, answer |-> 0]

Armed(ref, key, etag, prior) ==
    [ref |-> ref, state |-> "armed", key |-> key, etag |-> etag, prior |-> prior, answer |-> 0]

Init ==
    /\ requestor = [r \in Requestors |-> Absent]
    /\ inbox = [a \in Addresses |-> <<>>]
    /\ queue = <<>>
    /\ tasks = [a \in Addresses |-> NoTask]
    /\ \E stored \in {S \in SUBSET Keys : RegionKeys \subseteq S /\ Cardinality(S) =< MaxRows} :
          \E usable \in {U \in SUBSET stored : stored \ U \subseteq MustRevalidate} :
             \E accessed \in Orders(stored) :
                db = [rows |-> [k \in stored |-> Row(1, 1, k \in usable)], accessed |-> accessed]
    /\ server = [k \in Keys |-> 1]
    /\ spent = [lives |-> 0, changes |-> 0, errors |-> 0]

----------------------------------------------------------------------------
(***************************************************************************)
(* The main thread.  Its functions return what is to become of the          *)
(* requestor, the mailboxes and the messages to Impl, in "m".               *)
(***************************************************************************)
Main == [who |-> requestor, inbox |-> inbox, queue |-> queue, tasks |-> tasks]

Commit(m) ==
    /\ requestor' = m.who
    /\ inbox' = m.inbox
    /\ queue' = m.queue
    /\ tasks' = m.tasks

Freed(m) == Addresses \ {m.who[r].request : r \in Requestors}

(* The request is destroyed, but Impl is not told. *)
ResetSilently(m, r) ==
    LET a == m.who[r].request
        Forget(ref) == IF ref = a THEN Dead ELSE ref
    IN [who |-> [m.who EXCEPT ![r].request = NoAddress],
        inbox |-> [m.inbox EXCEPT ![a] = <<>>],
        queue |-> [i \in DOMAIN m.queue |-> [m.queue[i] EXCEPT !.ref = Forget(@)]],
        tasks |-> [b \in Addresses |-> [m.tasks[b] EXCEPT !.ref = Forget(@)]]]

(* Fault: the cancellation overtakes the messages that wait. *)
ResetOvertaking(m, r) ==
    LET n == ResetSilently(m, r)
    IN [n EXCEPT !.queue = <<[kind |-> "cancel", addr |-> m.who[r].request, ref |-> Dead]>> \o @]

(* request.reset(): ~FileSourceRequest sends the cancellation, then closes the mailbox; every *)
(* reference to the request is dead from then on.                                             *)
Reset(m, r) ==
    LET n == ResetSilently(m, r)
    IN [n EXCEPT !.queue = Append(@, [kind |-> "cancel", addr |-> m.who[r].request, ref |-> Dead])]

(* fileSource->request(resource, callback), at the free address a. *)
Requested(m, r, method, a) ==
    [m EXCEPT !.who[r].request = a,
              !.who[r].method = method,
              !.queue = Append(@, [kind |-> "request", addr |-> a, ref |-> a, key |-> KeyOf[r],
                                   method |-> method, etag |-> m.who[r].etag,
                                   prior |-> m.who[r].prior])]

(* The constructor of TileLoader, or of a Style, a TileSource... which requests in its own.   *)
Construct(r) ==
    /\ ~requestor[r].alive
    /\ spent.lives < MaxLives
    /\ spent' = [spent EXCEPT !.lives = @ + 1]
    /\ LET plain == r \in Plain
           new == [Main EXCEPT !.who[r] = [Absent EXCEPT !.alive = TRUE, !.required = plain,
                                                         !.since = IF plain THEN server[KeyOf[r]] ELSE 0]]
       IN \E a \in Freed(Main) : Commit(Requested(new, r, IF plain THEN "All" ELSE "CacheOnly", a))
    /\ UNCHANGED <<db, server>>

Destroy(r) ==
    /\ requestor[r].alive
    /\ LET m == IF requestor[r].request = NoAddress THEN Main ELSE Reset(Main, r)
       IN Commit([m EXCEPT !.who[r] = Absent])
    /\ UNCHANGED <<db, server, spent>>

(* setNecessity(Required): makeRequired(). *)
MakeRequired(r) ==
    /\ requestor[r].alive /\ ~requestor[r].required
    /\ spent.changes < MaxChanges
    /\ spent' = [spent EXCEPT !.changes = @ + 1]
    /\ LET m == [Main EXCEPT !.who[r].required = TRUE, !.who[r].since = server[KeyOf[r]]]
       IN IF requestor[r].request # NoAddress
          THEN Commit(m)
          ELSE \E a \in Freed(m) : Commit(Requested(m, r, "NetworkOnly", a))
    /\ UNCHANGED <<db, server>>

(* setNecessity(Optional): makeOptional(). *)
MakeOptional(r) ==
    /\ r \notin Plain
    /\ requestor[r].alive /\ requestor[r].required
    /\ spent.changes < MaxChanges
    /\ spent' = [spent EXCEPT !.changes = @ + 1]
    /\ LET m == [Main EXCEPT !.who[r].required = FALSE]
       IN IF requestor[r].method = "NetworkOnly" /\ requestor[r].request # NoAddress
          THEN Commit(Reset(m, r))
          ELSE Commit(m)
    /\ UNCHANGED <<db, server>>

(* Fault: what the tile has is kept as priorData as well. *)
LoadedDataAndPrior(who, response) ==
    IF response.error = "Other" \/ response.notModified
    THEN who
    ELSE [who EXCEPT !.data = response.data, !.etag = response.etag, !.prior = response.data]

(* TileLoader::loadedData.  A Plain requestor keeps no validators, but never needs them again. *)
LoadedData(who, response) ==
    IF response.error = "Other" \/ response.notModified
    THEN who
    ELSE [who EXCEPT !.data = response.data, !.etag = response.etag]

(* The end of the callback of loadFromCache(). *)
AfterCache(m, r) ==
    IF requestor[r].required
    THEN \E a \in Freed(m) : Commit(Requested(m, r, "NetworkOnly", a))
    ELSE Commit(m)

(* FileSourceRequest::setResponse with the callbacks of the requestors. *)
Receive(r) ==
    /\ requestor[r].request # NoAddress
    /\ LET addr == requestor[r].request
       IN /\ inbox[addr] # <<>>
          /\ LET response == Head(inbox[addr])
                 popped == [Main EXCEPT !.inbox[addr] = Tail(@)]
             IN IF requestor[r].method # "CacheOnly"
                THEN Commit([popped EXCEPT !.who[r] = LoadedData(@, response)])
                ELSE LET freed == Reset(popped, r)
                         m == IF response.error = "NotFound"
                              THEN [freed EXCEPT !.who[r].etag = response.etag,
                                                 !.who[r].prior = response.data]
                              ELSE [freed EXCEPT !.who[r] = LoadedData(@, response)]
                     IN AfterCache(m, r)
    /\ UNCHANGED <<db, server, spent>>

----------------------------------------------------------------------------
(***************************************************************************)
(* The file source thread.                                                  *)
(***************************************************************************)
(* ref.invoke(&FileSourceRequest::setResponse, response): a no-op when the request is dead. *)
Replied(ref, response) ==
    IF ref = Dead THEN inbox ELSE [inbox EXCEPT ![ref] = Append(@, response)]

(* Impl::request with LoadingMethod::CacheOnly: there is always one reply, and an unusable    *)
(* row is sent along with the error.                                                          *)
RequestCacheOnly(m) ==
    /\ m.method = "CacheOnly"
    /\ db' = Touched(db, m.key)
    /\ inbox' = Replied(m.ref,
                    IF ~Stored(db, m.key) THEN Response("NotFound", FALSE, 0, 0, TRUE)
                    ELSE IF db.rows[m.key].usable THEN Cached(db, m.key)
                    ELSE [Cached(db, m.key) EXCEPT !.error = "NotFound"])
    /\ UNCHANGED tasks

RequestNetworkOnly(m) ==
    /\ m.method = "NetworkOnly"
    /\ tasks' = [tasks EXCEPT ![m.addr] = Armed(m.ref, m.key, m.etag, m.prior)]
    /\ UNCHANGED <<db, inbox>>

(* LoadingMethod::All: a usable row is sent, any row is revalidated. *)
RequestAll(m) ==
    /\ m.method = "All"
    /\ db' = Touched(db, m.key)
    /\ IF Stored(db, m.key)
       THEN LET row == db.rows[m.key]
            IN /\ tasks' = [tasks EXCEPT ![m.addr] = Armed(m.ref, m.key, row.etag, row.data)]
               /\ inbox' = IF row.usable THEN Replied(m.ref, Cached(db, m.key)) ELSE inbox
       ELSE /\ tasks' = [tasks EXCEPT ![m.addr] = Armed(m.ref, m.key, m.etag, m.prior)]
            /\ UNCHANGED inbox

(* Impl::cancel: the online request of that address, if any, is destroyed. *)
Cancel(m) ==
    /\ tasks' = [tasks EXCEPT ![m.addr] = NoTask]
    /\ UNCHANGED <<db, inbox>>

ImplStep ==
    /\ queue # <<>>
    /\ LET m == Head(queue)
       IN \/ m.kind = "request" /\ (RequestCacheOnly(m) \/ RequestNetworkOnly(m) \/ RequestAll(m))
          \/ m.kind = "cancel" /\ Cancel(m)
    /\ queue' = Tail(queue)
    /\ UNCHANGED <<requestor, server, spent>>

(* The server decides on the answer, a version, when it is asked. *)
Ask(a) ==
    /\ tasks[a].state = "armed"
    /\ tasks' = [tasks EXCEPT ![a].state = "asked", ![a].answer = server[tasks[a].key]]
    /\ UNCHANGED <<requestor, inbox, queue, db, server, spent>>

(* Fault: every 304 is passed on, also to a requestor that has no data yet. *)
ValidatedPassedOn(task) ==
    [response |-> Response("None", task.answer = task.etag,
                           IF task.answer = task.etag THEN 0 ELSE task.answer, task.answer, TRUE),
     prior |-> task.prior]

(* completed(): a 304 is turned into the data the requestor has not got yet, which is moved   *)
(* out of priorData.                                                                          *)
Validated(task) ==
    CASE task.answer # task.etag ->
           [response |-> Response("None", FALSE, task.answer, task.answer, TRUE), prior |-> task.prior]
      [] task.answer = task.etag /\ task.prior # 0 ->
           [response |-> Response("None", FALSE, task.prior, task.etag, TRUE), prior |-> 0]
      [] OTHER ->
           [response |-> Response("None", TRUE, 0, task.etag, TRUE), prior |-> 0]

(* completed() of a successful answer, which says when it expires or not; the callback puts   *)
(* the response into the database and sends it to the requestor.                              *)
Complete(a) ==
    /\ tasks[a].state = "asked"
    /\ tasks[a].ref # Dead => Len(inbox[a]) < MaxInbox
    /\ LET done == Validated(tasks[a])
       IN \E next \in {"armed", "idle"} :
             /\ tasks' = [tasks EXCEPT ![a].state = next, ![a].answer = 0,
                                       ![a].etag = tasks[a].answer, ![a].prior = done.prior]
             /\ db' = Put(db, tasks[a].key, done.response)
             /\ inbox' = Replied(tasks[a].ref, done.response)
    /\ UNCHANGED <<requestor, queue, server, spent>>

(* completed() of an error.  Only errors of the server, the connection and the rate limit have *)
(* a timeout after which they are retried; after any other one, such as a 403, schedule()     *)
(* returns early, unless the answer says when it expires.                                     *)
CompleteWithError(a) ==
    /\ tasks[a].state = "asked"
    /\ tasks[a].ref # Dead => Len(inbox[a]) < MaxInbox
    /\ spent.errors < MaxErrors
    /\ spent' = [spent EXCEPT !.errors = @ + 1]
    /\ \E next \in {"armed", "refused"} :
          tasks' = [tasks EXCEPT ![a].state = next, ![a].answer = 0]
    /\ inbox' = Replied(tasks[a].ref, Response("Other", FALSE, 0, tasks[a].etag, TRUE))
    /\ UNCHANGED <<requestor, queue, db, server>>

----------------------------------------------------------------------------
(* The environment: the server changes a resource, a row expires. *)
ServerChanges(k) ==
    /\ k \in Changing /\ server[k] < MaxVersion
    /\ server' = [server EXCEPT ![k] = @ + 1]
    /\ UNCHANGED <<requestor, inbox, queue, tasks, db, spent>>

RowExpires(k) ==
    /\ k \in MustRevalidate /\ Stored(db, k) /\ db.rows[k].usable
    /\ db' = [db EXCEPT !.rows[k].usable = FALSE]
    /\ UNCHANGED <<requestor, inbox, queue, tasks, server, spent>>

Next ==
    \/ \E r \in Requestors :
          Construct(r) \/ Destroy(r) \/ MakeRequired(r) \/ MakeOptional(r) \/ Receive(r)
    \/ ImplStep
    \/ \E a \in Addresses : Ask(a) \/ Complete(a) \/ CompleteWithError(a)
    \/ \E k \in Keys : ServerChanges(k) \/ RowExpires(k)

Spec == Init /\ [][Next]_vars

(* Weak fairness of the two threads for the messages they have, and of the connection of each *)
(* online request, with the conditions under which the steps are possible written out.        *)
CanComplete(a) == tasks[a].state = "asked" /\ (tasks[a].ref # Dead => Len(inbox[a]) < MaxInbox)

HasResponse(r) == requestor[r].request # NoAddress /\ inbox[requestor[r].request] # <<>>

Fairness ==
    /\ []<>(queue = <<>>) \/ []<><<ImplStep>>_vars
    /\ \A r \in Requestors : []<>(~HasResponse(r)) \/ []<><<Receive(r)>>_vars
    /\ \A a \in Addresses :
          /\ []<>(tasks[a].state # "armed") \/ []<><<Ask(a)>>_vars
          /\ []<>(~CanComplete(a)) \/ []<><<Complete(a) \/ CompleteWithError(a)>>_vars

FairSpec == Spec /\ Fairness

----------------------------------------------------------------------------
Responses == [error : {"None", "NotFound", "Other"}, notModified : BOOLEAN,
              data : Versions, etag : Versions, usable : BOOLEAN]

References == Addresses \cup {Dead}

TaskStates == {"none", "armed", "asked", "idle", "refused"}

(* Eviction spares the rows of regions, and the cache never outgrows its size. *)
CacheKept ==
    /\ RegionKeys \subseteq DOMAIN db.rows
    /\ Cardinality(DOMAIN db.rows) =< MaxRows

(* Types of the variables; the database is a cache of the configured size. *)
TypeOK ==
    /\ requestor \in [Requestors -> [alive : BOOLEAN, required : BOOLEAN,
                                     method : {"CacheOnly", "NetworkOnly", "All"},
                                     etag : Versions, prior : Versions,
                                     request : Addresses \cup {NoAddress},
                                     data : Versions, since : Versions]]
    /\ inbox \in [Addresses -> Seq(Responses)]
    /\ \A i \in DOMAIN queue :
          \/ queue[i] \in [kind : {"cancel"}, addr : Addresses, ref : {Dead}]
          \/ queue[i] \in [kind : {"request"}, addr : Addresses, ref : References, key : Keys,
                           method : {"CacheOnly", "NetworkOnly", "All"},
                           etag : Versions, prior : Versions]
    /\ tasks \in [Addresses -> [ref : References, state : TaskStates,
                                key : Keys, etag : Versions, prior : Versions, answer : Versions]]
    /\ \E S \in SUBSET Keys :
          /\ db.rows \in [S -> [data : Versions, etag : Versions, usable : BOOLEAN]]
          /\ db.accessed \in Orders(S)
    /\ CacheKept
    /\ server \in [Keys -> 1..MaxVersion]

(***************************************************************************)
(* The file source keeps working for exactly the requests that exist,       *)
(* although it knows them by addresses that are reused: a request is on its *)
(* way to Impl, or its online request runs, with no cancellation of it left *)
(* behind it in the queue; a request to the cache only has its reply; and   *)
(* an online request whose requestor is gone is about to be cancelled.      *)
(***************************************************************************)
Waiting(kind, a, after) == \E i \in DOMAIN queue : i > after /\ queue[i].kind = kind /\ queue[i].addr = a

Sent(a) == {i \in DOMAIN queue : queue[i].kind = "request" /\ queue[i].ref = a}

TasksFollowRequests ==
    /\ \A r \in Requestors : requestor[r].request # NoAddress =>
          LET a == requestor[r].request
          IN \/ \E i \in Sent(a) : ~Waiting("cancel", a, i)
             \/ Sent(a) = {} /\ requestor[r].method = "CacheOnly" /\ inbox[a] # <<>>
             \/ Sent(a) = {} /\ tasks[a].ref = a /\ ~Waiting("cancel", a, 0)
    /\ \A a \in Addresses : tasks[a].state # "none" /\ tasks[a].ref = Dead => Waiting("cancel", a, 0)

(* A response that says "not modified" reaches a tile that has the very version it is about:  *)
(* "when we get this message, it already has the current version of the data".                *)
NotModifiedMeansCurrent ==
    \A r \in Requestors : HasResponse(r) =>
        LET response == Head(inbox[requestor[r].request])
        IN response.notModified => requestor[r].data = response.etag

(* What a tile shows never goes back to an older version, whatever the cache and the order of  *)
(* the answers do.  This is for tiles whose row may be used without revalidation; one that has  *)
(* priorData does go back (see NotModifiedMeansCurrent).                                        *)
NeverOlder ==
    [][\A r \in Requestors :
          requestor[r].alive /\ requestor[r]'.alive => requestor[r]'.data >= requestor[r].data]_vars

(* A tile that stays required shows, in the end, a version that is at least the one the       *)
(* server had when it became required, unless the server refuses the request with an error    *)
(* that is not retried: other errors, late answers, reused addresses and evictions do not      *)
(* prevent it.                                                                                 *)
Wanted(r) == requestor[r].alive /\ requestor[r].required

Refused(r) ==
    LET a == requestor[r].request
    IN a # NoAddress /\ tasks[a].state = "refused" /\ tasks[a].ref = a

RequiredIsRevalidated ==
    \A r \in Requestors :
        Wanted(r) ~> (~Wanted(r) \/ requestor[r].data >= requestor[r].since \/ Refused(r))
=============================================================================
