-------------------------- MODULE OfflineDatabase --------------------------
(***************************************************************************)
(* OfflineDatabase as a cache: what get() and put() do to the table of      *)
(* tiles (the one of other resources is alike), and eviction.               *)
(*                                                                          *)
(* A database is a record: "rows" maps the stored keys to their rows,       *)
(* "accessed" says how many of them were last accessed before: accesses     *)
(* are taken to happen at different times.  A row holds the version of its  *)
(* data, the version its ETag names, and whether it may be shown            *)
(* (Response::isUsable).  Version 0 is none.  Every row takes the same      *)
(* space.                                                                   *)
(***************************************************************************)
EXTENDS Naturals, FiniteSetsExt

CONSTANTS
    Keys,        \* the resources
    RegionKeys,  \* those that belong to an offline region
    MaxRows,     \* maximumCacheSize, less the page of slack, in rows
    EvictBatch   \* how many rows evict() selects at a time (50)

ASSUME OfflineDatabaseAssumption ==
    /\ Keys # {} /\ IsFiniteSet(Keys) /\ RegionKeys \subseteq Keys
    /\ MaxRows \in Nat /\ EvictBatch \in Nat \ {0}

Response(error, notModified, data, etag, usable) ==
    [error |-> error, notModified |-> notModified, data |-> data, etag |-> etag, usable |-> usable]

Row(data, etag, usable) == [data |-> data, etag |-> etag, usable |-> usable]

Stored(db, k) == k \in DOMAIN db.rows

(* The orders in which the keys in S may have been accessed. *)
Orders(S) ==
    {f \in [S -> 0..Cardinality(S) - 1] : \A j, k \in S : f[j] = f[k] => j = k}

(* Times of access that differ, as numbers of earlier ones. *)
Ranked(times) ==
    [k \in DOMAIN times |-> Cardinality({j \in DOMAIN times : times[j] < times[k]})]

Without(db, gone) ==
    LET kept == DOMAIN db.rows \ gone
    IN [rows |-> [k \in kept |-> db.rows[k]],
        accessed |-> Ranked([k \in kept |-> db.accessed[k]])]

WithRow(db, k, row) ==
    LET now == Cardinality(DOMAIN db.rows)
        all == DOMAIN db.rows \cup {k}
    IN [rows |-> [j \in all |-> IF j = k THEN row ELSE db.rows[j]],
        accessed |-> Ranked([j \in all |-> IF j = k THEN now ELSE db.accessed[j]])]

(* get(): the access is recorded before the row is read. *)
Touched(db, k) == IF Stored(db, k) THEN WithRow(db, k, db.rows[k]) ELSE db

Cached(db, k) == Response("None", FALSE, db.rows[k].data, db.rows[k].etag, db.rows[k].usable)

(* Fault: the rows of regions are evicted as well. *)
EvictableRegion(db) == DOMAIN db.rows

(* The rows evict() may delete. *)
Evictable(db) == DOMAIN db.rows \ RegionKeys

(* evict(): rounds that delete the EvictBatch rows of the oldest access until the new data     *)
(* fits, or nothing is left to delete; what has been deleted by then stays deleted.            *)
Evicted(db, needed) ==
    LET evictable == Evictable(db)
        Older(k) == {j \in evictable : db.accessed[j] < db.accessed[k]}
        Gone(n) == {k \in evictable : Cardinality(Older(k)) < n * EvictBatch}
        enough == {n \in 0..Cardinality(evictable) :
                      Cardinality(DOMAIN db.rows \ Gone(n)) + needed =< MaxRows}
    IN [fits |-> enough # {},
        db |-> Without(db, IF enough = {} THEN evictable ELSE Gone(Min(enough)))]

(* put(): an error is not stored; a 304 only refreshes a row that is there. *)
Put(db, k, response) ==
    LET room == Evicted(db, IF response.data = 0 THEN 0 ELSE 1)
    IN CASE response.error # "None" -> db
         [] response.error = "None" /\ ~room.fits -> room.db
         [] response.error = "None" /\ room.fits /\ response.notModified ->
              IF Stored(room.db, k)
              THEN WithRow(room.db, k, [room.db.rows[k] EXCEPT !.usable = response.usable])
              ELSE room.db
         [] OTHER -> WithRow(room.db, k, Row(response.data, response.etag, response.usable))
=============================================================================
