---------------------- MODULE DefaultFileSource_proofs ----------------------
(***************************************************************************)
(* Proofs about DefaultFileSource and the cache of OfflineDatabase, for any *)
(* requestors, addresses, resources, sizes of the cache and batches.        *)
(***************************************************************************)
EXTENDS DefaultFileSource, SequenceFacts

(* The records of the model. *)
Methods == {"CacheOnly", "NetworkOnly", "All"}
Who == [alive : BOOLEAN, required : BOOLEAN, method : Methods, etag : Versions, prior : Versions,
        request : Addresses \cup {NoAddress}, data : Versions, since : Versions]
Cancels == [kind : {"cancel"}, addr : Addresses, ref : {Dead}]
Requests == [kind : {"request"}, addr : Addresses, ref : References, key : Keys, method : Methods,
             etag : Versions, prior : Versions]
Messages == Cancels \cup Requests
Tasks == [ref : References, state : TaskStates, key : Keys,
          etag : Versions, prior : Versions, answer : Versions]
Rows == [data : Versions, etag : Versions, usable : BOOLEAN]

(* What the main thread's functions return. *)
Snapshots == [who : [Requestors -> Who], inbox : [Addresses -> Seq(Responses)],
              queue : Seq(Messages), tasks : [Addresses -> Tasks]]

(* The mailbox q of Impl: a cancellation of address a behind position i; a request of a live    *)
(* requestor at position i.                                                                      *)
CancelAfter(q, a, i) == \E j \in 1..Len(q) : j > i /\ q[j].kind = "cancel" /\ q[j].addr = a
SentAt(q, a, i) == q[i].kind = "request" /\ q[i].ref = a

(* An address belongs to one request at a time, and a destroyed requestor has none. *)
Allocated(m) ==
    /\ \A q, r \in Requestors :
          q # r /\ m.who[q].request # NoAddress => m.who[q].request # m.who[r].request
    /\ \A r \in Requestors : ~m.who[r].alive => m.who[r].request = NoAddress

Owned(m, a) == \E r \in Requestors : m.who[r].request = a

(* References to living requests name their addresses, in one message at most. *)
Referenced(m) ==
    /\ \A i \in 1..Len(m.queue) :
          m.queue[i].kind = "request" /\ m.queue[i].ref # Dead =>
             /\ m.queue[i].ref = m.queue[i].addr
             /\ Owned(m, m.queue[i].addr)
             /\ \A j \in 1..Len(m.queue) : SentAt(m.queue, m.queue[i].ref, j) => i = j
             /\ \A r \in Requestors :
                   m.who[r].request = m.queue[i].ref => m.queue[i].method = m.who[r].method
    /\ \A a \in Addresses : m.tasks[a].ref # Dead => m.tasks[a].ref = a /\ Owned(m, a)

(* What a destroyed request has left behind is about to be cancelled. *)
Cancelled(m) ==
    /\ \A i \in 1..Len(m.queue) :
          SentAt(m.queue, Dead, i) => CancelAfter(m.queue, m.queue[i].addr, i)
    /\ \A a \in Addresses :
          m.tasks[a].state # "none" /\ m.tasks[a].ref = Dead => CancelAfter(m.queue, a, 0)

(* A living request is on its way, has its reply, or is worked for. *)
ServedAt(m, r, a) ==
    \/ \E i \in 1..Len(m.queue) : SentAt(m.queue, a, i) /\ ~CancelAfter(m.queue, a, i)
    \/ /\ \A i \in 1..Len(m.queue) : ~SentAt(m.queue, a, i)
       /\ \/ m.who[r].method = "CacheOnly" /\ m.inbox[a] # <<>>
          \/ m.tasks[a].ref = a /\ ~CancelAfter(m.queue, a, 0)
Served(m) ==
    \A r \in Requestors : m.who[r].request # NoAddress => ServedAt(m, r, m.who[r].request)

Follows(m) == m \in Snapshots /\ Allocated(m) /\ Referenced(m) /\ Cancelled(m) /\ Served(m)

(* The database is a cache of its size that keeps the rows of regions. *)
Cache(d) ==
    /\ DOMAIN d.rows \subseteq Keys
    /\ d.rows \in [DOMAIN d.rows -> Rows]
    /\ d.accessed \in Orders(DOMAIN d.rows)
    /\ RegionKeys \subseteq DOMAIN d.rows
    /\ Cardinality(DOMAIN d.rows) =< MaxRows

(* The server never answers with "none". *)
Answered == \A a \in Addresses : tasks[a].state = "asked" => tasks[a].answer # 0

IInv == Follows(Main) /\ Cache(db) /\ Answered /\ server \in [Keys -> 1..MaxVersion]

----------------------------------------------------------------------------
(***************************************************************************)
(* The database.                                                            *)
(***************************************************************************)

(* Ranks are an order again. *)
LEMMA RankedFacts ==
    ASSUME NEW S, IsFiniteSet(S), NEW times \in [S -> Nat],
           \A j, k \in S : times[j] = times[k] => j = k
    PROVE  Ranked(times) \in Orders(S)
<1> DEFINE Earlier(k) == {j \in S : times[j] < times[k]}
           n == Cardinality(S)
<1>1. Ranked(times) = [k \in S |-> Cardinality(Earlier(k))]
    BY DEF Ranked
<1>2. \A k \in S : /\ Earlier(k) \subseteq S \ {k} /\ IsFiniteSet(Earlier(k))
                    /\ Cardinality(Earlier(k)) \in Nat
    <2> TAKE k \in S
    <2>1. Earlier(k) \subseteq S \ {k}
        OBVIOUS
    <2>2. IsFiniteSet(Earlier(k))
        BY <2>1, FS_Subset
    <2> QED BY <2>1, <2>2, FS_CardinalityType
<1>3. ASSUME NEW k \in S PROVE Cardinality(Earlier(k)) \in 0..(n - 1)
    <2>1. IsFiniteSet(S \ {k}) /\ Cardinality(S \ {k}) = n - 1 /\ n \in Nat
        BY FS_RemoveElement, FS_CardinalityType
    <2>2. Cardinality(Earlier(k)) =< Cardinality(S \ {k})
        BY <1>2, <2>1, FS_Subset
    <2> HIDE DEF n, Earlier
    <2> QED BY <1>2, <2>1, <2>2
<1>4. ASSUME NEW j \in S, NEW k \in S, times[j] < times[k]
      PROVE  Cardinality(Earlier(j)) < Cardinality(Earlier(k))
    <2>1. j \notin Earlier(j) /\ Earlier(j) \cup {j} \subseteq Earlier(k)
        BY <1>4
    <2>2. Cardinality(Earlier(j) \cup {j}) = Cardinality(Earlier(j)) + 1
        BY <1>2, <2>1, FS_AddElement
    <2>3. Cardinality(Earlier(j) \cup {j}) =< Cardinality(Earlier(k))
        BY <1>2, <2>1, FS_Subset
    <2> HIDE DEF Earlier
    <2> QED BY <1>2, <2>2, <2>3
<1>5. ASSUME NEW j \in S, NEW k \in S, Cardinality(Earlier(j)) = Cardinality(Earlier(k))
      PROVE  j = k
    <2>1. ~(times[j] < times[k]) /\ ~(times[k] < times[j])
        <3> HIDE DEF Earlier
        <3> QED BY <1>2, <1>4, <1>5
    <2>2. times[j] \in Nat /\ times[k] \in Nat
        OBVIOUS
    <2> QED BY <2>1, <2>2
<1> HIDE DEF Earlier, n
<1> QED BY <1>1, <1>3, <1>5 DEF Orders, n

LEMMA CacheFacts ==
    ASSUME NEW d, Cache(d)
    PROVE  /\ IsFiniteSet(DOMAIN d.rows) /\ Cardinality(DOMAIN d.rows) \in Nat
           /\ d.accessed \in [DOMAIN d.rows -> Nat]
           /\ \A k \in DOMAIN d.rows : d.accessed[k] < Cardinality(DOMAIN d.rows)
           /\ \A j, k \in DOMAIN d.rows : d.accessed[j] = d.accessed[k] => j = k
<1>1. IsFiniteSet(DOMAIN d.rows) /\ Cardinality(DOMAIN d.rows) \in Nat
    BY OfflineDatabaseAssumption, FS_Subset, FS_CardinalityType DEF Cache
<1> QED BY <1>1 DEF Cache, Orders

(* Evicting rows outside of regions. *)
LEMMA WithoutRows ==
    ASSUME NEW d, Cache(d), NEW gone, gone \cap RegionKeys = {}
    PROVE  Cache(Without(d, gone)) /\ DOMAIN Without(d, gone).rows = DOMAIN d.rows \ gone
<1> DEFINE kept == DOMAIN d.rows \ gone
           times == [k \in kept |-> d.accessed[k]]
<1>1. Without(d, gone) = [rows |-> [k \in kept |-> d.rows[k]], accessed |-> Ranked(times)]
    BY DEF Without
<1>2. /\ kept \subseteq DOMAIN d.rows /\ IsFiniteSet(kept)
      /\ Cardinality(kept) =< Cardinality(DOMAIN d.rows) /\ Cardinality(kept) \in Nat
    BY CacheFacts, FS_Subset, FS_CardinalityType
<1>3. Ranked(times) \in Orders(kept)
    <2>1. times \in [kept -> Nat] /\ \A j, k \in kept : times[j] = times[k] => j = k
        BY <1>2, CacheFacts
    <2> HIDE DEF times, kept
    <2> QED BY <1>2, <2>1, RankedFacts
<1>4. [k \in kept |-> d.rows[k]] \in [kept -> Rows] /\ kept \subseteq Keys /\ RegionKeys \subseteq kept
    BY DEF Cache
<1>5. Cardinality(kept) =< MaxRows
    BY <1>2, CacheFacts, OfflineDatabaseAssumption DEF Cache
<1> HIDE DEF times, kept
<1>6. DOMAIN Without(d, gone).rows = kept
    BY <1>1
<1> QED BY <1>1, <1>3, <1>4, <1>5, <1>6 DEF Cache, kept

(* Storing a row for which there is room. *)
LEMMA WithRowStored ==
    ASSUME NEW d, Cache(d), NEW k \in Keys, NEW row \in Rows,
           Cardinality(DOMAIN d.rows \cup {k}) =< MaxRows
    PROVE  Cache(WithRow(d, k, row))
<1> DEFINE n == Cardinality(DOMAIN d.rows)
           all == DOMAIN d.rows \cup {k}
           times == [j \in all |-> IF j = k THEN n ELSE d.accessed[j]]
           rows == [j \in all |-> IF j = k THEN row ELSE d.rows[j]]
<1>1. WithRow(d, k, row) = [rows |-> rows, accessed |-> Ranked(times)]
    BY DEF WithRow
<1>2. IsFiniteSet(all)
    BY CacheFacts, FS_AddElement
<1>3. Ranked(times) \in Orders(all)
    <2>1. times \in [all -> Nat]
        BY CacheFacts
    <2>2. ASSUME NEW i \in all, NEW j \in all, times[i] = times[j] PROVE i = j
        BY <2>2, CacheFacts
    <2> HIDE DEF times, all
    <2> QED BY <1>2, <2>1, <2>2, RankedFacts
<1>4. rows \in [all -> Rows] /\ all \subseteq Keys /\ RegionKeys \subseteq all
    BY DEF Cache
<1>5. Cardinality(all) =< MaxRows
    OBVIOUS
<1> HIDE DEF rows, all, times
<1>6. DOMAIN WithRow(d, k, row).rows = all
    BY <1>1, <1>4
<1> QED BY <1>1, <1>3, <1>4, <1>5, <1>6 DEF Cache

LEMMA TouchedFacts ==
    ASSUME NEW d, Cache(d), NEW k \in Keys
    PROVE  Cache(Touched(d, k))
<1>1. CASE ~Stored(d, k)
    BY <1>1 DEF Touched
<1>2. CASE Stored(d, k)
    <2>1. d.rows[k] \in Rows /\ DOMAIN d.rows \cup {k} = DOMAIN d.rows
        BY <1>2 DEF Stored, Cache
    <2>2. Cardinality(DOMAIN d.rows \cup {k}) =< MaxRows
        BY <2>1 DEF Cache
    <2> QED BY <1>2, <2>1, <2>2, WithRowStored DEF Touched
<1> QED BY <1>1, <1>2

LEMMA EvictedFacts ==
    ASSUME NEW d, Cache(d), NEW needed \in Nat
    PROVE  LET room == Evicted(d, needed)
           IN  /\ Cache(room.db)
               /\ room.fits => Cardinality(DOMAIN room.db.rows) + needed =< MaxRows
<1> DEFINE evictable == Evictable(d)
           Older(k) == {j \in evictable : d.accessed[j] < d.accessed[k]}
           Gone(n) == {k \in evictable : Cardinality(Older(k)) < n * EvictBatch}
           enough == {n \in 0..Cardinality(evictable) :
                         Cardinality(DOMAIN d.rows \ Gone(n)) + needed =< MaxRows}
           room == Evicted(d, needed)
           gone == IF enough = {} THEN evictable ELSE Gone(Min(enough))
<1>1. room = [fits |-> enough # {}, db |-> Without(d, gone)]
    BY DEF Evicted
<1>2. evictable \cap RegionKeys = {} /\ gone \subseteq evictable
    BY DEF Evictable
<1>3. enough # {} => Cardinality(DOMAIN d.rows \ gone) + needed =< MaxRows
    <2> SUFFICES ASSUME enough # {} PROVE Cardinality(DOMAIN d.rows \ gone) + needed =< MaxRows
        OBVIOUS
    <2>1. enough \subseteq Nat
        OBVIOUS
    <2>2. Min(enough) \in enough
        <3> HIDE DEF enough
        <3> QED BY <2>1, LeastNatural
    <2>3. \A n \in enough : Cardinality(DOMAIN d.rows \ Gone(n)) + needed =< MaxRows
        OBVIOUS
    <2>4. gone = Gone(Min(enough))
        OBVIOUS
    <2> HIDE DEF enough, Gone, gone
    <2> QED BY <2>2, <2>3, <2>4
<1> HIDE DEF evictable, gone, enough
<1>4. gone \cap RegionKeys = {}
    BY <1>2
<1>5. Cache(Without(d, gone)) /\ DOMAIN Without(d, gone).rows = DOMAIN d.rows \ gone
    BY <1>4, WithoutRows
<1>6. room.fits = (enough # {}) /\ room.db = Without(d, gone)
    BY <1>1
<1> HIDE DEF room
<1>7. Cache(room.db)
    BY <1>5, <1>6
<1>8. room.fits => Cardinality(DOMAIN room.db.rows) + needed =< MaxRows
    BY <1>3, <1>5, <1>6
<1> QED BY <1>7, <1>8 DEF room

(* put() leaves a cache, also when it evicts in vain. *)
LEMMA PutFacts ==
    ASSUME NEW d, Cache(d), NEW k \in Keys, NEW response \in Responses,
           response.error = "None" /\ ~response.notModified => response.data # 0
    PROVE  Cache(Put(d, k, response))
<1> DEFINE needed == IF response.data = 0 THEN 0 ELSE 1
           room == Evicted(d, needed)
<1>1. /\ Cache(room.db)
      /\ room.fits => Cardinality(DOMAIN room.db.rows) + needed =< MaxRows
    <2>1. needed \in Nat
        OBVIOUS
    <2> HIDE DEF needed
    <2> QED BY <2>1, EvictedFacts
<1>2. \/ Put(d, k, response) = d
      \/ Put(d, k, response) = room.db
      \/ /\ Stored(room.db, k)
         /\ Put(d, k, response) = WithRow(room.db, k, [room.db.rows[k] EXCEPT !.usable = response.usable])
      \/ /\ room.fits /\ response.error = "None" /\ ~response.notModified
         /\ Put(d, k, response) = WithRow(room.db, k, Row(response.data, response.etag, response.usable))
    <2>1. response.notModified \in BOOLEAN
        BY DEF Responses
    <2> HIDE DEF room
    <2>2. /\ response.error # "None" => Put(d, k, response) = d
          /\ response.error = "None" /\ ~room.fits => Put(d, k, response) = room.db
          /\ response.error = "None" /\ room.fits /\ response.notModified =>
                Put(d, k, response) =
                   IF Stored(room.db, k)
                   THEN WithRow(room.db, k, [room.db.rows[k] EXCEPT !.usable = response.usable])
                   ELSE room.db
          /\ response.error = "None" /\ room.fits /\ ~response.notModified =>
                Put(d, k, response) = WithRow(room.db, k, Row(response.data, response.etag, response.usable))
        <3> USE DEF room
        <3> QED BY DEF Put
    <2> QED BY <2>1, <2>2
<1>3. CASE /\ Stored(room.db, k)
           /\ Put(d, k, response) = WithRow(room.db, k, [room.db.rows[k] EXCEPT !.usable = response.usable])
    <2> HIDE DEF room
    <2>1. room.db.rows[k] \in Rows /\ DOMAIN room.db.rows \cup {k} = DOMAIN room.db.rows
        BY <1>1, <1>3 DEF Stored, Cache
    <2>2. response.usable \in BOOLEAN
        BY DEF Responses
    <2>3. [room.db.rows[k] EXCEPT !.usable = response.usable] \in Rows
        BY <2>1, <2>2 DEF Rows
    <2>4. Cardinality(DOMAIN room.db.rows \cup {k}) =< MaxRows
        BY <1>1, <2>1 DEF Cache
    <2> QED BY <1>1, <1>3, <2>3, <2>4, WithRowStored
<1>4. CASE /\ room.fits /\ response.error = "None" /\ ~response.notModified
           /\ Put(d, k, response) = WithRow(room.db, k, Row(response.data, response.etag, response.usable))
    <2>1. needed = 1
        BY <1>4
    <2> HIDE DEF room, needed
    <2>2. Row(response.data, response.etag, response.usable) \in Rows
        BY DEF Row, Rows, Responses
    <2>3. IsFiniteSet(DOMAIN room.db.rows) /\ Cardinality(DOMAIN room.db.rows) \in Nat
        BY <1>1, CacheFacts
    <2>4. Cardinality(DOMAIN room.db.rows \cup {k}) =
             IF k \in DOMAIN room.db.rows THEN Cardinality(DOMAIN room.db.rows)
             ELSE Cardinality(DOMAIN room.db.rows) + 1
        BY <2>3, FS_AddElement
    <2>6. Cardinality(DOMAIN room.db.rows) + 1 =< MaxRows
        BY <1>1, <1>4, <2>1
    <2>5. Cardinality(DOMAIN room.db.rows \cup {k}) =< MaxRows
        BY <2>3, <2>4, <2>6, OfflineDatabaseAssumption
    <2> QED BY <1>1, <1>4, <2>2, <2>5, WithRowStored
<1> QED BY <1>1, <1>2, <1>3, <1>4

----------------------------------------------------------------------------
(***************************************************************************)
(* Requests and their addresses.                                            *)
(***************************************************************************)

LEMMA CancelAppended ==
    ASSUME NEW q \in Seq(Messages), NEW x \in Messages, NEW i \in 0..Len(q), NEW b
    PROVE  CancelAfter(Append(q, x), b, i) <=>
               CancelAfter(q, b, i) \/ (x.kind = "cancel" /\ x.addr = b)
<1> DEFINE n == Append(q, x)
<1>1. /\ Len(q) \in Nat /\ Len(n) = Len(q) + 1 /\ n[Len(q) + 1] = x
      /\ \A j \in 1..Len(q) : n[j] = q[j]
    BY AppendFacts
<1> HIDE DEF n
<1>2. ASSUME NEW j \in 1..Len(n), j > i, n[j].kind = "cancel", n[j].addr = b
      PROVE  CancelAfter(q, b, i) \/ (x.kind = "cancel" /\ x.addr = b)
    <2>1. j \in 1..Len(q) \/ j = Len(q) + 1
        BY <1>1
    <2> QED BY <1>1, <1>2, <2>1 DEF CancelAfter
<1>3. ASSUME NEW j \in 1..Len(q), j > i, q[j].kind = "cancel", q[j].addr = b
      PROVE  CancelAfter(n, b, i)
    <2>1. j \in 1..Len(n)
        BY <1>1
    <2> QED BY <1>1, <1>3, <2>1 DEF CancelAfter
<1>4. ASSUME x.kind = "cancel", x.addr = b PROVE CancelAfter(n, b, i)
    <2>1. Len(q) + 1 \in 1..Len(n) /\ Len(q) + 1 > i
        BY <1>1
    <2> QED BY <1>1, <1>4, <2>1 DEF CancelAfter
<1>5. CancelAfter(n, b, i) <=> CancelAfter(q, b, i) \/ (x.kind = "cancel" /\ x.addr = b)
    BY <1>2, <1>3, <1>4 DEF CancelAfter
<1> QED BY <1>5 DEF n

(* Deleting a request leaves a cancellation behind, and no reference to it. *)
LEMMA ResetFollows ==
    ASSUME NEW m, Follows(m), NEW r \in Requestors, m.who[r].request # NoAddress
    PROVE  /\ Follows(Reset(m, r))
           /\ Reset(m, r).who = [m.who EXCEPT ![r].request = NoAddress]
           /\ \A b \in Addresses : /\ Reset(m, r).tasks[b].state = m.tasks[b].state
                                   /\ Reset(m, r).tasks[b].answer = m.tasks[b].answer
<1> DEFINE a == m.who[r].request
           Forget(ref) == IF ref = a THEN Dead ELSE ref
           q == [i \in DOMAIN m.queue |-> [m.queue[i] EXCEPT !.ref = Forget(@)]]
           x == [kind |-> "cancel", addr |-> a, ref |-> Dead]
           n == Reset(m, r)
           L == Len(m.queue)
<1>1. /\ m.who \in [Requestors -> Who] /\ m.inbox \in [Addresses -> Seq(Responses)]
      /\ m.queue \in Seq(Messages) /\ m.tasks \in [Addresses -> Tasks] /\ L \in Nat
      /\ \A i \in 1..L : m.queue[i] \in Messages
    BY DEF Follows, Snapshots
<1>2. a \in Addresses /\ a # Dead /\ NoAddress \notin Addresses
    BY <1>1, DefaultFileSourceAssumption DEF Who
<1> DEFINE w == [m.who[r] EXCEPT !.request = NoAddress]
           W == [m.who EXCEPT ![r] = w]
           I == [m.inbox EXCEPT ![a] = <<>>]
           T == [b \in Addresses |-> [m.tasks[b] EXCEPT !.ref = Forget(@)]]
<1>3. n = [who |-> W, inbox |-> I, queue |-> Append(q, x), tasks |-> T]
    <2>1. ResetSilently(m, r) = [who |-> W, inbox |-> I, queue |-> q, tasks |-> T]
        BY DEF ResetSilently
    <2>2. n = [ResetSilently(m, r) EXCEPT !.queue = Append(@, x)]
        BY DEF Reset
    <2> HIDE DEF q, x, n, W, I, T
    <2> QED BY <2>1, <2>2, SMTT(30)
<1>4. /\ \A i \in 1..L : /\ q[i] \in Messages /\ q[i].kind = m.queue[i].kind
                         /\ q[i].addr = m.queue[i].addr
                         /\ q[i].kind = "request" => /\ q[i].method = m.queue[i].method
                                                     /\ q[i].ref = Forget(m.queue[i].ref)
    <2> SUFFICES ASSUME NEW i \in 1..L
                 PROVE  /\ q[i] \in Messages /\ q[i].kind = m.queue[i].kind
                        /\ q[i].addr = m.queue[i].addr
                        /\ q[i].kind = "request" => /\ q[i].method = m.queue[i].method
                                                    /\ q[i].ref = Forget(m.queue[i].ref)
        OBVIOUS
    <2>1. q[i] = [m.queue[i] EXCEPT !.ref = Forget(m.queue[i].ref)]
        BY <1>1
    <2> HIDE DEF q
    <2>2. CASE m.queue[i] \in Cancels
        <3>1. m.queue[i].ref = Dead /\ Forget(Dead) = Dead
            BY <2>2 DEF Cancels
        <3> QED BY <2>1, <2>2, <3>1 DEF Cancels, Messages
    <2>3. CASE m.queue[i] \in Requests
        <3>1. Forget(m.queue[i].ref) \in References
            BY <2>3 DEF Requests, References
        <3> QED BY <2>1, <2>3, <3>1 DEF Requests, Messages
    <2> QED BY <1>1, <2>2, <2>3 DEF Messages
<1>5. q \in Seq(Messages) /\ Len(q) = L
    <2>1. DOMAIN q = 1..L
        BY <1>1
    <2>2. q \in [1..L -> Messages]
        BY <1>4, <2>1
    <2> HIDE DEF q
    <2> QED BY <1>1, <2>2
<1>6. x \in Messages /\ x.kind = "cancel" /\ x.addr = a
    BY <1>2 DEF Messages, Cancels
<1> HIDE DEF q, x
<1>7. /\ n.queue \in Seq(Messages) /\ Len(n.queue) = L + 1 /\ n.queue[L + 1] = x
      /\ \A i \in 1..L : n.queue[i] = q[i]
    BY <1>3, <1>5, <1>6, AppendFacts
<1>8. /\ n.who = [m.who EXCEPT ![r].request = NoAddress]
      /\ n.who \in [Requestors -> Who] /\ n.who[r].request = NoAddress
      /\ n.who[r].alive = m.who[r].alive
      /\ \A s \in Requestors : s # r => n.who[s] = m.who[s]
    <2>1. n.who = [m.who EXCEPT ![r].request = NoAddress]
        BY <1>3
    <2>2. w \in Who /\ w.request = NoAddress /\ w.alive = m.who[r].alive
        BY <1>1 DEF Who
    <2>3. n.who = [m.who EXCEPT ![r] = w]
        BY <1>3
    <2> HIDE DEF w
    <2> QED BY <1>1, <2>1, <2>2, <2>3
<1>9. /\ n.inbox \in [Addresses -> Seq(Responses)]
      /\ \A b \in Addresses : b # a => n.inbox[b] = m.inbox[b]
    BY <1>1, <1>2, <1>3
<1>10. /\ n.tasks \in [Addresses -> Tasks]
       /\ \A b \in Addresses : /\ n.tasks[b].state = m.tasks[b].state
                                /\ n.tasks[b].answer = m.tasks[b].answer
                                /\ n.tasks[b].ref = Forget(m.tasks[b].ref)
    <2>1. ASSUME NEW b \in Addresses
          PROVE  /\ n.tasks[b] \in Tasks /\ n.tasks[b].state = m.tasks[b].state
                 /\ n.tasks[b].answer = m.tasks[b].answer
                 /\ n.tasks[b].ref = Forget(m.tasks[b].ref)
        <3>1. n.tasks[b] = [m.tasks[b] EXCEPT !.ref = Forget(m.tasks[b].ref)]
            BY <1>3
        <3>2. m.tasks[b] \in Tasks /\ Forget(m.tasks[b].ref) \in References
            BY <1>1 DEF Tasks, TaskStates, References
        <3> HIDE DEF Forget
        <3> QED BY <3>1, <3>2 DEF Tasks, TaskStates
    <2>2. n.tasks = [b \in Addresses |-> n.tasks[b]]
        BY <1>3
    <2> HIDE DEF Forget
    <2> QED BY <2>1, <2>2
<1> HIDE DEF W, I, T, w
<1>11. n \in Snapshots
    BY <1>3, <1>7, <1>8, <1>9, <1>10 DEF Snapshots
<1>12. \A b, i : i \in 0..L => (CancelAfter(n.queue, b, i) <=> CancelAfter(m.queue, b, i) \/ b = a)
    <2> SUFFICES ASSUME NEW b, NEW i \in 0..L
                 PROVE  CancelAfter(n.queue, b, i) <=> CancelAfter(m.queue, b, i) \/ b = a
        OBVIOUS
    <2>1. CancelAfter(n.queue, b, i) <=> CancelAfter(q, b, i) \/ b = a
        BY <1>3, <1>5, <1>6, CancelAppended
    <2>2. CancelAfter(q, b, i) <=> CancelAfter(m.queue, b, i)
        BY <1>4, <1>5 DEF CancelAfter
    <2> QED BY <2>1, <2>2
<1> HIDE DEF n
<1>13. \A b \in Addresses, i \in 1..(L + 1) :
          SentAt(n.queue, b, i) <=> b # a /\ i \in 1..L /\ SentAt(m.queue, b, i)
    <2> TAKE b \in Addresses, i \in 1..(L + 1)
    <2>1. b # Dead
        BY DefaultFileSourceAssumption
    <2>2. CASE i = L + 1
        BY <1>1, <1>6, <1>7, <2>2 DEF SentAt
    <2>3. CASE i \in 1..L
        BY <1>2, <1>4, <1>7, <2>1, <2>3 DEF SentAt
    <2> QED BY <1>1, <2>2, <2>3
<1>14. \A i \in 1..(L + 1) : n.queue[i].kind = "request" =>
          /\ i \in 1..L /\ m.queue[i].kind = "request" /\ n.queue[i].addr = m.queue[i].addr
          /\ n.queue[i].method = m.queue[i].method /\ n.queue[i].ref = Forget(m.queue[i].ref)
          /\ m.queue[i].ref \in References
    <2> TAKE i \in 1..(L + 1)
    <2>1. CASE i = L + 1
        BY <1>6, <1>7, <2>1
    <2>2. CASE i \in 1..L
        BY <1>1, <1>4, <1>7, <2>2 DEF Messages, Requests, Cancels
    <2> QED BY <1>1, <2>1, <2>2
<1>15. \A b \in Addresses : b # a /\ Owned(m, b) => Owned(n, b)
    BY <1>8 DEF Owned
<1>16. Allocated(n)
    BY <1>8 DEF Follows, Allocated
<1>17. Referenced(n)
    <2>1. ASSUME NEW i \in 1..(L + 1), n.queue[i].kind = "request", n.queue[i].ref # Dead
          PROVE  /\ n.queue[i].ref = n.queue[i].addr
                 /\ Owned(n, n.queue[i].addr)
                 /\ \A j \in 1..(L + 1) : SentAt(n.queue, n.queue[i].ref, j) => i = j
                 /\ \A s \in Requestors :
                       n.who[s].request = n.queue[i].ref => n.queue[i].method = n.who[s].method
        <3> DEFINE b == n.queue[i].ref
        <3>1. i \in 1..L /\ b = m.queue[i].ref /\ b # a /\ b \in Addresses
            BY <1>14, <2>1 DEF References
        <3>2. /\ m.queue[i].kind = "request" /\ m.queue[i].ref # Dead
              /\ n.queue[i].addr = m.queue[i].addr /\ n.queue[i].method = m.queue[i].method
            BY <1>14, <2>1, <3>1
        <3>3. /\ b = m.queue[i].addr /\ Owned(m, b)
              /\ \A j \in 1..L : SentAt(m.queue, b, j) => i = j
              /\ \A s \in Requestors : m.who[s].request = b => m.queue[i].method = m.who[s].method
            BY <3>1, <3>2 DEF Follows, Referenced
        <3> HIDE DEF b
        <3>4. Owned(n, b)
            BY <1>15, <3>1, <3>3
        <3>5. \A j \in 1..(L + 1) : SentAt(n.queue, b, j) => i = j
            BY <1>13, <3>1, <3>3
        <3>6. \A s \in Requestors : n.who[s].request = b => m.queue[i].method = n.who[s].method
            BY <1>2, <1>8, <3>1, <3>3
        <3> QED BY <3>2, <3>3, <3>4, <3>5, <3>6 DEF b
    <2>2. ASSUME NEW b \in Addresses, n.tasks[b].ref # Dead
          PROVE  n.tasks[b].ref = b /\ Owned(n, b)
        <3>1. m.tasks[b].ref # Dead /\ m.tasks[b].ref # a /\ n.tasks[b].ref = m.tasks[b].ref
            BY <1>10, <2>2
        <3>2. m.tasks[b].ref = b /\ Owned(m, b)
            BY <3>1 DEF Follows, Referenced
        <3> QED BY <1>15, <3>1, <3>2
    <2> QED BY <1>7, <2>1, <2>2 DEF Referenced
<1>18. Cancelled(n)
    <2>1. ASSUME NEW i \in 1..(L + 1), SentAt(n.queue, Dead, i)
          PROVE  CancelAfter(n.queue, n.queue[i].addr, i)
        <3>1. /\ i \in 1..L /\ m.queue[i].kind = "request" /\ n.queue[i].addr = m.queue[i].addr
              /\ m.queue[i].ref = Dead \/ m.queue[i].ref = a
            BY <1>14, <2>1 DEF SentAt
        <3>2. CASE m.queue[i].ref = Dead
            <4>1. CancelAfter(m.queue, m.queue[i].addr, i)
                BY <3>1, <3>2 DEF Follows, Cancelled, SentAt
            <4> QED BY <1>1, <1>12, <3>1, <4>1
        <3>3. CASE m.queue[i].ref = a
            <4>1. m.queue[i].addr = a
                BY <1>2, <3>1, <3>3 DEF Follows, Referenced
            <4> QED BY <1>1, <1>12, <3>1, <4>1
        <3> QED BY <3>1, <3>2, <3>3
    <2>2. ASSUME NEW b \in Addresses, n.tasks[b].state # "none", n.tasks[b].ref = Dead
          PROVE  CancelAfter(n.queue, b, 0)
        <3>1. m.tasks[b].state # "none" /\ (m.tasks[b].ref = Dead \/ m.tasks[b].ref = a)
            BY <1>10, <2>2
        <3>2. CancelAfter(m.queue, b, 0) \/ b = a
            BY <1>2, <3>1 DEF Follows, Cancelled, Referenced
        <3> QED BY <1>1, <1>12, <3>2
    <2> QED BY <1>7, <2>1, <2>2 DEF Cancelled
<1>19. Served(n)
    <2> SUFFICES ASSUME NEW s \in Requestors, n.who[s].request # NoAddress
                 PROVE  ServedAt(n, s, n.who[s].request)
        BY DEF Served
    <2> DEFINE b == m.who[s].request
    <2>1. s # r /\ n.who[s] = m.who[s] /\ b # NoAddress /\ b \in Addresses /\ b # a
        BY <1>1, <1>8 DEF Follows, Allocated, Who
    <2> HIDE DEF b
    <2>2. ServedAt(m, s, b)
        BY <2>1 DEF Follows, Served, b
    <2>3. ASSUME NEW i \in 1..L, SentAt(m.queue, b, i), ~CancelAfter(m.queue, b, i)
          PROVE  ServedAt(n, s, b)
        <3>1. i \in 1..(L + 1) /\ i \in 0..L
            BY <1>1
        <3>2. SentAt(n.queue, b, i) /\ ~CancelAfter(n.queue, b, i)
            BY <1>12, <1>13, <2>1, <2>3, <3>1
        <3> QED BY <1>7, <3>1, <3>2 DEF ServedAt
    <2>4. ASSUME \A i \in 1..L : ~SentAt(m.queue, b, i),
                 \/ m.who[s].method = "CacheOnly" /\ m.inbox[b] # <<>>
                 \/ m.tasks[b].ref = b /\ ~CancelAfter(m.queue, b, 0)
          PROVE  ServedAt(n, s, b)
        <3>1. \A i \in 1..(L + 1) : ~SentAt(n.queue, b, i)
            BY <1>13, <2>1, <2>4
        <3>2. n.inbox[b] = m.inbox[b] /\ (m.tasks[b].ref = b => n.tasks[b].ref = b)
            BY <1>9, <1>10, <2>1
        <3>3. CancelAfter(n.queue, b, 0) <=> CancelAfter(m.queue, b, 0)
            BY <1>1, <1>12, <2>1
        <3> QED BY <1>7, <2>1, <2>4, <3>1, <3>2, <3>3 DEF ServedAt
    <2>5. ServedAt(n, s, b)
        BY <2>2, <2>3, <2>4 DEF ServedAt
    <2> QED BY <2>1, <2>5 DEF b
<1> QED BY <1>8, <1>10, <1>11, <1>16, <1>17, <1>18, <1>19 DEF Follows, n

(* A new request is sent from an address that nobody has. *)
LEMMA RequestedFollows ==
    ASSUME NEW m, Follows(m), NEW r \in Requestors, m.who[r].request = NoAddress, m.who[r].alive,
           NEW method \in Methods, NEW a \in Freed(m)
    PROVE  Follows(Requested(m, r, method, a))
<1> DEFINE x == [kind |-> "request", addr |-> a, ref |-> a, key |-> KeyOf[r], method |-> method,
                 etag |-> m.who[r].etag, prior |-> m.who[r].prior]
           w == [m.who[r] EXCEPT !.request = a, !.method = method]
           n == Requested(m, r, method, a)
           L == Len(m.queue)
<1>1. /\ m.who \in [Requestors -> Who] /\ m.inbox \in [Addresses -> Seq(Responses)]
      /\ m.queue \in Seq(Messages) /\ m.tasks \in [Addresses -> Tasks] /\ L \in Nat
      /\ \A i \in 1..L : m.queue[i] \in Messages
      /\ m = [who |-> m.who, inbox |-> m.inbox, queue |-> m.queue, tasks |-> m.tasks]
    BY DEF Follows, Snapshots
<1>2. a \in Addresses /\ a # Dead /\ a # NoAddress /\ ~Owned(m, a)
    BY DefaultFileSourceAssumption DEF Freed, Owned
<1>3. n = [who |-> [m.who EXCEPT ![r] = w], inbox |-> m.inbox, queue |-> Append(m.queue, x),
           tasks |-> m.tasks]
    <2>1. n = [m EXCEPT !.who = [m.who EXCEPT ![r] = w], !.queue = Append(m.queue, x)]
        BY <1>1 DEF Requested
    <2> HIDE DEF w, x, n
    <2> QED BY <1>1, <2>1
<1>4. w \in Who /\ w.request = a /\ w.method = method /\ w.alive
    BY <1>1, <1>2 DEF Who
<1>5. x \in Messages /\ x.kind = "request" /\ x.addr = a /\ x.ref = a /\ x.method = method
    <2>1. KeyOf[r] \in Keys /\ m.who[r].etag \in Versions /\ m.who[r].prior \in Versions
        BY <1>1, DefaultFileSourceAssumption DEF Who
    <2> QED BY <1>2, <2>1 DEF Messages, Requests, References
<1> HIDE DEF x, w
<1>6. /\ n.queue = Append(m.queue, x) /\ n.queue \in Seq(Messages) /\ Len(n.queue) = L + 1
      /\ n.queue[L + 1] = x /\ \A i \in 1..L : n.queue[i] = m.queue[i]
    BY <1>1, <1>3, <1>5, AppendFacts
<1>7. /\ n.who \in [Requestors -> Who] /\ n.who[r] = w
      /\ \A s \in Requestors : s # r => n.who[s] = m.who[s]
      /\ n.inbox = m.inbox /\ n.tasks = m.tasks
    BY <1>1, <1>3, <1>4
<1>8. n \in Snapshots
    BY <1>1, <1>3, <1>6, <1>7 DEF Snapshots
<1>9. \A b, i : i \in 0..L => (CancelAfter(n.queue, b, i) <=> CancelAfter(m.queue, b, i))
    BY <1>1, <1>5, <1>6, CancelAppended
<1> HIDE DEF n
<1>10. \A b \in Addresses : Owned(m, b) => b # a /\ Owned(n, b)
    <2> SUFFICES ASSUME NEW b \in Addresses, NEW s \in Requestors, m.who[s].request = b
                 PROVE  b # a /\ Owned(n, b)
        BY DEF Owned
    <2>1. s # r
        BY DefaultFileSourceAssumption
    <2> QED BY <1>2, <1>7, <2>1 DEF Owned
<1>11. \A s \in Requestors : s # r => m.who[s].request # a
    BY <1>2 DEF Owned
<1>12. Allocated(n)
    <2>1. ASSUME NEW s \in Requestors, NEW t \in Requestors, s # t, n.who[s].request # NoAddress
          PROVE  n.who[s].request # n.who[t].request
        <3>1. CASE s = r
            BY <1>4, <1>7, <1>11, <2>1, <3>1
        <3>2. CASE t = r
            BY <1>4, <1>7, <1>11, <2>1, <3>2
        <3>3. CASE s # r /\ t # r
            BY <1>7, <2>1, <3>3 DEF Follows, Allocated
        <3> QED BY <3>1, <3>2, <3>3
    <2>2. \A s \in Requestors : ~n.who[s].alive => n.who[s].request = NoAddress
        BY <1>4, <1>7 DEF Follows, Allocated
    <2> QED BY <2>1, <2>2 DEF Allocated
<1>13. \A i \in 1..L : m.queue[i].kind = "request" /\ m.queue[i].ref # Dead =>
          m.queue[i].ref # a /\ m.queue[i].ref \in Addresses
    <2> TAKE i \in 1..L
    <2> HAVE m.queue[i].kind = "request" /\ m.queue[i].ref # Dead
    <2>1. m.queue[i].ref \in Addresses
        BY <1>1 DEF Messages, Requests, Cancels, References
    <2>2. Owned(m, m.queue[i].ref)
        BY DEF Follows, Referenced
    <2> QED BY <1>2, <2>1, <2>2
<1>14. Referenced(n)
    <2>1. ASSUME NEW i \in 1..L, m.queue[i].kind = "request", m.queue[i].ref # Dead
          PROVE  /\ m.queue[i].ref = m.queue[i].addr
                 /\ Owned(n, m.queue[i].addr)
                 /\ \A j \in 1..(L + 1) : SentAt(n.queue, m.queue[i].ref, j) => i = j
                 /\ \A s \in Requestors :
                       n.who[s].request = m.queue[i].ref => m.queue[i].method = n.who[s].method
        <3> DEFINE b == m.queue[i].ref
        <3>1. /\ b = m.queue[i].addr /\ Owned(m, b)
              /\ \A j \in 1..L : SentAt(m.queue, b, j) => i = j
              /\ \A s \in Requestors : m.who[s].request = b => m.queue[i].method = m.who[s].method
            BY <2>1 DEF Follows, Referenced
        <3>2. b # a /\ b \in Addresses
            BY <1>13, <2>1
        <3> HIDE DEF b
        <3>3. Owned(n, b)
            BY <1>10, <3>1, <3>2
        <3>4. \A j \in 1..(L + 1) : SentAt(n.queue, b, j) => i = j
            <4> TAKE j \in 1..(L + 1)
            <4>1. CASE j = L + 1
                BY <1>5, <1>6, <3>2, <4>1 DEF SentAt
            <4>2. CASE j \in 1..L
                BY <1>6, <3>1, <4>2 DEF SentAt
            <4> QED BY <1>1, <4>1, <4>2
        <3>5. \A s \in Requestors : n.who[s].request = b => m.queue[i].method = n.who[s].method
            BY <1>4, <1>7, <3>1, <3>2
        <3> QED BY <3>1, <3>3, <3>4, <3>5 DEF b
    <2>2. /\ x.ref = x.addr /\ Owned(n, a)
          /\ \A j \in 1..(L + 1) : SentAt(n.queue, a, j) => j = L + 1
          /\ \A s \in Requestors : n.who[s].request = a => x.method = n.who[s].method
        <3>1. Owned(n, a)
            BY <1>4, <1>7 DEF Owned
        <3>2. ASSUME NEW j \in 1..(L + 1), SentAt(n.queue, a, j) PROVE j = L + 1
            <4>1. ~(j \in 1..L)
                BY <1>2, <1>6, <1>13, <3>2 DEF SentAt
            <4> QED BY <1>1, <4>1
        <3>3. \A s \in Requestors : n.who[s].request = a => x.method = n.who[s].method
            BY <1>4, <1>5, <1>7, <1>11
        <3> QED BY <1>5, <3>1, <3>2, <3>3
    <2>3. ASSUME NEW i \in 1..(L + 1), n.queue[i].kind = "request", n.queue[i].ref # Dead
          PROVE  /\ n.queue[i].ref = n.queue[i].addr
                 /\ Owned(n, n.queue[i].addr)
                 /\ \A j \in 1..(L + 1) : SentAt(n.queue, n.queue[i].ref, j) => i = j
                 /\ \A s \in Requestors :
                       n.who[s].request = n.queue[i].ref => n.queue[i].method = n.who[s].method
        <3>1. CASE i \in 1..L
            BY <1>6, <2>1, <2>3, <3>1
        <3>2. CASE i = L + 1
            BY <1>5, <1>6, <2>2, <3>2
        <3> QED BY <1>1, <3>1, <3>2
    <2>4. \A b \in Addresses : n.tasks[b].ref # Dead => n.tasks[b].ref = b /\ Owned(n, b)
        BY <1>7, <1>10 DEF Follows, Referenced
    <2> QED BY <1>6, <2>3, <2>4 DEF Referenced
<1>15. Cancelled(n)
    <2>1. ASSUME NEW i \in 1..(L + 1), SentAt(n.queue, Dead, i)
          PROVE  CancelAfter(n.queue, n.queue[i].addr, i)
        <3>1. i # L + 1
            BY <1>2, <1>5, <1>6, <2>1 DEF SentAt
        <3>2. i \in 1..L /\ i \in 0..L
            BY <1>1, <3>1
        <3>3. n.queue[i] = m.queue[i]
            BY <1>6, <3>2
        <3>4. CancelAfter(m.queue, m.queue[i].addr, i)
            BY <2>1, <3>2, <3>3 DEF Follows, Cancelled, SentAt
        <3> QED BY <1>9, <3>2, <3>3, <3>4
    <2>2. ASSUME NEW b \in Addresses, n.tasks[b].state # "none", n.tasks[b].ref = Dead
          PROVE  CancelAfter(n.queue, b, 0)
        <3>1. 0 \in 0..L
            BY <1>1
        <3>2. CancelAfter(m.queue, b, 0)
            BY <1>7, <2>2 DEF Follows, Cancelled
        <3> QED BY <1>9, <3>1, <3>2
    <2> QED BY <1>6, <2>1, <2>2 DEF Cancelled
<1>16. Served(n)
    <2>1. ServedAt(n, r, a)
        <3>1. L + 1 \in 1..(L + 1) /\ SentAt(n.queue, a, L + 1)
            BY <1>1, <1>5, <1>6 DEF SentAt
        <3>2. ~CancelAfter(n.queue, a, L + 1)
            BY <1>1, <1>6 DEF CancelAfter
        <3> QED BY <1>6, <3>1, <3>2 DEF ServedAt
    <2>2. ASSUME NEW s \in Requestors, s # r, n.who[s].request # NoAddress
          PROVE  ServedAt(n, s, n.who[s].request)
        <3> DEFINE b == m.who[s].request
        <3>1. n.who[s] = m.who[s] /\ b # NoAddress /\ b # a /\ b \in Addresses
            BY <1>1, <1>7, <1>11, <2>2 DEF Who
        <3>2. ServedAt(m, s, b)
            BY <3>1 DEF Follows, Served
        <3> HIDE DEF b
        <3>3. \A i \in 1..(L + 1) : SentAt(n.queue, b, i) <=> i \in 1..L /\ SentAt(m.queue, b, i)
            <4> TAKE i \in 1..(L + 1)
            <4>1. CASE i = L + 1
                BY <1>1, <1>5, <1>6, <3>1, <4>1 DEF SentAt
            <4>2. CASE i \in 1..L
                BY <1>6, <4>2 DEF SentAt
            <4> QED BY <1>1, <4>1, <4>2
        <3>4. ASSUME NEW i \in 1..L, SentAt(m.queue, b, i), ~CancelAfter(m.queue, b, i)
              PROVE  ServedAt(n, s, b)
            <4>1. i \in 1..(L + 1) /\ i \in 0..L
                BY <1>1
            <4> QED BY <1>6, <1>9, <3>3, <3>4, <4>1 DEF ServedAt
        <3>5. ASSUME \A i \in 1..L : ~SentAt(m.queue, b, i),
                     \/ m.who[s].method = "CacheOnly" /\ m.inbox[b] # <<>>
                     \/ m.tasks[b].ref = b /\ ~CancelAfter(m.queue, b, 0)
              PROVE  ServedAt(n, s, b)
            <4>1. \A i \in 1..(L + 1) : ~SentAt(n.queue, b, i)
                BY <3>3, <3>5
            <4>2. CancelAfter(n.queue, b, 0) <=> CancelAfter(m.queue, b, 0)
                <5>1. 0 \in 0..L
                    BY <1>1
                <5> QED BY <1>9, <5>1
            <4> QED BY <1>6, <1>7, <3>1, <3>5, <4>1, <4>2 DEF ServedAt
        <3>6. ServedAt(n, s, b)
            BY <3>2, <3>4, <3>5 DEF ServedAt
        <3> QED BY <3>1, <3>6 DEF b
    <2> QED BY <1>4, <1>7, <2>1, <2>2 DEF Served
<1> QED BY <1>8, <1>12, <1>14, <1>15, <1>16 DEF Follows, n

(* The members of a requestor change, but not its request. *)
LEMMA WhoFollows ==
    ASSUME NEW m, Follows(m), NEW r \in Requestors, NEW w \in Who, w.request = m.who[r].request,
           w.request # NoAddress => w.alive /\ w.method = m.who[r].method,
           NEW n \in Snapshots, n.who = [m.who EXCEPT ![r] = w],
           n.inbox = m.inbox, n.queue = m.queue, n.tasks = m.tasks
    PROVE  Follows(n)
<1>1. m.who \in [Requestors -> Who]
    BY DEF Follows, Snapshots
<1>2. \A s \in Requestors :
         /\ n.who[s].request = m.who[s].request
         /\ n.who[s].request # NoAddress => n.who[s].method = m.who[s].method
    BY <1>1
<1>3. \A b \in Addresses : Owned(m, b) => Owned(n, b)
    BY <1>2 DEF Owned
<1>4. Allocated(n)
    <2>1. \A s \in Requestors : ~n.who[s].alive => n.who[s].request = NoAddress
        BY <1>1 DEF Follows, Allocated
    <2> QED BY <1>2, <2>1 DEF Follows, Allocated
<1>5. Referenced(n)
    <2>1. ASSUME NEW i \in 1..Len(m.queue), m.queue[i].kind = "request", m.queue[i].ref # Dead
          PROVE  /\ Owned(n, m.queue[i].addr)
                 /\ \A s \in Requestors :
                       n.who[s].request = m.queue[i].ref => m.queue[i].method = n.who[s].method
        <3>1. m.queue[i].ref \in Addresses
            BY <2>1 DEF Follows, Snapshots, Messages, Requests, Cancels, References
        <3>2. m.queue[i].ref # NoAddress /\ m.queue[i].ref = m.queue[i].addr
            BY <2>1, <3>1, DefaultFileSourceAssumption DEF Follows, Referenced
        <3> QED BY <1>2, <1>3, <2>1, <3>1, <3>2 DEF Follows, Referenced
    <2>2. \A b \in Addresses : n.tasks[b].ref # Dead => n.tasks[b].ref = b /\ Owned(n, b)
        BY <1>3 DEF Follows, Referenced
    <2> QED BY <2>1, <2>2 DEF Follows, Referenced
<1>6. Cancelled(n)
    BY DEF Follows, Cancelled
<1>7. Served(n)
    BY <1>2 DEF Follows, Served, ServedAt
<1> QED BY <1>4, <1>5, <1>6, <1>7 DEF Follows

(* Requests make progress: no reply that a requestor waits for is lost. *)
LEMMA ProgressFollows ==
    ASSUME NEW m, Follows(m), NEW n \in Snapshots, n.who = m.who, n.queue = m.queue,
           \A b \in Addresses :
              /\ n.tasks[b].ref = m.tasks[b].ref
              /\ n.tasks[b].state # "none" => m.tasks[b].state # "none",
           \A s \in Requestors :
              m.who[s].request # NoAddress /\ m.who[s].method = "CacheOnly"
                 /\ m.inbox[m.who[s].request] # <<>> => n.inbox[m.who[s].request] # <<>>
    PROVE  Follows(n)
<1>1. Allocated(n)
    BY DEF Follows, Allocated
<1>2. \A b : Owned(n, b) <=> Owned(m, b)
    BY DEF Owned
<1>3. Referenced(n)
    BY <1>2 DEF Follows, Referenced
<1>4. Cancelled(n)
    BY DEF Follows, Cancelled
<1>5. Served(n)
    <2> SUFFICES ASSUME NEW s \in Requestors, m.who[s].request # NoAddress
                 PROVE  ServedAt(n, s, m.who[s].request)
        BY DEF Served
    <2>1. ServedAt(m, s, m.who[s].request) /\ m.who[s].request \in Addresses
        BY DEF Follows, Served, Snapshots, Who
    <2> QED BY <2>1 DEF ServedAt
<1> QED BY <1>1, <1>3, <1>4, <1>5 DEF Follows

(* Impl handles a message: a cancellation, a request to the cache or one to the network. *)
LEMMA HandledFollows ==
    ASSUME NEW m, Follows(m), m.queue # <<>>, NEW x, x = Head(m.queue),
           NEW n \in Snapshots, n.who = m.who, n.queue = Tail(m.queue),
           \A b \in Addresses : m.inbox[b] # <<>> => n.inbox[b] # <<>>,
           \A b \in Addresses : b # x.addr => n.tasks[b] = m.tasks[b],
           \/ x.kind = "cancel" /\ n.tasks[x.addr].state = "none" /\ n.tasks[x.addr].ref = Dead
           \/ /\ x.kind = "request" /\ x.method = "CacheOnly" /\ n.tasks[x.addr] = m.tasks[x.addr]
              /\ x.ref # Dead => n.inbox[x.ref] # <<>>
           \/ x.kind = "request" /\ x.method # "CacheOnly" /\ n.tasks[x.addr].ref = x.ref
    PROVE  Follows(n)
<1> DEFINE L == Len(m.queue)
<1>1. /\ m.queue \in Seq(Messages) /\ L \in Nat \ {0} /\ Len(n.queue) = L - 1 /\ x = m.queue[1]
      /\ x \in Messages /\ \A i \in 1..(L - 1) : n.queue[i] = m.queue[i + 1]
    <2>1. m.queue \in Seq(Messages)
        BY DEF Follows, Snapshots
    <2> QED BY <2>1, TailFacts
<1>2. x.addr \in Addresses /\ 1 \in 1..L /\ 0 \in 0..(L - 1)
    BY <1>1 DEF Messages, Requests, Cancels
<1>3. \A i \in 1..(L - 1) : i + 1 \in 1..L /\ i \in 0..(L - 1)
    BY <1>1
<1>4. \A i \in 1..L : i # 1 => i - 1 \in 1..(L - 1) /\ i - 1 + 1 = i
    BY <1>1
<1>5. ASSUME NEW b, NEW i \in 0..(L - 1)
      PROVE  CancelAfter(n.queue, b, i) <=> CancelAfter(m.queue, b, i + 1)
    <2>1. ASSUME NEW j \in 1..(L - 1), j > i, n.queue[j].kind = "cancel", n.queue[j].addr = b
          PROVE  CancelAfter(m.queue, b, i + 1)
        <3>1. j + 1 > i + 1
            BY <1>1, <2>1
        <3> QED BY <1>1, <1>3, <2>1, <3>1 DEF CancelAfter
    <2>2. ASSUME NEW j \in 1..L, j > i + 1, m.queue[j].kind = "cancel", m.queue[j].addr = b
          PROVE  CancelAfter(n.queue, b, i)
        <3>1. j - 1 > i /\ j # 1
            BY <1>1, <2>2
        <3>2. j - 1 \in 1..(L - 1) /\ n.queue[j - 1] = m.queue[j]
            BY <1>1, <1>4, <3>1
        <3> QED BY <1>1, <2>2, <3>1, <3>2 DEF CancelAfter
    <2> QED BY <1>1, <2>1, <2>2 DEF CancelAfter
<1>6. \A b : CancelAfter(n.queue, b, 0) <=> CancelAfter(m.queue, b, 1)
    BY <1>2, <1>5
<1>7. \A b : /\ CancelAfter(m.queue, b, 1) => CancelAfter(m.queue, b, 0)
             /\ CancelAfter(m.queue, b, 0) =>
                   CancelAfter(m.queue, b, 1) \/ (x.kind = "cancel" /\ x.addr = b)
    <2> TAKE b
    <2>1. CancelAfter(m.queue, b, 1) => CancelAfter(m.queue, b, 0)
        BY <1>1 DEF CancelAfter
    <2>2. ASSUME NEW j \in 1..L, m.queue[j].kind = "cancel", m.queue[j].addr = b
          PROVE  CancelAfter(m.queue, b, 1) \/ (x.kind = "cancel" /\ x.addr = b)
        <3>1. CASE j = 1
            BY <1>1, <2>2, <3>1
        <3>2. CASE j # 1
            <4>1. j > 1
                BY <1>1, <3>2
            <4> QED BY <2>2, <4>1 DEF CancelAfter
        <3> QED BY <3>1, <3>2
    <2> QED BY <2>1, <2>2 DEF CancelAfter
<1>8. \A b, i : i \in 1..(L - 1) => (SentAt(n.queue, b, i) <=> SentAt(m.queue, b, i + 1))
    BY <1>1 DEF SentAt
<1>9. \A b : Owned(n, b) <=> Owned(m, b)
    BY DEF Owned
<1>10. x.kind = "request" /\ x.ref # Dead =>
          /\ x.ref = x.addr /\ Owned(m, x.addr)
          /\ \A j \in 1..L : SentAt(m.queue, x.ref, j) => 1 = j
          /\ \A r \in Requestors : m.who[r].request = x.ref => x.method = m.who[r].method
    BY <1>1, <1>2 DEF Follows, Referenced
<1>11. x.kind = "request" /\ x.ref = Dead => CancelAfter(m.queue, x.addr, 1)
    BY <1>1, <1>2 DEF Follows, Cancelled, SentAt
<1>12. Allocated(n)
    BY DEF Follows, Allocated
<1>13. Referenced(n)
    <2>1. ASSUME NEW i \in 1..(L - 1), n.queue[i].kind = "request", n.queue[i].ref # Dead
          PROVE  /\ n.queue[i].ref = n.queue[i].addr
                 /\ Owned(n, n.queue[i].addr)
                 /\ \A j \in 1..(L - 1) : SentAt(n.queue, n.queue[i].ref, j) => i = j
                 /\ \A r \in Requestors :
                       n.who[r].request = n.queue[i].ref => n.queue[i].method = n.who[r].method
        <3>1. i + 1 \in 1..L /\ n.queue[i] = m.queue[i + 1]
            BY <1>1, <1>3
        <3>2. /\ n.queue[i].ref = n.queue[i].addr /\ Owned(m, n.queue[i].addr)
              /\ \A j \in 1..L : SentAt(m.queue, n.queue[i].ref, j) => i + 1 = j
              /\ \A r \in Requestors :
                    m.who[r].request = n.queue[i].ref => n.queue[i].method = m.who[r].method
            BY <2>1, <3>1 DEF Follows, Referenced
        <3>3. ASSUME NEW j \in 1..(L - 1), SentAt(n.queue, n.queue[i].ref, j) PROVE i = j
            <4>1. i + 1 = j + 1
                BY <1>3, <1>8, <3>2, <3>3
            <4> QED BY <1>1, <4>1
        <3> QED BY <1>9, <3>2, <3>3
    <2>2. ASSUME NEW b \in Addresses, n.tasks[b].ref # Dead
          PROVE  n.tasks[b].ref = b /\ Owned(n, b)
        <3>1. CASE n.tasks[b] = m.tasks[b]
            BY <1>9, <2>2, <3>1 DEF Follows, Referenced
        <3>2. CASE b = x.addr /\ x.kind = "request" /\ n.tasks[b].ref = x.ref
            BY <1>9, <1>10, <2>2, <3>2
        <3> QED BY <2>2, <3>1, <3>2
    <2> QED BY <1>1, <2>1, <2>2 DEF Referenced
<1>14. Cancelled(n)
    <2>1. ASSUME NEW i \in 1..(L - 1), SentAt(n.queue, Dead, i)
          PROVE  CancelAfter(n.queue, n.queue[i].addr, i)
        <3>1. i + 1 \in 1..L /\ n.queue[i] = m.queue[i + 1] /\ SentAt(m.queue, Dead, i + 1)
            BY <1>1, <1>3, <1>8, <2>1
        <3>2. CancelAfter(m.queue, n.queue[i].addr, i + 1)
            BY <3>1 DEF Follows, Cancelled
        <3> QED BY <1>3, <1>5, <3>2
    <2>2. ASSUME NEW b \in Addresses, n.tasks[b].state # "none", n.tasks[b].ref = Dead
          PROVE  CancelAfter(n.queue, b, 0)
        <3>1. CASE n.tasks[b] = m.tasks[b] /\ ~(x.kind = "cancel" /\ x.addr = b)
            <4>1. CancelAfter(m.queue, b, 0)
                BY <2>2, <3>1 DEF Follows, Cancelled
            <4> QED BY <1>6, <1>7, <3>1, <4>1
        <3>2. CASE b = x.addr /\ x.kind = "request" /\ n.tasks[b].ref = x.ref
            BY <1>6, <1>11, <2>2, <3>2
        <3> QED BY <2>2, <3>1, <3>2
    <2> QED BY <1>1, <2>1, <2>2 DEF Cancelled
<1>15. Served(n)
    <2> SUFFICES ASSUME NEW s \in Requestors, m.who[s].request # NoAddress
                 PROVE  ServedAt(n, s, m.who[s].request)
        BY DEF Served
    <2> DEFINE b == m.who[s].request
    <2>1. ServedAt(m, s, b) /\ b \in Addresses /\ b # Dead
        BY DefaultFileSourceAssumption DEF Follows, Served, Snapshots, Who
    <2>2. m.who[s].request = b
        OBVIOUS
    <2> HIDE DEF b
    <2>3. ASSUME NEW i \in 1..L, i # 1, SentAt(m.queue, b, i), ~CancelAfter(m.queue, b, i)
          PROVE  ServedAt(n, s, b)
        <3>1. i - 1 \in 1..(L - 1) /\ i - 1 + 1 = i /\ i - 1 \in 0..(L - 1)
            BY <1>1, <1>4, <2>3
        <3>2. SentAt(n.queue, b, i - 1) /\ ~CancelAfter(n.queue, b, i - 1)
            BY <1>5, <1>8, <2>3, <3>1
        <3> QED BY <1>1, <3>1, <3>2 DEF ServedAt
    <2>4. ASSUME SentAt(m.queue, b, 1), ~CancelAfter(m.queue, b, 1)
          PROVE  ServedAt(n, s, b)
        <3>1. x.kind = "request" /\ x.ref = b
            BY <1>1, <2>4 DEF SentAt
        <3>2. /\ x.addr = b /\ x.method = m.who[s].method
              /\ \A j \in 1..L : SentAt(m.queue, b, j) => 1 = j
            BY <1>10, <2>1, <2>2, <3>1
        <3>3. \A i \in 1..(L - 1) : ~SentAt(n.queue, b, i)
            <4> SUFFICES ASSUME NEW i \in 1..(L - 1), SentAt(n.queue, b, i) PROVE FALSE
                OBVIOUS
            <4>1. i + 1 = 1
                BY <1>3, <1>8, <3>2
            <4> QED BY <1>1, <4>1
        <3>4. ~CancelAfter(n.queue, b, 0)
            BY <1>6, <2>4
        <3> QED BY <1>1, <2>1, <3>1, <3>2, <3>3, <3>4 DEF ServedAt
    <2>5. ASSUME \A i \in 1..L : ~SentAt(m.queue, b, i),
                 \/ m.who[s].method = "CacheOnly" /\ m.inbox[b] # <<>>
                 \/ m.tasks[b].ref = b /\ ~CancelAfter(m.queue, b, 0)
          PROVE  ServedAt(n, s, b)
        <3>1. \A i \in 1..(L - 1) : ~SentAt(n.queue, b, i)
            BY <1>3, <1>8, <2>5
        <3>2. CASE m.who[s].method = "CacheOnly" /\ m.inbox[b] # <<>>
            BY <1>1, <2>1, <3>1, <3>2 DEF ServedAt
        <3>3. CASE m.tasks[b].ref = b /\ ~CancelAfter(m.queue, b, 0)
            <4>1. ~CancelAfter(n.queue, b, 0)
                BY <1>6, <1>7, <3>3
            <4>2. x.addr # b
                <5>1. x.addr = b => x.kind # "request"
                    BY <1>1, <1>2, <1>7, <1>10, <1>11, <2>5, <3>3, SMTT(30) DEF SentAt
                <5>2. x.addr = b => x.kind # "cancel"
                    <6> SUFFICES ASSUME x.addr = b, x.kind = "cancel" PROVE CancelAfter(m.queue, b, 0)
                        BY <3>3
                    <6>1. 1 \in 1..L /\ 1 > 0 /\ m.queue[1].kind = "cancel" /\ m.queue[1].addr = b
                        BY <1>1, <1>2
                    <6> QED BY <6>1 DEF CancelAfter
                <5> QED BY <5>1, <5>2
            <4> QED BY <1>1, <2>1, <3>1, <3>3, <4>1, <4>2 DEF ServedAt
        <3> QED BY <2>5, <3>2, <3>3
    <2>6. ServedAt(n, s, b)
        BY <2>1, <2>3, <2>4, <2>5 DEF ServedAt
    <2> QED BY <2>6 DEF b
<1> QED BY <1>12, <1>13, <1>14, <1>15 DEF Follows

----------------------------------------------------------------------------
(***************************************************************************)
(* The steps of the main thread.                                            *)
(***************************************************************************)

(* What is known of the variables. *)
LEMMA Known ==
    ASSUME IInv
    PROVE  /\ Main = [who |-> requestor, inbox |-> inbox, queue |-> queue, tasks |-> tasks]
           /\ Main \in Snapshots /\ Follows(Main) /\ Cache(db)
           /\ Main.who = requestor /\ Main.inbox = inbox /\ Main.queue = queue /\ Main.tasks = tasks
           /\ requestor \in [Requestors -> Who] /\ inbox \in [Addresses -> Seq(Responses)]
           /\ queue \in Seq(Messages) /\ tasks \in [Addresses -> Tasks]
           /\ server \in [Keys -> 1..MaxVersion] /\ Answered
           /\ \A k \in Keys : server[k] \in Versions /\ server[k] # 0
           /\ 0 \in Versions /\ NoAddress \notin Addresses /\ Dead \notin Addresses
<1>1. Main = [who |-> requestor, inbox |-> inbox, queue |-> queue, tasks |-> tasks]
    BY DEF Main
<1>2. Main \in Snapshots
    BY DEF IInv, Follows
<1>3. /\ Main.who = requestor /\ Main.inbox = inbox /\ Main.queue = queue /\ Main.tasks = tasks
      /\ requestor \in [Requestors -> Who] /\ inbox \in [Addresses -> Seq(Responses)]
      /\ queue \in Seq(Messages) /\ tasks \in [Addresses -> Tasks]
    BY <1>1, <1>2 DEF Snapshots
<1>4. server \in [Keys -> 1..MaxVersion]
    BY DEF IInv
<1>5. /\ \A k \in Keys : server[k] \in Versions /\ server[k] # 0
      /\ 0 \in Versions
    BY <1>4, DefaultFileSourceAssumption DEF Versions
<1> QED BY <1>1, <1>2, <1>3, <1>4, <1>5, DefaultFileSourceAssumption DEF IInv

(* Requestor r becomes w. *)
LEMMA WhoSet ==
    ASSUME NEW m, Follows(m), NEW r \in Requestors, NEW w \in Who, w.request = m.who[r].request,
           w.request # NoAddress => w.alive /\ w.method = m.who[r].method
    PROVE  LET n == [m EXCEPT !.who[r] = w]
           IN  Follows(n) /\ n.who[r] = w /\ n.tasks = m.tasks
<1> DEFINE n == [m EXCEPT !.who[r] = w]
<1>1. /\ m = [who |-> m.who, inbox |-> m.inbox, queue |-> m.queue, tasks |-> m.tasks]
      /\ m.who \in [Requestors -> Who] /\ m \in Snapshots
    BY DEF Follows, Snapshots
<1>2. n = [who |-> [m.who EXCEPT ![r] = w], inbox |-> m.inbox, queue |-> m.queue, tasks |-> m.tasks]
    <2>1. n = [m EXCEPT !.who = [m.who EXCEPT ![r] = w]]
        OBVIOUS
    <2> HIDE DEF n
    <2> QED BY <1>1, <2>1
<1>3. [m.who EXCEPT ![r] = w] \in [Requestors -> Who]
    BY <1>1
<1>4. n \in Snapshots
    <2> HIDE DEF n
    <2> QED BY <1>1, <1>2, <1>3 DEF Snapshots
<1>5. /\ n.who = [m.who EXCEPT ![r] = w] /\ n.inbox = m.inbox /\ n.queue = m.queue
      /\ n.tasks = m.tasks
    BY <1>2
<1> HIDE DEF n
<1>6. Follows(n)
    BY <1>4, <1>5, WhoFollows
<1>7. n.who[r] = w
    BY <1>1, <1>5
<1> QED BY <1>5, <1>6, <1>7 DEF n

(* A request is sent, and nothing happens to the online requests yet. *)
LEMMA RequestSet ==
    ASSUME NEW m, Follows(m), NEW r \in Requestors, m.who[r].request = NoAddress, m.who[r].alive,
           NEW method \in Methods, NEW a \in Freed(m)
    PROVE  LET n == Requested(m, r, method, a) IN Follows(n) /\ n.tasks = m.tasks
<1>1. m = [who |-> m.who, inbox |-> m.inbox, queue |-> m.queue, tasks |-> m.tasks]
    BY DEF Follows, Snapshots
<1>2. Requested(m, r, method, a).tasks = m.tasks
    BY <1>1 DEF Requested
<1> QED BY <1>2, RequestedFollows

(* The main thread's functions keep the answers that are on the way. *)
SameAnswers(n) ==
    \A b \in Addresses : n.tasks[b].state = tasks[b].state /\ n.tasks[b].answer = tasks[b].answer

(* A request is destroyed. *)
LEMMA ResetSet ==
    ASSUME NEW m, Follows(m), NEW r \in Requestors, NEW a, m.who[r].request = a, a # NoAddress,
           m.tasks = tasks
    PROVE  LET n == Reset(m, r)
           IN  /\ Follows(n) /\ SameAnswers(n)
               /\ n.who = [m.who EXCEPT ![r].request = NoAddress]
               /\ n.who[r].request = NoAddress
<1> DEFINE n == Reset(m, r)
<1>1. m.who[r].request # NoAddress
    OBVIOUS
<1>2. /\ Follows(n) /\ n.who = [m.who EXCEPT ![r].request = NoAddress]
      /\ \A b \in Addresses : /\ n.tasks[b].state = m.tasks[b].state
                              /\ n.tasks[b].answer = m.tasks[b].answer
    BY <1>1, ResetFollows
<1> HIDE DEF n
<1>3. SameAnswers(n)
    BY <1>2 DEF SameAnswers
<1>4. n.who[r].request = NoAddress
    <2>1. m.who \in [Requestors -> Who]
        BY DEF Follows, Snapshots
    <2> QED BY <1>2, <2>1 DEF Who
<1> QED BY <1>2, <1>3, <1>4 DEF n

LEMMA Committed ==
    ASSUME IInv, NEW n, Follows(n), SameAnswers(n), Commit(n), UNCHANGED <<db, server>>
    PROVE  IInv'
<1>1. n = [who |-> n.who, inbox |-> n.inbox, queue |-> n.queue, tasks |-> n.tasks]
    BY DEF Follows, Snapshots
<1>2. Main' = n
    BY <1>1 DEF Main, Commit
<1>3. Follows(Main)'
    BY <1>2
<1>4. Answered'
    BY Known DEF Answered, SameAnswers, Commit
<1>5. Cache(db)' /\ (server \in [Keys -> 1..MaxVersion])'
    BY DEF IInv
<1> QED BY <1>3, <1>4, <1>5 DEF IInv

LEMMA ConstructStep == ASSUME IInv, NEW r \in Requestors, Construct(r) PROVE IInv'
<1> DEFINE plain == r \in Plain
           w == [Absent EXCEPT !.alive = TRUE, !.required = plain,
                               !.since = IF plain THEN server[KeyOf[r]] ELSE 0]
           method == IF plain THEN "All" ELSE "CacheOnly"
           m == [Main EXCEPT !.who[r] = w]
<1>1. PICK a \in Freed(Main) : Commit(Requested(m, r, method, a))
    BY DEF Construct
<1>2. ~requestor[r].alive /\ UNCHANGED <<db, server>>
    BY DEF Construct
<1>3. requestor[r].request = NoAddress
    BY <1>2, Known DEF Follows, Allocated
<1>4. w \in Who /\ w.request = NoAddress /\ w.alive
    <2> DEFINE since == IF plain THEN server[KeyOf[r]] ELSE 0
    <2>1. server[KeyOf[r]] \in Versions /\ 0 \in Versions
        BY Known, DefaultFileSourceAssumption
    <2>2. since \in Versions
        BY <2>1
    <2>3. plain \in BOOLEAN
        OBVIOUS
    <2> HIDE DEF since, plain
    <2>4. w = [alive |-> TRUE, required |-> plain, method |-> "CacheOnly", etag |-> 0, prior |-> 0,
               request |-> NoAddress, data |-> 0, since |-> since]
        <3> HIDE DEF Absent
        <3>1. Absent = [alive |-> FALSE, required |-> FALSE, method |-> "CacheOnly", etag |-> 0,
                        prior |-> 0, request |-> NoAddress, data |-> 0, since |-> 0]
            BY DEF Absent
        <3>2. w = [Absent EXCEPT !.alive = TRUE, !.required = plain, !.since = since]
            BY DEF since
        <3> HIDE DEF w
        <3> QED BY <2>3, <3>1, <3>2
    <2> QED BY <2>1, <2>2, <2>3, <2>4 DEF Who, Methods
<1> HIDE DEF w
<1>5. Follows(m) /\ m.who[r] = w /\ m.tasks = tasks
    <2>1. Main.who[r].request = w.request
        BY <1>3, <1>4, Known
    <2> QED BY <1>4, <2>1, Known, WhoSet
<1>6. a \in Freed(m)
    <2>1. m.who = [requestor EXCEPT ![r] = w]
        BY Known
    <2>2. \A s \in Requestors : m.who[s].request = requestor[s].request
        BY <1>3, <1>4, <2>1, Known
    <2> HIDE DEF m
    <2> QED BY <2>2, Known DEF Freed
<1> DEFINE n == Requested(m, r, method, a)
<1>7. Follows(n) /\ n.tasks = tasks
    <2>1. method \in Methods
        BY DEF Methods
    <2> HIDE DEF m, method
    <2> QED BY <1>4, <1>5, <1>6, <2>1, RequestSet
<1> HIDE DEF m, method, n
<1>8. SameAnswers(n) /\ Commit(n)
    BY <1>1, <1>7 DEF SameAnswers, n
<1> QED BY <1>2, <1>7, <1>8, Committed

LEMMA DestroyStep == ASSUME IInv, NEW r \in Requestors, Destroy(r) PROVE IInv'
<1> DEFINE m == IF requestor[r].request = NoAddress THEN Main ELSE Reset(Main, r)
           n == [m EXCEPT !.who[r] = Absent]
<1>1. Commit(n) /\ UNCHANGED <<db, server>>
    BY DEF Destroy
<1>2. Follows(m) /\ m.who[r].request = NoAddress /\ SameAnswers(m)
    <2>1. CASE requestor[r].request = NoAddress
        BY <2>1, Known DEF SameAnswers
    <2>2. CASE requestor[r].request # NoAddress
        <3>1. /\ Main.who[r].request # NoAddress /\ Follows(Main) /\ Main.tasks = tasks
              /\ m = Reset(Main, r)
            BY <2>2, Known
        <3>2. PICK M : M = Main
            OBVIOUS
        <3>3. Follows(Reset(M, r)) /\ SameAnswers(Reset(M, r)) /\ Reset(M, r).who[r].request = NoAddress
            BY <3>1, <3>2, ResetSet
        <3> QED BY <3>1, <3>2, <3>3
    <2> QED BY <2>1, <2>2
<1>3. Absent \in Who /\ Absent.request = NoAddress
    BY Known DEF Who, Absent, Methods
<1> HIDE DEF m
<1>4. Follows(n) /\ n.tasks = m.tasks
    BY <1>2, <1>3, WhoSet
<1> HIDE DEF n
<1>5. SameAnswers(n)
    BY <1>2, <1>4 DEF SameAnswers
<1> QED BY <1>1, <1>4, <1>5, Committed

LEMMA MakeRequiredStep == ASSUME IInv, NEW r \in Requestors, MakeRequired(r) PROVE IInv'
<1> DEFINE w == [requestor[r] EXCEPT !.required = TRUE, !.since = server[KeyOf[r]]]
           m == [Main EXCEPT !.who[r] = w]
<1>1. requestor[r].alive /\ requestor[r] \in Who /\ UNCHANGED <<db, server>>
    BY Known DEF MakeRequired
<1>2. m = [Main EXCEPT !.who[r].required = TRUE, !.who[r].since = server[KeyOf[r]]]
    BY Known
<1>3. \/ requestor[r].request # NoAddress /\ Commit(m)
      \/ requestor[r].request = NoAddress
         /\ \E a \in Freed(m) : Commit(Requested(m, r, "NetworkOnly", a))
    BY <1>2 DEF MakeRequired
<1>4. /\ w \in Who /\ w.request = requestor[r].request /\ w.alive
      /\ w.method = requestor[r].method
    <2>1. server[KeyOf[r]] \in Versions
        BY Known, DefaultFileSourceAssumption
    <2> QED BY <1>1, <2>1 DEF Who
<1> HIDE DEF w
<1>5. Follows(m) /\ m.who[r] = w /\ m.tasks = tasks
    <2>1. /\ Follows(Main) /\ Main.who[r].request = w.request /\ Main.who[r].method = w.method
          /\ Main.tasks = tasks
        BY <1>4, Known
    <2> QED BY <1>4, <2>1, WhoSet
<1> HIDE DEF m
<1>6. CASE requestor[r].request # NoAddress /\ Commit(m)
    <2>1. SameAnswers(m)
        BY <1>5 DEF SameAnswers
    <2> QED BY <1>1, <1>5, <1>6, <2>1, Committed
<1>7. ASSUME NEW a \in Freed(m), requestor[r].request = NoAddress,
             Commit(Requested(m, r, "NetworkOnly", a))
      PROVE  IInv'
    <2> DEFINE n == Requested(m, r, "NetworkOnly", a)
    <2>1. Follows(n) /\ n.tasks = tasks
        BY <1>4, <1>5, <1>7, RequestSet DEF Methods
    <2> HIDE DEF n
    <2>2. SameAnswers(n) /\ Commit(n)
        BY <1>7, <2>1 DEF SameAnswers, n
    <2> QED BY <1>1, <2>1, <2>2, Committed
<1> QED BY <1>3, <1>6, <1>7

LEMMA MakeOptionalStep == ASSUME IInv, NEW r \in Requestors, MakeOptional(r) PROVE IInv'
<1> DEFINE w == [requestor[r] EXCEPT !.required = FALSE]
           m == [Main EXCEPT !.who[r] = w]
<1>1. requestor[r].alive /\ requestor[r] \in Who /\ UNCHANGED <<db, server>>
    BY Known DEF MakeOptional
<1>2. m = [Main EXCEPT !.who[r].required = FALSE]
    BY Known
<1>3. \/ requestor[r].request # NoAddress /\ Commit(Reset(m, r))
      \/ Commit(m)
    BY <1>2 DEF MakeOptional
<1>4. /\ w \in Who /\ w.request = requestor[r].request /\ w.alive
      /\ w.method = requestor[r].method
    BY <1>1 DEF Who
<1> HIDE DEF w
<1>5. Follows(m) /\ m.who[r] = w /\ m.tasks = tasks
    <2>1. /\ Follows(Main) /\ Main.who[r].request = w.request /\ Main.who[r].method = w.method
          /\ Main.tasks = tasks
        BY <1>4, Known
    <2> QED BY <1>4, <2>1, WhoSet
<1> HIDE DEF m
<1>6. CASE Commit(m)
    <2>1. SameAnswers(m)
        BY <1>5 DEF SameAnswers
    <2> QED BY <1>1, <1>5, <1>6, <2>1, Committed
<1>7. CASE requestor[r].request # NoAddress /\ Commit(Reset(m, r))
    <2>1. Follows(Reset(m, r)) /\ SameAnswers(Reset(m, r))
        BY <1>4, <1>5, <1>7, ResetSet
    <2> QED BY <1>1, <1>7, <2>1, Committed
<1> QED BY <1>3, <1>6, <1>7

LEMMA LoadedFacts ==
    ASSUME NEW w \in Who, NEW response \in Responses
    PROVE  LET l == LoadedData(w, response)
           IN  l \in Who /\ l.request = w.request /\ l.alive = w.alive /\ l.method = w.method
<1>1. response.data \in Versions /\ response.etag \in Versions
    BY DEF Responses
<1>2. [w EXCEPT !.data = response.data, !.etag = response.etag] \in Who
    BY <1>1 DEF Who
<1>3. LET l == [w EXCEPT !.data = response.data, !.etag = response.etag]
      IN  l.request = w.request /\ l.alive = w.alive /\ l.method = w.method
    BY DEF Who
<1> QED BY <1>2, <1>3 DEF LoadedData

(* A destroyed request takes its replies along. *)
LEMMA ResetForgets ==
    ASSUME NEW m, NEW k, NEW r \in Requestors, m.who = k.who, m.queue = k.queue, m.tasks = k.tasks,
           [m.inbox EXCEPT ![m.who[r].request] = <<>>] = [k.inbox EXCEPT ![k.who[r].request] = <<>>]
    PROVE  Reset(m, r) = Reset(k, r)
<1>1. ResetSilently(m, r) = ResetSilently(k, r)
    BY DEF ResetSilently
<1> QED BY <1>1 DEF Reset

LEMMA ReceiveStep == ASSUME IInv, NEW r \in Requestors, Receive(r) PROVE IInv'
<1> DEFINE addr == requestor[r].request
           response == Head(inbox[addr])
           rest == Tail(inbox[addr])
           I == [inbox EXCEPT ![addr] = rest]
           popped == [Main EXCEPT !.inbox[addr] = Tail(@)]
<1>1. /\ requestor[r].request # NoAddress /\ requestor[r] \in Who /\ UNCHANGED <<db, server>>
      /\ addr \in Addresses /\ inbox[addr] # <<>>
    BY Known DEF Receive, Who
<1>2. requestor[r].alive
    BY <1>1, Known DEF Follows, Allocated
<1>3. response \in Responses /\ rest \in Seq(Responses)
    <2>1. inbox[addr] \in Seq(Responses)
        BY <1>1, Known
    <2> QED BY <1>1, <2>1
<1>4. I \in [Addresses -> Seq(Responses)]
    BY <1>3, Known
<1>5. popped = [who |-> requestor, inbox |-> I, queue |-> queue, tasks |-> tasks]
    <2>1. popped = [Main EXCEPT !.inbox = I]
        BY Known
    <2> HIDE DEF popped, I
    <2> QED BY <2>1, Known
<1> HIDE DEF popped
<1>6. /\ popped.who = requestor /\ popped.inbox = I /\ popped.queue = queue /\ popped.tasks = tasks
      /\ popped \in Snapshots
    <2> HIDE DEF I
    <2> QED BY <1>4, <1>5, Known DEF Snapshots
<1>7. CASE requestor[r].method # "CacheOnly"
    <2> DEFINE w == LoadedData(requestor[r], response)
               n == [popped EXCEPT !.who[r] = w]
    <2>1. Commit(n)
        <3>1. Commit([popped EXCEPT !.who[r] = LoadedData(@, response)])
            BY <1>7 DEF Receive, popped
        <3>2. [popped EXCEPT !.who[r] = LoadedData(@, response)] = n
            BY <1>6
        <3> QED BY <3>1, <3>2
    <2>2. ASSUME NEW s \in Requestors, requestor[s].request # NoAddress,
                 requestor[s].method = "CacheOnly", inbox[requestor[s].request] # <<>>
          PROVE  I[requestor[s].request] # <<>>
        <3>1. requestor[s].request # addr
            BY <1>1, <1>7, <2>2, Known DEF Follows, Allocated
        <3>2. requestor[s].request \in Addresses
            BY <2>2, Known DEF Who
        <3> QED BY <1>4, <2>2, <3>1, <3>2, Known
    <2>3. Follows(popped)
        <3> HIDE DEF I
        <3> QED BY <1>6, <2>2, Known, ProgressFollows, ZenonT(60)
    <2>4. w \in Who /\ w.request = addr /\ w.alive /\ w.method = requestor[r].method
        BY <1>1, <1>2, <1>3, LoadedFacts
    <2> HIDE DEF w, addr, response
    <2>5. Follows(n) /\ n.tasks = tasks
        <3>1. popped.who[r].request = addr /\ popped.who[r].method = requestor[r].method
            BY <1>6 DEF addr
        <3> QED BY <1>6, <2>3, <2>4, <3>1, WhoSet
    <2> HIDE DEF n
    <2>6. SameAnswers(n)
        BY <2>5 DEF SameAnswers
    <2> QED BY <1>1, <2>1, <2>5, <2>6, Committed
<1>8. CASE requestor[r].method = "CacheOnly"
    <2> DEFINE freed == Reset(popped, r)
               f == [requestor[r] EXCEPT !.request = NoAddress]
               w == IF response.error = "NotFound"
                    THEN [f EXCEPT !.etag = response.etag, !.prior = response.data]
                    ELSE LoadedData(f, response)
               m == [freed EXCEPT !.who[r] = w]
    <2>1. freed = Reset(Main, r)
        <3>1. [I EXCEPT ![addr] = <<>>] = [inbox EXCEPT ![addr] = <<>>]
            BY Known
        <3> HIDE DEF I
        <3>2. PICK M : M = Main
            OBVIOUS
        <3>3. PICK P : P = popped
            OBVIOUS
        <3>4. /\ M.who = P.who /\ M.queue = P.queue /\ M.tasks = P.tasks
              /\ M.who = requestor /\ M.inbox = inbox /\ P.inbox = I /\ P.who = requestor
            BY <1>6, <3>2, <3>3, Known
        <3>5. [P.inbox EXCEPT ![P.who[r].request] = <<>>] = [M.inbox EXCEPT ![M.who[r].request] = <<>>]
            BY <3>1, <3>4
        <3>6. Reset(P, r) = Reset(M, r)
            BY <3>4, <3>5, ResetForgets
        <3> QED BY <3>2, <3>3, <3>6
    <2>2. /\ Follows(freed) /\ SameAnswers(freed)
          /\ freed.who = [requestor EXCEPT ![r].request = NoAddress]
          /\ freed.who[r].request = NoAddress
        <3>1. PICK M : M = Main
            OBVIOUS
        <3>2. M.who[r].request # NoAddress /\ Follows(M) /\ M.tasks = tasks /\ M.who = requestor
            BY <1>1, <3>1, Known
        <3>3. /\ Follows(Reset(M, r)) /\ SameAnswers(Reset(M, r))
              /\ Reset(M, r).who = [M.who EXCEPT ![r].request = NoAddress]
              /\ Reset(M, r).who[r].request = NoAddress
            BY <3>2, ResetSet
        <3> QED BY <2>1, <3>1, <3>2, <3>3
    <2> HIDE DEF freed
    <2>3. f \in Who /\ f.request = NoAddress /\ f.alive /\ freed.who[r] = f
        <3>1. f \in Who /\ f.request = NoAddress /\ f.alive
            BY <1>1, <1>2 DEF Who
        <3> QED BY <2>2, <3>1, Known
    <2>4. w \in Who /\ w.request = NoAddress /\ w.alive
        <3> HIDE DEF f
        <3>1. LET l == LoadedData(f, response)
              IN  l \in Who /\ l.request = NoAddress /\ l.alive
            BY <1>3, <2>3, LoadedFacts
        <3>2. LET l == [f EXCEPT !.etag = response.etag, !.prior = response.data]
              IN  l \in Who /\ l.request = NoAddress /\ l.alive
            <4>1. response.data \in Versions /\ response.etag \in Versions
                BY <1>3 DEF Responses
            <4> HIDE DEF response
            <4> QED BY <2>3, <4>1 DEF Who
        <3> QED BY <3>1, <3>2
    <2>5. AfterCache(m, r)
        <3> DEFINE l == [freed EXCEPT !.who[r].etag = response.etag, !.who[r].prior = response.data]
                   k == [freed EXCEPT !.who[r] = LoadedData(@, response)]
        <3>1. AfterCache(IF response.error = "NotFound" THEN l ELSE k, r)
            BY <1>8 DEF Receive, popped, freed
        <3> HIDE DEF response, f
        <3>2. response.error = "NotFound" => l = m
            BY <2>2, <2>3, Known, ZenonT(60)
        <3>3. response.error # "NotFound" => k = m
            BY <2>2, <2>3, Known
        <3> HIDE DEF l, k, m
        <3> QED BY <3>1, <3>2, <3>3
    <2> HIDE DEF w, response, addr
    <2>6. Follows(m) /\ m.who[r] = w /\ m.tasks = freed.tasks
        <3>1. w.request = freed.who[r].request /\ w.request = NoAddress
            BY <2>2, <2>4
        <3>2. Follows(freed) /\ w \in Who
            BY <2>2, <2>4
        <3> QED BY ONLY <3>1, <3>2, WhoSet, r \in Requestors DEF m
    <2> HIDE DEF m
    <2>7. SameAnswers(m)
        BY <2>2, <2>6 DEF SameAnswers
    <2>8. CASE Commit(m)
        BY <1>1, <2>6, <2>7, <2>8, Committed
    <2>9. ASSUME NEW a \in Freed(m), Commit(Requested(m, r, "NetworkOnly", a)) PROVE IInv'
        <3> DEFINE n == Requested(m, r, "NetworkOnly", a)
        <3>1. Follows(n) /\ n.tasks = m.tasks
            BY <2>4, <2>6, RequestSet DEF Methods
        <3>2. Commit(n)
            BY <2>9
        <3> HIDE DEF n
        <3>3. SameAnswers(n)
            BY <2>7, <3>1 DEF SameAnswers
        <3> QED BY <1>1, <3>1, <3>2, <3>3, Committed
    <2> QED BY <2>5, <2>8, <2>9 DEF AfterCache
<1> QED BY <1>7, <1>8

----------------------------------------------------------------------------
(***************************************************************************)
(* The steps of the file source thread.                                     *)
(***************************************************************************)

(* A step that leaves the requestors alone. *)
LEMMA Answering ==
    ASSUME IInv, UNCHANGED <<requestor, queue, server>>, Cache(db)', Answered',
           inbox' \in [Addresses -> Seq(Responses)], tasks' \in [Addresses -> Tasks],
           \A b \in Addresses : /\ tasks'[b].ref = tasks[b].ref
                                /\ tasks'[b].state # "none" => tasks[b].state # "none"
                                /\ inbox[b] # <<>> => inbox'[b] # <<>>
    PROVE  IInv'
<1> DEFINE n == [who |-> requestor, inbox |-> inbox', queue |-> queue, tasks |-> tasks']
<1>1. Main' = n
    BY DEF Main
<1>2. n \in Snapshots
    BY Known DEF Snapshots
<1>3. n.who = Main.who /\ n.queue = Main.queue
    BY Known
<1>4. \A b \in Addresses :
         /\ n.tasks[b].ref = Main.tasks[b].ref
         /\ n.tasks[b].state # "none" => Main.tasks[b].state # "none"
    BY Known
<1>5. \A s \in Requestors :
         Main.who[s].request # NoAddress /\ Main.who[s].method = "CacheOnly"
            /\ Main.inbox[Main.who[s].request] # <<>> => n.inbox[Main.who[s].request] # <<>>
    <2> TAKE s \in Requestors
    <2> HAVE Main.who[s].request # NoAddress /\ Main.who[s].method = "CacheOnly"
                /\ Main.inbox[Main.who[s].request] # <<>>
    <2>1. Main.who[s].request \in Addresses
        BY Known DEF Who
    <2> QED BY <2>1, Known
<1> HIDE DEF n
<1>6. Follows(n)
    <2>1. PICK m : m = Main
        OBVIOUS
    <2> QED BY <1>2, <1>3, <1>4, <1>5, <2>1, Known, ProgressFollows
<1>7. Follows(Main)'
    BY <1>1, <1>6
<1>8. (server \in [Keys -> 1..MaxVersion])'
    BY Known
<1> QED BY <1>7, <1>8 DEF IInv

(* Impl has handled the message x. *)
LEMMA Handling ==
    ASSUME IInv, UNCHANGED <<requestor, server>>, queue # <<>>, queue' = Tail(queue),
           NEW x, x = Head(queue), Cache(db)',
           inbox' \in [Addresses -> Seq(Responses)], tasks' \in [Addresses -> Tasks],
           \A b \in Addresses : /\ inbox[b] # <<>> => inbox'[b] # <<>>
                                /\ b # x.addr => tasks'[b] = tasks[b]
                                /\ tasks'[b].state = "asked" => tasks'[b] = tasks[b],
           \/ x.kind = "cancel" /\ tasks'[x.addr].state = "none" /\ tasks'[x.addr].ref = Dead
           \/ /\ x.kind = "request" /\ x.method = "CacheOnly" /\ tasks'[x.addr] = tasks[x.addr]
              /\ x.ref # Dead => inbox'[x.ref] # <<>>
           \/ x.kind = "request" /\ x.method # "CacheOnly" /\ tasks'[x.addr].ref = x.ref
    PROVE  IInv'
<1> DEFINE n == [who |-> requestor, inbox |-> inbox', queue |-> Tail(queue), tasks |-> tasks']
<1>1. Main' = n
    BY DEF Main
<1>2. Tail(queue) \in Seq(Messages)
    BY Known
<1>3. n \in Snapshots
    BY <1>2, Known DEF Snapshots
<1>4. /\ n.who = requestor /\ n.queue = Tail(queue) /\ n.inbox = inbox' /\ n.tasks = tasks'
    OBVIOUS
<1> HIDE DEF n
<1>5. Follows(n)
    <2>1. PICK m : m = Main
        OBVIOUS
    <2>2. /\ Follows(m) /\ m.queue # <<>> /\ x = Head(m.queue) /\ n.who = m.who
          /\ n.queue = Tail(m.queue) /\ m.inbox = inbox /\ m.tasks = tasks
        BY <1>4, <2>1, Known
    <2>3. \A b \in Addresses : m.inbox[b] # <<>> => n.inbox[b] # <<>>
        BY <1>4, <2>2
    <2>4. \A b \in Addresses : b # x.addr => n.tasks[b] = m.tasks[b]
        BY <1>4, <2>2
    <2>5. \/ x.kind = "cancel" /\ n.tasks[x.addr].state = "none" /\ n.tasks[x.addr].ref = Dead
          \/ /\ x.kind = "request" /\ x.method = "CacheOnly" /\ n.tasks[x.addr] = m.tasks[x.addr]
             /\ x.ref # Dead => n.inbox[x.ref] # <<>>
          \/ x.kind = "request" /\ x.method # "CacheOnly" /\ n.tasks[x.addr].ref = x.ref
        BY <1>4, <2>2
    <2> QED BY <1>3, <2>2, <2>3, <2>4, <2>5, HandledFollows, ZenonT(60)
<1>6. Follows(Main)'
    BY <1>1, <1>5
<1>7. Answered'
    BY Known DEF Answered
<1>8. (server \in [Keys -> 1..MaxVersion])'
    BY Known
<1> QED BY <1>6, <1>7, <1>8 DEF IInv

LEMMA RepliedFacts ==
    ASSUME IInv, NEW ref \in References, NEW response \in Responses
    PROVE  /\ Replied(ref, response) \in [Addresses -> Seq(Responses)]
           /\ \A b \in Addresses : inbox[b] # <<>> => Replied(ref, response)[b] # <<>>
           /\ ref # Dead => Replied(ref, response)[ref] # <<>>
<1>1. CASE ref = Dead
    BY <1>1, Known DEF Replied
<1>2. CASE ref # Dead
    <2> DEFINE q == Append(inbox[ref], response)
    <2>1. ref \in Addresses /\ inbox[ref] \in Seq(Responses)
        BY <1>2, Known DEF References
    <2>2. q \in Seq(Responses) /\ q # <<>>
        BY <2>1
    <2>3. Replied(ref, response) = [inbox EXCEPT ![ref] = q]
        BY <1>2 DEF Replied
    <2> HIDE DEF q
    <2> QED BY <2>1, <2>2, <2>3, Known
<1> QED BY <1>1, <1>2

LEMMA ResponseType ==
    ASSUME NEW error \in {"None", "NotFound", "Other"}, NEW notModified \in BOOLEAN,
           NEW data \in Versions, NEW etag \in Versions, NEW usable \in BOOLEAN
    PROVE  Response(error, notModified, data, etag, usable) \in Responses
<1> QED BY DEF Response, Responses

LEMMA CachedFacts ==
    ASSUME IInv, NEW k \in Keys, Stored(db, k)
    PROVE  /\ db.rows[k] \in Rows /\ Cached(db, k) \in Responses
           /\ [Cached(db, k) EXCEPT !.error = "NotFound"] \in Responses
<1>1. db.rows[k] \in Rows
    BY DEF IInv, Cache, Stored
<1>2. Cached(db, k) \in Responses
    BY <1>1, ResponseType DEF Rows, Cached
<1>3. [Cached(db, k) EXCEPT !.error = "NotFound"] \in Responses
    BY <1>2 DEF Responses
<1> QED BY <1>1, <1>2, <1>3

LEMMA ArmedFacts ==
    ASSUME NEW ref \in References, NEW key \in Keys, NEW etag \in Versions, NEW prior \in Versions
    PROVE  LET t == Armed(ref, key, etag, prior) IN t \in Tasks /\ t.ref = ref /\ t.state = "armed"
<1>1. 0 \in Versions
    BY DefaultFileSourceAssumption DEF Versions
<1> QED BY <1>1 DEF Armed, Tasks, TaskStates

LEMMA ImplStepStep == ASSUME IInv, ImplStep PROVE IInv'
<1> DEFINE x == Head(queue)
<1>1. /\ queue # <<>> /\ queue' = Tail(queue) /\ UNCHANGED <<requestor, server>>
      /\ \/ x.kind = "request" /\ RequestCacheOnly(x)
         \/ x.kind = "request" /\ RequestNetworkOnly(x)
         \/ x.kind = "request" /\ RequestAll(x)
         \/ x.kind = "cancel" /\ Cancel(x)
    BY DEF ImplStep
<1>2. x \in Messages
    BY <1>1, Known
<1> HIDE DEF x
<1>3. x.addr \in Addresses /\ (x.kind = "request" => x \in Requests)
    BY <1>2 DEF Messages, Cancels, Requests
<1>4. x.kind = "request" => /\ x.ref \in References /\ x.key \in Keys
                             /\ x.etag \in Versions /\ x.prior \in Versions
    BY <1>3 DEF Requests
<1>5. x.kind = "request" => Cache(Touched(db, x.key))
    BY <1>4, Known, TouchedFacts
<1>6. CASE x.kind = "request" /\ RequestCacheOnly(x)
    <2> DEFINE missed == Response("NotFound", FALSE, 0, 0, TRUE)
               unusable == [Cached(db, x.key) EXCEPT !.error = "NotFound"]
               response == IF ~Stored(db, x.key) THEN missed
                           ELSE IF db.rows[x.key].usable THEN Cached(db, x.key) ELSE unusable
    <2>1. inbox' = Replied(x.ref, response)
        BY <1>6 DEF RequestCacheOnly
    <2>2. response \in Responses
        <3>1. missed \in Responses
            BY ResponseType, Known
        <3>2. Stored(db, x.key) => Cached(db, x.key) \in Responses /\ unusable \in Responses
            BY <1>4, <1>6, CachedFacts
        <3> HIDE DEF missed, unusable
        <3> QED BY <3>1, <3>2
    <2> HIDE DEF response
    <2>3. /\ inbox' \in [Addresses -> Seq(Responses)]
          /\ \A b \in Addresses : inbox[b] # <<>> => inbox'[b] # <<>>
          /\ x.ref # Dead => inbox'[x.ref] # <<>>
        BY <1>4, <1>6, <2>1, <2>2, RepliedFacts
    <2>4. x.method = "CacheOnly" /\ tasks' = tasks /\ db' = Touched(db, x.key)
        BY <1>6 DEF RequestCacheOnly
    <2> QED BY <1>1, <1>3, <1>5, <1>6, <2>3, <2>4, Known, Handling DEF x
<1>7. ASSUME x.kind = "request", x.method # "CacheOnly", Cache(db'),
             inbox' \in [Addresses -> Seq(Responses)],
             \A b \in Addresses : inbox[b] # <<>> => inbox'[b] # <<>>,
             NEW etag \in Versions, NEW prior \in Versions,
             tasks' = [tasks EXCEPT ![x.addr] = Armed(x.ref, x.key, etag, prior)]
      PROVE  IInv'
    <2> DEFINE t == Armed(x.ref, x.key, etag, prior)
    <2>1. t \in Tasks /\ t.ref = x.ref /\ t.state = "armed"
        BY <1>4, <1>7, ArmedFacts
    <2> HIDE DEF t
    <2>2. /\ tasks' \in [Addresses -> Tasks] /\ tasks'[x.addr] = t
          /\ \A b \in Addresses : b # x.addr => tasks'[b] = tasks[b]
        BY <1>3, <1>7, <2>1, Known DEF t
    <2>3. \A b \in Addresses : tasks'[b].state = "asked" => tasks'[b] = tasks[b]
        BY <2>1, <2>2
    <2> QED BY <1>1, <1>3, <1>7, <2>1, <2>2, <2>3, Handling DEF x
<1>8. CASE x.kind = "request" /\ RequestNetworkOnly(x)
    <2>1. /\ x.method # "CacheOnly" /\ db' = db /\ inbox' = inbox
          /\ tasks' = [tasks EXCEPT ![x.addr] = Armed(x.ref, x.key, x.etag, x.prior)]
        BY <1>8 DEF RequestNetworkOnly
    <2> QED BY <1>4, <1>7, <1>8, <2>1, Known
<1>9. CASE x.kind = "request" /\ RequestAll(x)
    <2>1. x.method # "CacheOnly" /\ db' = Touched(db, x.key)
        BY <1>9 DEF RequestAll
    <2>2. CASE Stored(db, x.key)
        <3> DEFINE row == db.rows[x.key]
        <3>1. row \in Rows /\ Cached(db, x.key) \in Responses
            BY <1>4, <1>9, <2>2, CachedFacts
        <3>2. /\ tasks' = [tasks EXCEPT ![x.addr] = Armed(x.ref, x.key, row.etag, row.data)]
              /\ inbox' = Replied(x.ref, Cached(db, x.key)) \/ inbox' = inbox
            BY <1>9, <2>2 DEF RequestAll
        <3>3. row.etag \in Versions /\ row.data \in Versions
            BY <3>1 DEF Rows
        <3>4. /\ inbox' \in [Addresses -> Seq(Responses)]
              /\ \A b \in Addresses : inbox[b] # <<>> => inbox'[b] # <<>>
            BY <1>4, <1>9, <3>1, <3>2, RepliedFacts, Known
        <3> HIDE DEF row
        <3> QED BY <1>5, <1>7, <1>9, <2>1, <3>2, <3>3, <3>4
    <2>3. CASE ~Stored(db, x.key)
        <3>1. /\ tasks' = [tasks EXCEPT ![x.addr] = Armed(x.ref, x.key, x.etag, x.prior)]
              /\ inbox' = inbox
            BY <1>9, <2>3 DEF RequestAll
        <3> QED BY <1>4, <1>5, <1>7, <1>9, <2>1, <3>1, Known
    <2> QED BY <2>2, <2>3
<1>10. CASE x.kind = "cancel" /\ Cancel(x)
    <2>1. tasks' = [tasks EXCEPT ![x.addr] = NoTask] /\ db' = db /\ inbox' = inbox
        BY <1>10 DEF Cancel
    <2>2. NoTask \in Tasks /\ NoTask.state = "none" /\ NoTask.ref = Dead
        <3>1. (CHOOSE k \in Keys : TRUE) \in Keys
            BY OfflineDatabaseAssumption
        <3> QED BY <3>1, Known DEF NoTask, Tasks, TaskStates, References
    <2>3. /\ tasks' \in [Addresses -> Tasks] /\ tasks'[x.addr] = NoTask
          /\ \A b \in Addresses : b # x.addr => tasks'[b] = tasks[b]
        BY <1>3, <2>1, <2>2, Known
    <2>4. \A b \in Addresses : tasks'[b].state = "asked" => tasks'[b] = tasks[b]
        BY <2>2, <2>3
    <2>5. Cache(db)' /\ inbox' \in [Addresses -> Seq(Responses)]
        BY <2>1, Known
    <2> QED BY <1>1, <1>10, <2>1, <2>2, <2>3, <2>4, <2>5, Handling DEF x
<1> QED BY <1>1, <1>6, <1>8, <1>9, <1>10

LEMMA AskStep == ASSUME IInv, NEW a \in Addresses, Ask(a) PROVE IInv'
<1> DEFINE t == [tasks[a] EXCEPT !.state = "asked", !.answer = server[tasks[a].key]]
<1>1. /\ tasks[a].state = "armed" /\ tasks' = [tasks EXCEPT ![a] = t]
      /\ UNCHANGED <<requestor, inbox, queue, db, server>>
    BY Known DEF Ask
<1>2. t \in Tasks /\ t.ref = tasks[a].ref /\ t.answer # 0
    <2>1. tasks[a] \in Tasks
        BY Known
    <2>2. server[tasks[a].key] \in Versions /\ server[tasks[a].key] # 0
        BY <2>1, Known DEF Tasks
    <2> QED BY <2>1, <2>2 DEF Tasks, TaskStates
<1> HIDE DEF t
<1>3. /\ tasks' \in [Addresses -> Tasks] /\ tasks'[a] = t
      /\ \A b \in Addresses : b # a => tasks'[b] = tasks[b]
    BY <1>1, <1>2, Known
<1>4. \A b \in Addresses : /\ tasks'[b].ref = tasks[b].ref
                           /\ tasks'[b].state # "none" => tasks[b].state # "none"
                           /\ inbox[b] # <<>> => inbox'[b] # <<>>
    BY <1>1, <1>2, <1>3
<1>5. Answered'
    BY <1>2, <1>3, Known DEF Answered
<1>6. Cache(db)' /\ inbox' \in [Addresses -> Seq(Responses)]
    BY <1>1, Known
<1> QED BY <1>1, <1>3, <1>4, <1>5, <1>6, Answering

(* The response is one, and has data unless it says "not modified". *)
LEMMA ValidatedFacts ==
    ASSUME NEW t \in Tasks, t.answer # 0
    PROVE  /\ Validated(t).response \in Responses /\ Validated(t).prior \in Versions
           /\ ~Validated(t).response.notModified => Validated(t).response.data # 0
<1>1. t.answer \in Versions /\ t.etag \in Versions /\ t.prior \in Versions /\ 0 \in Versions
    BY DefaultFileSourceAssumption DEF Tasks, Versions
<1>2. CASE t.answer # t.etag
    <2> DEFINE response == Response("None", FALSE, t.answer, t.answer, TRUE)
    <2>1. Validated(t) = [response |-> response, prior |-> t.prior]
        BY <1>2 DEF Validated
    <2>2. response \in Responses /\ response.data = t.answer
        BY <1>1, ResponseType DEF Response
    <2> HIDE DEF response
    <2> QED BY <1>1, <2>1, <2>2
<1>3. CASE t.answer = t.etag /\ t.prior # 0
    <2> DEFINE response == Response("None", FALSE, t.prior, t.etag, TRUE)
    <2>1. Validated(t) = [response |-> response, prior |-> 0]
        BY <1>3 DEF Validated
    <2>2. response \in Responses /\ response.data = t.prior
        BY <1>1, ResponseType DEF Response
    <2> HIDE DEF response
    <2> QED BY <1>1, <1>3, <2>1, <2>2
<1>4. CASE t.answer = t.etag /\ t.prior = 0
    <2> DEFINE response == Response("None", TRUE, 0, t.etag, TRUE)
    <2>1. Validated(t) = [response |-> response, prior |-> 0]
        BY <1>4 DEF Validated
    <2>2. response \in Responses /\ response.notModified
        BY <1>1, ResponseType DEF Response
    <2> HIDE DEF response
    <2> QED BY <1>1, <2>1, <2>2
<1> QED BY <1>2, <1>3, <1>4

LEMMA CompleteStep == ASSUME IInv, NEW a \in Addresses, Complete(a) PROVE IInv'
<1> DEFINE done == Validated(tasks[a])
<1>1. /\ tasks[a].state = "asked" /\ UNCHANGED <<requestor, queue, server>>
      /\ db' = Put(db, tasks[a].key, done.response)
      /\ inbox' = Replied(tasks[a].ref, done.response)
    BY DEF Complete
<1>2. PICK next \in {"armed", "idle"} :
         tasks' = [tasks EXCEPT ![a].state = next, ![a].answer = 0,
                                ![a].etag = tasks[a].answer, ![a].prior = done.prior]
    BY DEF Complete
<1>3. /\ tasks[a] \in Tasks /\ tasks[a].answer # 0 /\ tasks[a].key \in Keys
      /\ tasks[a].ref \in References /\ tasks[a].answer \in Versions
    BY <1>1, Known DEF Answered, Tasks
<1>4. /\ done.response \in Responses /\ done.prior \in Versions
      /\ ~done.response.notModified => done.response.data # 0
    BY <1>3, ValidatedFacts
<1> HIDE DEF done
<1> DEFINE t == [tasks[a] EXCEPT !.state = next, !.answer = 0, !.etag = tasks[a].answer,
                                 !.prior = done.prior]
<1>5. tasks' = [tasks EXCEPT ![a] = t]
    BY <1>2, Known
<1>6. t \in Tasks /\ t.ref = tasks[a].ref /\ t.state # "asked"
    BY <1>3, <1>4, Known DEF Tasks, TaskStates
<1> HIDE DEF t
<1>7. /\ tasks' \in [Addresses -> Tasks] /\ tasks'[a] = t
      /\ \A b \in Addresses : b # a => tasks'[b] = tasks[b]
    BY <1>5, <1>6, Known
<1>8. /\ inbox' \in [Addresses -> Seq(Responses)]
      /\ \A b \in Addresses : inbox[b] # <<>> => inbox'[b] # <<>>
    BY <1>1, <1>3, <1>4, RepliedFacts
<1>9. \A b \in Addresses : /\ tasks'[b].ref = tasks[b].ref
                           /\ tasks'[b].state # "none" => tasks[b].state # "none"
                           /\ inbox[b] # <<>> => inbox'[b] # <<>>
    BY <1>1, <1>6, <1>7, <1>8
<1>10. Answered'
    BY <1>6, <1>7, Known DEF Answered
<1>11. Cache(db)'
    BY <1>1, <1>3, <1>4, Known, PutFacts
<1> QED BY <1>1, <1>7, <1>8, <1>9, <1>10, <1>11, Answering

LEMMA CompleteWithErrorStep ==
    ASSUME IInv, NEW a \in Addresses, CompleteWithError(a) PROVE IInv'
<1>0. PICK next \in {"armed", "refused"} : tasks' = [tasks EXCEPT ![a].state = next, ![a].answer = 0]
    BY DEF CompleteWithError
<1> DEFINE t == [tasks[a] EXCEPT !.state = next, !.answer = 0]
           response == Response("Other", FALSE, 0, tasks[a].etag, TRUE)
<1>1. /\ tasks[a].state = "asked" /\ UNCHANGED <<requestor, queue, db, server>>
      /\ tasks' = [tasks EXCEPT ![a] = t] /\ inbox' = Replied(tasks[a].ref, response)
    BY <1>0, Known DEF CompleteWithError
<1>2. /\ tasks[a] \in Tasks /\ tasks[a].ref \in References /\ tasks[a].etag \in Versions
    BY Known DEF Tasks
<1>3. t \in Tasks /\ t.ref = tasks[a].ref /\ t.state # "asked"
    BY <1>2, Known DEF Tasks, TaskStates
<1>4. response \in Responses
    BY <1>2, Known, ResponseType
<1> HIDE DEF t, response
<1>5. /\ tasks' \in [Addresses -> Tasks] /\ tasks'[a] = t
      /\ \A b \in Addresses : b # a => tasks'[b] = tasks[b]
    BY <1>1, <1>3, Known
<1>6. /\ inbox' \in [Addresses -> Seq(Responses)]
      /\ \A b \in Addresses : inbox[b] # <<>> => inbox'[b] # <<>>
    BY <1>1, <1>2, <1>4, RepliedFacts
<1>7. \A b \in Addresses : /\ tasks'[b].ref = tasks[b].ref
                           /\ tasks'[b].state # "none" => tasks[b].state # "none"
                           /\ inbox[b] # <<>> => inbox'[b] # <<>>
    BY <1>1, <1>3, <1>5, <1>6
<1>8. Answered'
    BY <1>3, <1>5, Known DEF Answered
<1>9. Cache(db)'
    BY <1>1, Known
<1> QED BY <1>1, <1>5, <1>6, <1>7, <1>8, <1>9, Answering

----------------------------------------------------------------------------
(***************************************************************************)
(* The steps of the environment, and the invariant.                         *)
(***************************************************************************)
LEMMA ServerChangesStep == ASSUME IInv, NEW k \in Keys, ServerChanges(k) PROVE IInv'
<1>1. /\ UNCHANGED <<requestor, inbox, queue, tasks, db>>
      /\ server[k] < MaxVersion /\ server' = [server EXCEPT ![k] = @ + 1]
    BY DEF ServerChanges
<1>2. server' \in [Keys -> 1..MaxVersion]
    <2>1. server[k] + 1 \in 1..MaxVersion
        BY <1>1, Known, DefaultFileSourceAssumption
    <2> QED BY <1>1, <2>1, Known
<1>3. Follows(Main)' /\ Cache(db)' /\ Answered'
    <2>1. Main' = Main
        BY <1>1 DEF Main
    <2> QED BY <1>1, <2>1, Known DEF Answered
<1> QED BY <1>2, <1>3 DEF IInv

LEMMA RowExpiresStep == ASSUME IInv, NEW k \in Keys, RowExpires(k) PROVE IInv'
<1> DEFINE row == [db.rows[k] EXCEPT !.usable = FALSE]
           rows == [db.rows EXCEPT ![k] = row]
<1>1. /\ UNCHANGED <<requestor, inbox, queue, tasks, server>> /\ k \in DOMAIN db.rows
      /\ db' = [db EXCEPT !.rows[k].usable = FALSE]
    BY DEF RowExpires, Stored
<1>2. /\ db.rows \in [DOMAIN db.rows -> Rows] /\ db.accessed \in Orders(DOMAIN db.rows)
      /\ DOMAIN db.rows \subseteq Keys /\ RegionKeys \subseteq DOMAIN db.rows
      /\ Cardinality(DOMAIN db.rows) =< MaxRows
    BY Known DEF Cache
<1>3. row \in Rows
    BY <1>1, <1>2 DEF Rows
<1>4. db' = [db EXCEPT !.rows = rows]
    BY <1>1
<1> HIDE DEF row
<1>5. rows \in [DOMAIN db.rows -> Rows]
    BY <1>1, <1>2, <1>3
<1> HIDE DEF rows
<1>6. Cache(db')
    BY <1>2, <1>4, <1>5 DEF Cache
<1>7. Follows(Main)' /\ Answered' /\ (server \in [Keys -> 1..MaxVersion])'
    <2>1. Main' = Main
        BY <1>1 DEF Main
    <2> QED BY <1>1, <2>1, Known DEF Answered
<1> QED BY <1>6, <1>7 DEF IInv

LEMMA InitIInv == Init => IInv
<1> SUFFICES ASSUME Init PROVE IInv
    OBVIOUS
<1>1. /\ requestor = [r \in Requestors |-> Absent] /\ inbox = [a \in Addresses |-> <<>>]
      /\ queue = <<>> /\ tasks = [a \in Addresses |-> NoTask] /\ server = [k \in Keys |-> 1]
    BY DEF Init
<1>2. 0 \in Versions /\ 1 \in Versions /\ 1 \in 1..MaxVersion
    BY DefaultFileSourceAssumption DEF Versions
<1>3. Absent \in Who /\ Absent.request = NoAddress
    BY <1>2 DEF Absent, Who, Methods
<1>4. NoTask \in Tasks /\ NoTask.state = "none" /\ NoTask.ref = Dead
    <2>1. (CHOOSE k \in Keys : TRUE) \in Keys
        BY OfflineDatabaseAssumption
    <2> QED BY <1>2, <2>1 DEF NoTask, Tasks, TaskStates, References
<1>5. Follows(Main)
    <2>1. Main = [who |-> requestor, inbox |-> inbox, queue |-> queue, tasks |-> tasks]
        BY DEF Main
    <2>2. requestor \in [Requestors -> Who] /\ \A r \in Requestors : requestor[r].request = NoAddress
        BY <1>1, <1>3
    <2>3. tasks \in [Addresses -> Tasks]
          /\ \A a \in Addresses : tasks[a].state = "none" /\ tasks[a].ref = Dead
        BY <1>1, <1>4
    <2>4. inbox \in [Addresses -> Seq(Responses)] /\ queue \in Seq(Messages) /\ Len(queue) = 0
        BY <1>1
    <2>5. Main \in Snapshots
        BY <2>1, <2>2, <2>3, <2>4 DEF Snapshots
    <2>6. Main.who = requestor /\ Main.queue = queue /\ Main.tasks = tasks
        BY <2>1
    <2>7. Allocated(Main) /\ Served(Main)
        BY <2>2, <2>6 DEF Allocated, Served
    <2>8. Referenced(Main) /\ Cancelled(Main)
        <3>1. 1..Len(queue) = {}
            BY <2>4
        <3> QED BY <2>3, <2>6, <3>1 DEF Referenced, Cancelled
    <2> QED BY <2>5, <2>7, <2>8 DEF Follows
<1>6. Cache(db)
    <2>0. PICK stored \in {S \in SUBSET Keys : RegionKeys \subseteq S /\ Cardinality(S) =< MaxRows} :
             \E usable \in SUBSET stored, accessed \in Orders(stored) :
                db = [rows |-> [k \in stored |-> Row(1, 1, k \in usable)], accessed |-> accessed]
        BY DEF Init
    <2>1. PICK usable \in SUBSET stored, accessed \in Orders(stored) :
             db = [rows |-> [k \in stored |-> Row(1, 1, k \in usable)], accessed |-> accessed]
        BY <2>0
    <2>2. ASSUME NEW k \in stored PROVE Row(1, 1, k \in usable) \in Rows
        <3> DEFINE u == k \in usable
        <3>1. u \in BOOLEAN
            OBVIOUS
        <3> HIDE DEF u
        <3>2. Row(1, 1, u) \in Rows
            BY <1>2, <3>1 DEF Row, Rows
        <3> QED BY <3>2 DEF u
    <2> DEFINE rows == [k \in stored |-> Row(1, 1, k \in usable)]
    <2>3. rows \in [stored -> Rows] /\ DOMAIN rows = stored
        BY <2>2
    <2> HIDE DEF rows
    <2>4. db.rows = rows /\ db.accessed = accessed
        BY <2>1 DEF rows
    <2> QED BY <2>3, <2>4 DEF Cache
<1>7. Answered
    BY <1>1, <1>4 DEF Answered
<1>8. server \in [Keys -> 1..MaxVersion]
    BY <1>1, <1>2
<1> QED BY <1>5, <1>6, <1>7, <1>8 DEF IInv

LEMMA NextIInv == IInv /\ [Next]_vars => IInv'
<1> SUFFICES ASSUME IInv, [Next]_vars PROVE IInv'
    OBVIOUS
<1>1. ASSUME NEW r \in Requestors,
             Construct(r) \/ Destroy(r) \/ MakeRequired(r) \/ MakeOptional(r) \/ Receive(r)
      PROVE  IInv'
    BY <1>1, ConstructStep, DestroyStep, MakeRequiredStep, MakeOptionalStep, ReceiveStep
<1>2. CASE ImplStep
    BY <1>2, ImplStepStep
<1>3. ASSUME NEW a \in Addresses, Ask(a) \/ Complete(a) \/ CompleteWithError(a)
      PROVE  IInv'
    BY <1>3, AskStep, CompleteStep, CompleteWithErrorStep
<1>4. ASSUME NEW k \in Keys, ServerChanges(k) \/ RowExpires(k) PROVE IInv'
    BY <1>4, ServerChangesStep, RowExpiresStep
<1>5. CASE UNCHANGED vars
    <2>1. Main' = Main /\ UNCHANGED <<tasks, db, server>>
        BY <1>5 DEF vars, Main
    <2> QED BY <2>1 DEF IInv, Answered
<1> QED BY <1>1, <1>2, <1>3, <1>4, <1>5 DEF Next

(* The requests of the main thread, the messages between the threads, the online requests and *)
(* the cache fit together in every reachable state.                                            *)
THEOREM Invariant == Spec => []IInv
<1>1. Init => IInv
    BY InitIInv
<1>2. IInv /\ [Next]_vars => IInv'
    BY NextIInv
<1> QED BY <1>1, <1>2, PTL DEF Spec

(* Every variable has its type, the rows of offline regions are never evicted, and the cache   *)
(* never grows beyond its size, whatever is stored, refreshed, touched and evicted.            *)
THEOREM TypeCorrect == Spec => []TypeOK
<1>1. IInv => TypeOK
    <2> SUFFICES ASSUME IInv PROVE TypeOK
        OBVIOUS
    <2>1. \A i \in DOMAIN queue : queue[i] \in Messages
        BY Known
    <2>2. \A i \in DOMAIN queue :
             \/ queue[i] \in [kind : {"cancel"}, addr : Addresses, ref : {Dead}]
             \/ queue[i] \in [kind : {"request"}, addr : Addresses, ref : References, key : Keys,
                              method : {"CacheOnly", "NetworkOnly", "All"},
                              etag : Versions, prior : Versions]
        BY <2>1 DEF Messages, Cancels, Requests, Methods
    <2>3. requestor \in [Requestors -> [alive : BOOLEAN, required : BOOLEAN,
                                        method : {"CacheOnly", "NetworkOnly", "All"},
                                        etag : Versions, prior : Versions,
                                        request : Addresses \cup {NoAddress},
                                        data : Versions, since : Versions]]
        BY Known DEF Who, Methods
    <2>4. tasks \in [Addresses -> [ref : References, state : TaskStates,
                                   key : Keys, etag : Versions, prior : Versions, answer : Versions]]
        BY Known DEF Tasks, TaskStates
    <2>5. /\ DOMAIN db.rows \in SUBSET Keys
          /\ db.rows \in [DOMAIN db.rows -> [data : Versions, etag : Versions, usable : BOOLEAN]]
          /\ db.accessed \in Orders(DOMAIN db.rows)
          /\ CacheKept
        BY Known DEF Cache, Rows, CacheKept
    <2>6. inbox \in [Addresses -> Seq(Responses)] /\ server \in [Keys -> 1..MaxVersion]
        BY Known
    <2> QED BY <2>2, <2>3, <2>4, <2>5, <2>6 DEF TypeOK
<1> QED BY <1>1, Invariant, PTL

(* Impl knows the requests of the main thread by addresses only, which are reused at once:     *)
(* nevertheless no request is lost or cancelled in another's place, and the online request of  *)
(* one that is gone is about to be cancelled.                                                  *)
THEOREM RequestsAreFollowed == Spec => []TasksFollowRequests
<1>1. IInv => TasksFollowRequests
    <2> SUFFICES ASSUME IInv PROVE TasksFollowRequests
        OBVIOUS
    <2>1. DOMAIN queue = 1..Len(queue)
        BY Known
    <2>2. ASSUME NEW a, NEW i PROVE Waiting("cancel", a, i) <=> CancelAfter(queue, a, i)
        BY <2>1 DEF Waiting, CancelAfter
    <2>3. ASSUME NEW a, NEW i \in 1..Len(queue) PROVE i \in Sent(a) <=> SentAt(queue, a, i)
        BY <2>1 DEF Sent, SentAt
    <2>4. ASSUME NEW a PROVE Sent(a) \subseteq 1..Len(queue)
        BY <2>1 DEF Sent
    <2>5. ASSUME NEW r \in Requestors, requestor[r].request # NoAddress, NEW a,
                 a = requestor[r].request
          PROVE  \/ \E i \in Sent(a) : ~Waiting("cancel", a, i)
                 \/ Sent(a) = {} /\ requestor[r].method = "CacheOnly" /\ inbox[a] # <<>>
                 \/ Sent(a) = {} /\ tasks[a].ref = a /\ ~Waiting("cancel", a, 0)
        <3>1. ServedAt(Main, r, a)
            BY <2>5, Known DEF Follows, Served
        <3>2. CASE \E i \in 1..Len(queue) : SentAt(queue, a, i) /\ ~CancelAfter(queue, a, i)
            BY <2>2, <2>3, <3>2
        <3>3. CASE /\ \A i \in 1..Len(queue) : ~SentAt(queue, a, i)
                   /\ \/ requestor[r].method = "CacheOnly" /\ inbox[a] # <<>>
                      \/ tasks[a].ref = a /\ ~CancelAfter(queue, a, 0)
            <4>1. Sent(a) = {}
                BY <2>3, <2>4, <3>3
            <4> QED BY <2>2, <3>3, <4>1
        <3> QED BY <3>1, <3>2, <3>3, Known DEF ServedAt
    <2>6. \A a \in Addresses : tasks[a].state # "none" /\ tasks[a].ref = Dead => Waiting("cancel", a, 0)
        BY <2>2, Known DEF Follows, Cancelled
    <2> QED BY <2>5, <2>6 DEF TasksFollowRequests
<1> QED BY <1>1, Invariant, PTL

----------------------------------------------------------------------------
(***************************************************************************)
(* What a tile shows never goes back, if the resources that change are      *)
(* those of TileLoaders and may be shown while they are revalidated.        *)
(*                                                                          *)
(* "s" is what the server has.  The versions in flight are bounded by it,   *)
(* and those on the way to a requestor are in order: what it has, the       *)
(* responses in its mailbox, and the answer of the server to its online     *)
(* request.  No priorData is kept for a resource that changes.              *)
(***************************************************************************)
ChangesOfTiles == \A k \in Changing : k \notin MustRevalidate /\ \A r \in Plain : KeyOf[r] # k

Bears(x) == x.error = "None" /\ ~x.notModified

MessageOK(s, x, who) ==
    x.kind = "request" =>
        /\ x.prior =< s[x.key]
        /\ x.key \in Changing => x.prior = 0 /\ x.method # "All"
        /\ \A r \in Requestors : x.ref # Dead /\ who[r].request = x.ref => x.key = KeyOf[r]

TaskOK(s, t, who) ==
    /\ t.prior =< s[t.key]
    /\ t.key \in Changing => t.prior = 0
    /\ t.state = "asked" => t.answer =< s[t.key]
    /\ \A r \in Requestors : t.ref # Dead /\ who[r].request = t.ref => t.key = KeyOf[r]

HolderOK(s, r, w) ==
    /\ w.data =< s[KeyOf[r]] /\ w.prior =< s[KeyOf[r]]
    /\ KeyOf[r] \in Changing => w.prior = 0

(* A reply to r, which has asked with this method. *)
ReplyOK(s, r, method, x) ==
    /\ Bears(x) => x.data \in 1..s[KeyOf[r]]
    /\ x.error = "NotFound" =>
          /\ method = "CacheOnly" /\ x.data =< s[KeyOf[r]]
          /\ KeyOf[r] \in Changing => x.data = 0

Ascending(box) ==
    \A i, j \in 1..Len(box) : i < j /\ Bears(box[i]) /\ Bears(box[j]) => box[i].data =< box[j].data

Follow(box, data) == \A j \in 1..Len(box) : Bears(box[j]) => data =< box[j].data
Precede(box, data) == \A j \in 1..Len(box) : Bears(box[j]) => box[j].data =< data

TrailOK(r, w, box, t) ==
    /\ w.method = "CacheOnly" => w.data = 0
    /\ w.method # "CacheOnly" /\ KeyOf[r] \in Changing =>
          /\ Follow(box, w.data) /\ Ascending(box)
          /\ t.ref # Dead /\ t.state = "asked" => w.data =< t.answer /\ Precede(box, t.answer)

Expecting(s, m, r) ==
    LET a == m.who[r].request
    IN /\ \A j \in 1..Len(m.inbox[a]) : ReplyOK(s, r, m.who[r].method, m.inbox[a][j])
       /\ TrailOK(r, m.who[r], m.inbox[a], m.tasks[a])

InFlight(s, m) ==
    /\ \A i \in 1..Len(m.queue) : MessageOK(s, m.queue[i], m.who)
    /\ \A a \in Addresses : TaskOK(s, m.tasks[a], m.who)
    /\ \A r \in Requestors : HolderOK(s, r, m.who[r])
    /\ \A r \in Requestors : m.who[r].request # NoAddress => Expecting(s, m, r)
    /\ \A a \in Addresses : ~Owned(m, a) => m.inbox[a] = <<>>

RowsOK(s, d) ==
    \A k \in DOMAIN d.rows : d.rows[k].data \in 1..s[k] /\ (k \in Changing => d.rows[k].usable)

Steady(s) == \A k \in Keys \ Changing : s[k] = 1

VersionInv == InFlight(server, Main) /\ RowsOK(server, db) /\ Steady(server)

(* Storing, touching and evicting leave the versions of the rows alone. *)
LEMMA WithoutVersions ==
    ASSUME NEW s, NEW d, RowsOK(s, d), NEW gone
    PROVE  RowsOK(s, Without(d, gone))
<1> DEFINE kept == DOMAIN d.rows \ gone
           rows == [k \in kept |-> d.rows[k]]
<1>1. Without(d, gone).rows = rows
    BY DEF Without
<1>2. DOMAIN rows = kept /\ \A k \in kept : rows[k] = d.rows[k]
    OBVIOUS
<1>3. kept \subseteq DOMAIN d.rows
    OBVIOUS
<1> HIDE DEF rows, kept
<1> QED BY <1>1, <1>2, <1>3 DEF RowsOK

LEMMA WithRowVersions ==
    ASSUME NEW s, NEW d, RowsOK(s, d), NEW k, NEW row,
           row.data \in 1..s[k], k \in Changing => row.usable
    PROVE  RowsOK(s, WithRow(d, k, row))
<1> DEFINE all == DOMAIN d.rows \cup {k}
           rows == [j \in all |-> IF j = k THEN row ELSE d.rows[j]]
<1>1. WithRow(d, k, row).rows = rows
    BY DEF WithRow
<1>2. DOMAIN rows = all /\ rows[k] = row /\ \A j \in all \ {k} : rows[j] = d.rows[j]
    OBVIOUS
<1>3. all \ {k} \subseteq DOMAIN d.rows
    OBVIOUS
<1> HIDE DEF rows, all
<1>4. ASSUME NEW j \in all
      PROVE  rows[j].data \in 1..s[j] /\ (j \in Changing => rows[j].usable)
    BY <1>2, <1>3 DEF RowsOK
<1> QED BY <1>1, <1>2, <1>4 DEF RowsOK

LEMMA TouchedVersions ==
    ASSUME NEW s, NEW d, RowsOK(s, d), NEW k
    PROVE  RowsOK(s, Touched(d, k))
<1>1. CASE ~Stored(d, k)
    BY <1>1 DEF Touched
<1>2. CASE Stored(d, k)
    <2>1. d.rows[k].data \in 1..s[k] /\ (k \in Changing => d.rows[k].usable)
        BY <1>2 DEF Stored, RowsOK
    <2>2. RowsOK(s, WithRow(d, k, d.rows[k]))
        BY <2>1, WithRowVersions
    <2> QED BY <1>2, <2>2 DEF Touched
<1> QED BY <1>1, <1>2

LEMMA PutVersions ==
    ASSUME NEW s, NEW d, Cache(d), RowsOK(s, d), NEW k \in Keys, NEW response \in Responses,
           response.usable, Bears(response) => response.data \in 1..s[k]
    PROVE  RowsOK(s, Put(d, k, response))
<1> DEFINE room == Evicted(d, IF response.data = 0 THEN 0 ELSE 1)
<1>1. RowsOK(s, room.db) /\ Cache(room.db)
    <2> DEFINE needed == IF response.data = 0 THEN 0 ELSE 1
    <2>1. \E gone : room.db = Without(d, gone)
        BY DEF Evicted
    <2>2. needed \in Nat
        OBVIOUS
    <2>3. Cache(Evicted(d, needed).db)
        <3> HIDE DEF needed
        <3> QED BY <2>2, EvictedFacts
    <2> QED BY <2>1, <2>3, WithoutVersions
<1> DEFINE kept == [room.db.rows[k] EXCEPT !.usable = response.usable]
           new == Row(response.data, response.etag, response.usable)
<1>2. \/ Put(d, k, response) = d
      \/ Put(d, k, response) = room.db
      \/ Stored(room.db, k) /\ Put(d, k, response) = WithRow(room.db, k, kept)
      \/ Bears(response) /\ Put(d, k, response) = WithRow(room.db, k, new)
    <2>1. response.notModified \in BOOLEAN
        BY DEF Responses
    <2> HIDE DEF room, kept, new
    <2>2. /\ response.error # "None" => Put(d, k, response) = d
          /\ response.error = "None" /\ ~room.fits => Put(d, k, response) = room.db
          /\ response.error = "None" /\ room.fits /\ response.notModified =>
                Put(d, k, response) = IF Stored(room.db, k) THEN WithRow(room.db, k, kept) ELSE room.db
          /\ response.error = "None" /\ room.fits /\ ~response.notModified =>
                Put(d, k, response) = WithRow(room.db, k, new)
        <3> USE DEF room, kept, new
        <3> QED BY DEF Put
    <2> QED BY <2>1, <2>2 DEF Bears
<1>3. CASE Stored(room.db, k) /\ Put(d, k, response) = WithRow(room.db, k, kept)
    <2> HIDE DEF room
    <2>1. room.db.rows[k] \in Rows /\ room.db.rows[k].data \in 1..s[k]
        BY <1>1, <1>3 DEF Stored, Cache, RowsOK
    <2>2. kept.data = room.db.rows[k].data /\ kept.usable = response.usable
        BY <2>1 DEF Rows
    <2> HIDE DEF kept
    <2> QED BY <1>1, <1>3, <2>1, <2>2, WithRowVersions
<1>4. CASE Bears(response) /\ Put(d, k, response) = WithRow(room.db, k, new)
    <2>1. new.data = response.data /\ new.usable = response.usable
        BY DEF Row
    <2> HIDE DEF room, new
    <2> QED BY <1>1, <1>4, <2>1, WithRowVersions
<1> HIDE DEF room, kept, new
<1> QED BY <1>1, <1>2, <1>3, <1>4

LEMMA ExpectingSame ==
    ASSUME NEW s, NEW m, NEW n, NEW r, Expecting(s, m, r), n.who[r].request = m.who[r].request,
           n.who[r].method = m.who[r].method, n.who[r].data = m.who[r].data,
           n.inbox[m.who[r].request] = m.inbox[m.who[r].request],
           \/ n.tasks[m.who[r].request] = m.tasks[m.who[r].request]
           \/ n.tasks[m.who[r].request].ref = Dead
           \/ n.tasks[m.who[r].request].state # "asked"
    PROVE  Expecting(s, n, r)
<1> DEFINE a == m.who[r].request
           box == m.inbox[a]
<1>1. TrailOK(r, n.who[r], box, n.tasks[a])
    <2>1. TrailOK(r, m.who[r], box, m.tasks[a])
        BY DEF Expecting
    <2> HIDE DEF box, a
    <2> QED BY <2>1 DEF TrailOK, a
<1>2. \A j \in 1..Len(box) : ReplyOK(s, r, n.who[r].method, box[j])
    BY DEF Expecting
<1> QED BY <1>1, <1>2 DEF Expecting

(* A requestor changes, but not its request. *)
LEMMA HolderSet ==
    ASSUME NEW s, NEW m, Follows(m), InFlight(s, m), NEW r \in Requestors, NEW w \in Who,
           w.request = m.who[r].request, HolderOK(s, r, w),
           w.request # NoAddress => w.method = m.who[r].method /\ w.data = m.who[r].data
    PROVE  InFlight(s, [m EXCEPT !.who[r] = w])
<1> DEFINE W == [m.who EXCEPT ![r] = w]
           n == [m EXCEPT !.who[r] = w]
<1>1. /\ m = [who |-> m.who, inbox |-> m.inbox, queue |-> m.queue, tasks |-> m.tasks]
      /\ m.who \in [Requestors -> Who]
    BY DEF Follows, Snapshots
<1>2. /\ n.who = W /\ n.inbox = m.inbox /\ n.queue = m.queue /\ n.tasks = m.tasks
    BY <1>1
<1>3. W[r] = w /\ \A q \in Requestors : q # r => W[q] = m.who[q]
    BY <1>1
<1>4. \A q \in Requestors : W[q].request = m.who[q].request
    BY <1>3
<1> HIDE DEF n, W
<1>5. \A x : MessageOK(s, x, m.who) => MessageOK(s, x, n.who)
    BY <1>2, <1>4 DEF MessageOK
<1>6. \A x : TaskOK(s, x, m.who) => TaskOK(s, x, n.who)
    BY <1>2, <1>4 DEF TaskOK
<1>7. \A q \in Requestors : HolderOK(s, q, n.who[q])
    BY <1>2, <1>3 DEF InFlight
<1>8. ASSUME NEW q \in Requestors, n.who[q].request # NoAddress PROVE Expecting(s, n, q)
    <2>1. m.who[q].request # NoAddress /\ Expecting(s, m, q)
        BY <1>2, <1>4, <1>8 DEF InFlight
    <2>2. n.who[q].method = m.who[q].method /\ n.who[q].data = m.who[q].data
        BY <1>2, <1>3, <1>8
    <2> QED BY <1>2, <1>4, <2>1, <2>2, ExpectingSame
<1>9. \A a \in Addresses : Owned(m, a) <=> Owned(n, a)
    BY <1>2, <1>4 DEF Owned
<1>10. InFlight(s, n)
    BY <1>2, <1>5, <1>6, <1>7, <1>8, <1>9 DEF InFlight
<1> QED BY <1>10 DEF n

(* A requestor's request is destroyed. *)
LEMMA ResetInFlight ==
    ASSUME NEW s, NEW m, Follows(m), InFlight(s, m), NEW r \in Requestors, m.who[r].request # NoAddress
    PROVE  InFlight(s, Reset(m, r))
<1> DEFINE a == m.who[r].request
           Forget(ref) == IF ref = a THEN Dead ELSE ref
           q == [i \in DOMAIN m.queue |-> [m.queue[i] EXCEPT !.ref = Forget(@)]]
           x == [kind |-> "cancel", addr |-> a, ref |-> Dead]
           n == Reset(m, r)
           L == Len(m.queue)
           w == [m.who[r] EXCEPT !.request = NoAddress]
           W == [m.who EXCEPT ![r] = w]
           I == [m.inbox EXCEPT ![a] = <<>>]
           T == [b \in Addresses |-> [m.tasks[b] EXCEPT !.ref = Forget(@)]]
<1>1. /\ m.who \in [Requestors -> Who] /\ m.inbox \in [Addresses -> Seq(Responses)]
      /\ m.queue \in Seq(Messages) /\ m.tasks \in [Addresses -> Tasks] /\ L \in Nat
      /\ DOMAIN m.queue = 1..L
      /\ \A i \in 1..L : m.queue[i] \in Messages
    BY DEF Follows, Snapshots
<1>2. a \in Addresses /\ a # Dead /\ NoAddress \notin Addresses
    BY <1>1, DefaultFileSourceAssumption DEF Who
<1>3. n = [who |-> W, inbox |-> I, queue |-> Append(q, x), tasks |-> T]
    <2>1. ResetSilently(m, r) = [who |-> W, inbox |-> I, queue |-> q, tasks |-> T]
        BY DEF ResetSilently
    <2>2. n = [ResetSilently(m, r) EXCEPT !.queue = Append(@, x)]
        BY DEF Reset
    <2> HIDE DEF q, x, n, W, I, T
    <2> QED BY <2>1, <2>2, SMTT(30)
<1>4. n.who = W /\ n.inbox = I /\ n.queue = Append(q, x) /\ n.tasks = T
    <2> HIDE DEF q, x, n, W, I, T
    <2> QED BY <1>3
<1>5. /\ W[r].request = NoAddress /\ W[r].data = m.who[r].data /\ W[r].prior = m.who[r].prior
      /\ \A p \in Requestors : p # r => W[p] = m.who[p]
    BY <1>1 DEF Who
<1>6. \A p \in Requestors : p # r /\ m.who[p].request # NoAddress =>
         m.who[p].request # a /\ m.who[p].request \in Addresses
    BY <1>1, <1>2 DEF Follows, Allocated, Who
<1>7. ASSUME NEW i \in 1..L PROVE MessageOK(s, q[i], W)
    <2>1. MessageOK(s, m.queue[i], m.who) /\ m.queue[i] \in Messages
        BY <1>1 DEF InFlight
    <2>2. q[i] = [m.queue[i] EXCEPT !.ref = Forget(m.queue[i].ref)]
        BY <1>1
    <2> DEFINE y == m.queue[i]
               z == q[i]
    <2>3. CASE y \in Requests
        <3>1. /\ z.kind = y.kind /\ z.prior = y.prior /\ z.key = y.key /\ z.method = y.method
              /\ z.ref = Forget(y.ref)
            <4> HIDE DEF z
            <4> QED BY <2>2, <2>3 DEF z, Requests
        <3> HIDE DEF y, z, W
        <3>2. ASSUME NEW p \in Requestors, z.ref # Dead, W[p].request = z.ref
              PROVE  y.ref # Dead /\ m.who[p].request = y.ref
            <4>1. y.ref # a /\ z.ref = y.ref
                BY <3>1, <3>2
            <4>2. y.ref \in Addresses
                BY <2>3, <3>2, <4>1 DEF Requests, References
            <4>3. p # r
                BY <1>2, <1>5, <3>2, <4>1, <4>2
            <4> QED BY <1>5, <3>2, <4>1, <4>3
        <3> QED BY <2>1, <3>1, <3>2 DEF MessageOK, y, z
    <2>4. CASE y \in Cancels
        <3>1. z.kind = "cancel"
            <4> HIDE DEF z
            <4> QED BY <2>2, <2>4 DEF z, Cancels
        <3> QED BY <3>1 DEF MessageOK
    <2> QED BY <2>1, <2>3, <2>4 DEF Messages
<1>8. \A i \in 1..Len(n.queue) : MessageOK(s, n.queue[i], n.who)
    <2>1. Len(q) = L /\ q \in Seq(Messages)
        <3>1. \A i \in 1..L : q[i] \in Messages
            <4> TAKE i \in 1..L
            <4>1. q[i] = [m.queue[i] EXCEPT !.ref = Forget(m.queue[i].ref)]
                BY <1>1
            <4> HIDE DEF q
            <4>2. CASE m.queue[i] \in Cancels
                <5>1. m.queue[i].ref = Dead /\ Forget(Dead) = Dead
                    BY <4>2 DEF Cancels
                <5> QED BY <4>1, <4>2, <5>1 DEF Cancels, Messages
            <4>3. CASE m.queue[i] \in Requests
                <5>1. Forget(m.queue[i].ref) \in References
                    BY <4>3 DEF Requests, References
                <5> QED BY <4>1, <4>3, <5>1 DEF Requests, Messages
            <4> QED BY <1>1, <4>2, <4>3 DEF Messages
        <3>2. q \in [1..L -> Messages] /\ L \in Nat
            BY <1>1, <3>1
        <3> HIDE DEF q, L
        <3> QED BY ONLY <3>2
    <2>2. x \in Messages /\ MessageOK(s, x, W)
        BY <1>2 DEF Messages, Cancels, MessageOK
    <2> HIDE DEF q, x, W, n
    <2>3. /\ Len(n.queue) = L + 1 /\ n.queue[L + 1] = x
          /\ \A i \in 1..L : n.queue[i] = q[i]
        BY <1>4, <2>1, <2>2, AppendFacts
    <2>4. \A i \in 1..(L + 1) : i \in 1..L \/ i = L + 1
        BY <1>1
    <2> QED BY <1>4, <1>7, <2>2, <2>3, <2>4
<1>9. ASSUME NEW b \in Addresses
      PROVE  /\ T[b].state = m.tasks[b].state /\ T[b].answer = m.tasks[b].answer
             /\ T[b].key = m.tasks[b].key /\ T[b].prior = m.tasks[b].prior
             /\ T[b].ref = Forget(m.tasks[b].ref)
    <2>1. m.tasks[b] \in Tasks /\ T[b] = [m.tasks[b] EXCEPT !.ref = Forget(m.tasks[b].ref)]
        BY <1>1
    <2> HIDE DEF T
    <2> QED BY <2>1 DEF Tasks, TaskStates
<1>10. ASSUME NEW b \in Addresses PROVE TaskOK(s, n.tasks[b], n.who)
    <2>1. TaskOK(s, m.tasks[b], m.who) /\ m.tasks[b].ref \in References
        BY <1>1 DEF InFlight, Tasks, TaskStates
    <2> HIDE DEF n, T, W
    <2>2. ASSUME NEW p \in Requestors, T[b].ref # Dead, W[p].request = T[b].ref
          PROVE  m.tasks[b].ref # Dead /\ m.who[p].request = m.tasks[b].ref
        <3>1. m.tasks[b].ref # a /\ T[b].ref = m.tasks[b].ref
            BY <1>9, <2>2
        <3>2. m.tasks[b].ref \in Addresses
            BY <2>1, <2>2, <3>1 DEF References
        <3>3. p # r
            BY <1>2, <1>5, <2>2, <3>1, <3>2
        <3> QED BY <1>5, <2>2, <3>1, <3>3
    <2> QED BY <1>4, <1>9, <2>1, <2>2 DEF TaskOK
<1>11. \A p \in Requestors : HolderOK(s, p, n.who[p])
    <2>1. \A p \in Requestors : HolderOK(s, p, m.who[p])
        BY DEF InFlight
    <2> HIDE DEF n, W
    <2>2. HolderOK(s, r, W[r])
        BY <1>5, <2>1 DEF HolderOK
    <2> QED BY <1>4, <1>5, <2>1, <2>2
<1>12. ASSUME NEW p \in Requestors, n.who[p].request # NoAddress PROVE Expecting(s, n, p)
    <2> HIDE DEF n, W
    <2>1. p # r /\ n.who[p] = m.who[p]
        BY <1>4, <1>5, <1>12
    <2> DEFINE b == m.who[p].request
    <2>2. b # a /\ b \in Addresses /\ Expecting(s, m, p)
        BY <1>6, <1>12, <2>1 DEF InFlight
    <2>3. I[b] = m.inbox[b]
        BY <1>1, <2>2
    <2>4. T[b] = m.tasks[b] \/ T[b].ref = Dead
        <3>1. m.tasks[b] \in Tasks /\ T[b] = [m.tasks[b] EXCEPT !.ref = Forget(m.tasks[b].ref)]
            BY <1>1, <2>2
        <3>2. m.tasks[b].ref = a \/ [m.tasks[b] EXCEPT !.ref = m.tasks[b].ref] = m.tasks[b]
            BY <3>1 DEF Tasks, TaskStates
        <3> HIDE DEF b, T, a
        <3> QED BY <1>9, <2>2, <3>1, <3>2
    <2> HIDE DEF T, I
    <2> QED BY <1>4, <2>1, <2>2, <2>3, <2>4, ExpectingSame
<1>13. ASSUME NEW b \in Addresses, ~Owned(n, b) PROVE n.inbox[b] = <<>>
    <2>1. I[a] = <<>> /\ (b # a => I[b] = m.inbox[b])
        BY <1>1, <1>2
    <2>2. b # a => ~Owned(m, b)
        <3> HIDE DEF n, W
        <3> QED BY <1>4, <1>5, <1>13 DEF Owned
    <2>3. b # a => m.inbox[b] = <<>>
        BY <2>2 DEF InFlight
    <2> HIDE DEF n, I, a
    <2> QED BY <1>4, <2>1, <2>3
<1> HIDE DEF n
<1>14. InFlight(s, n)
    BY <1>8, <1>10, <1>11, <1>12, <1>13 DEF InFlight
<1> QED BY <1>14 DEF n

(* A requestor asks again: not all of a resource that changes. *)
LEMMA RequestedInFlight ==
    ASSUME NEW s, NEW m, Follows(m), InFlight(s, m), NEW r \in Requestors, m.who[r].request = NoAddress,
           NEW method \in Methods, NEW a \in Freed(m),
           KeyOf[r] \in Changing => method # "All", method = "CacheOnly" => m.who[r].data = 0
    PROVE  InFlight(s, Requested(m, r, method, a))
<1> DEFINE x == [kind |-> "request", addr |-> a, ref |-> a, key |-> KeyOf[r], method |-> method,
                 etag |-> m.who[r].etag, prior |-> m.who[r].prior]
           w == [m.who[r] EXCEPT !.request = a, !.method = method]
           W == [m.who EXCEPT ![r] = w]
           n == Requested(m, r, method, a)
           L == Len(m.queue)
<1>1. /\ m = [who |-> m.who, inbox |-> m.inbox, queue |-> m.queue, tasks |-> m.tasks]
      /\ m.who \in [Requestors -> Who] /\ m.inbox \in [Addresses -> Seq(Responses)]
      /\ m.queue \in Seq(Messages) /\ m.tasks \in [Addresses -> Tasks] /\ L \in Nat
    BY DEF Follows, Snapshots
<1>2. /\ a \in Addresses /\ a # NoAddress /\ a # Dead
      /\ \A p \in Requestors : m.who[p].request # a
    BY DefaultFileSourceAssumption DEF Freed
<1>3. n.who = W /\ n.inbox = m.inbox /\ n.queue = Append(m.queue, x) /\ n.tasks = m.tasks
    <2>1. n = [m EXCEPT !.who = W, !.queue = Append(m.queue, x)]
        BY <1>1 DEF Requested
    <2> HIDE DEF W, x, n
    <2> QED BY <1>1, <2>1
<1>4. /\ W[r].request = a /\ W[r].method = method /\ W[r].data = m.who[r].data
      /\ W[r].prior = m.who[r].prior
      /\ \A p \in Requestors : p # r => W[p] = m.who[p]
    BY <1>1 DEF Who
<1>5. HolderOK(s, r, m.who[r])
    BY DEF InFlight
<1>6. /\ x \in Messages /\ x.kind = "request" /\ x.prior = m.who[r].prior /\ x.key = KeyOf[r]
      /\ x.method = method /\ x.ref = a
    <2>1. /\ KeyOf[r] \in Keys /\ m.who[r].etag \in Versions /\ m.who[r].prior \in Versions
          /\ a \in References
        BY <1>1, <1>2, DefaultFileSourceAssumption DEF Who, References
    <2> QED BY <1>2, <2>1 DEF Messages, Requests
<1>7. MessageOK(s, x, W)
    <2>1. \A p \in Requestors : W[p].request = a => p = r
        BY <1>2, <1>4
    <2> HIDE DEF x, W
    <2> QED BY <1>5, <1>6, <2>1 DEF MessageOK, HolderOK
<1> HIDE DEF x, n, W
<1>8. \A y : MessageOK(s, y, m.who) /\ y.ref # a => MessageOK(s, y, W)
    <2> SUFFICES ASSUME NEW y, MessageOK(s, y, m.who), y.ref # a PROVE MessageOK(s, y, W)
        OBVIOUS
    <2>1. \A p \in Requestors : W[p].request = y.ref => m.who[p].request = y.ref
        BY <1>4
    <2> QED BY <2>1 DEF MessageOK
<1>9. \A t : TaskOK(s, t, m.who) /\ t.ref # a => TaskOK(s, t, W)
    <2> SUFFICES ASSUME NEW t, TaskOK(s, t, m.who), t.ref # a PROVE TaskOK(s, t, W)
        OBVIOUS
    <2>1. \A p \in Requestors : W[p].request = t.ref => m.who[p].request = t.ref
        BY <1>4
    <2> QED BY <2>1 DEF TaskOK
<1>10. ~Owned(m, a)
    BY <1>2 DEF Owned
<1>11. \A i \in 1..Len(n.queue) : MessageOK(s, n.queue[i], n.who)
    <2>1. /\ Len(n.queue) = L + 1 /\ n.queue[L + 1] = x
          /\ \A i \in 1..L : n.queue[i] = m.queue[i]
        BY <1>1, <1>3, <1>6, AppendFacts
    <2>2. \A i \in 1..(L + 1) : i \in 1..L \/ i = L + 1
        BY <1>1
    <2>3. ASSUME NEW i \in 1..L PROVE MessageOK(s, m.queue[i], W)
        <3>1. MessageOK(s, m.queue[i], m.who)
            BY DEF InFlight
        <3>2. m.queue[i].kind = "request" => m.queue[i].ref # a
            BY <1>2, <1>10 DEF Follows, Referenced
        <3>3. m.queue[i].kind # "request" => MessageOK(s, m.queue[i], W)
            BY DEF MessageOK
        <3> QED BY <1>8, <3>1, <3>2, <3>3
    <2> QED BY <1>3, <1>7, <2>1, <2>2, <2>3
<1>12. \A b \in Addresses : TaskOK(s, n.tasks[b], n.who)
    <2> TAKE b \in Addresses
    <2>1. TaskOK(s, m.tasks[b], m.who)
        BY DEF InFlight
    <2>2. m.tasks[b].ref # a
        BY <1>2, <1>10 DEF Follows, Referenced
    <2> QED BY <1>3, <1>9, <2>1, <2>2
<1>13. \A p \in Requestors : HolderOK(s, p, n.who[p])
    <2>1. \A p \in Requestors : HolderOK(s, p, m.who[p])
        BY DEF InFlight
    <2>2. HolderOK(s, r, W[r])
        BY <1>4, <1>5 DEF HolderOK
    <2> QED BY <1>3, <1>4, <2>1, <2>2
<1>14. m.inbox[a] = <<>>
    BY <1>2, <1>10 DEF InFlight
<1>15. ASSUME NEW p \in Requestors, n.who[p].request # NoAddress PROVE Expecting(s, n, p)
    <2>1. CASE p # r
        <3>1. n.who[p] = m.who[p] /\ Expecting(s, m, p)
            BY <1>3, <1>4, <1>15, <2>1 DEF InFlight
        <3> QED BY <1>3, <3>1, ExpectingSame
    <2>2. CASE p = r
        <3>1. n.who[p].request = a /\ n.inbox[a] = <<>> /\ 1..Len(n.inbox[a]) = {}
            BY <1>3, <1>4, <1>14, <2>2
        <3>2. n.tasks[a].ref = Dead
            BY <1>2, <1>3, <1>10 DEF Follows, Referenced
        <3>3. n.who[p].method = "CacheOnly" => n.who[p].data = 0
            BY <1>3, <1>4, <2>2
        <3>4. TrailOK(p, n.who[p], n.inbox[a], n.tasks[a])
            BY <3>1, <3>2, <3>3 DEF TrailOK, Follow, Ascending
        <3> QED BY <3>1, <3>4 DEF Expecting
    <2> QED BY <2>1, <2>2
<1>16. ASSUME NEW b \in Addresses, ~Owned(n, b) PROVE n.inbox[b] = <<>>
    <2>1. ~Owned(m, b)
        <3>1. ASSUME NEW p \in Requestors, m.who[p].request = b PROVE FALSE
            <4>1. p # r
                BY <3>1, DefaultFileSourceAssumption
            <4>2. n.who[p].request = b
                BY <1>3, <1>4, <3>1, <4>1
            <4> QED BY <1>16, <4>2 DEF Owned
        <3> QED BY <3>1 DEF Owned
    <2> QED BY <1>3, <2>1 DEF InFlight
<1>17. InFlight(s, n)
    BY <1>11, <1>12, <1>13, <1>15, <1>16 DEF InFlight
<1> QED BY <1>17 DEF n

(* A reply that is not one of the cache is taken out of the mailbox. *)
LEMMA TakenInFlight ==
    ASSUME NEW s \in [Keys -> Nat], NEW m, Follows(m), InFlight(s, m), NEW r \in Requestors,
           m.who[r].request # NoAddress, m.who[r].method # "CacheOnly",
           m.inbox[m.who[r].request] # <<>>,
           NEW n \in Snapshots,
           NEW a, a = m.who[r].request,
           n.who[r] = LoadedData(m.who[r], Head(m.inbox[a])), n.inbox[a] = Tail(m.inbox[a]),
           \A p \in Requestors : p # r => n.who[p] = m.who[p],
           \A b \in Addresses : b # a => n.inbox[b] = m.inbox[b],
           n.queue = m.queue, n.tasks = m.tasks
    PROVE  InFlight(s, n)
<1> DEFINE box == m.inbox[a]
           w == LoadedData(m.who[r], Head(box))
           rest == Tail(box)
<1>1. /\ m.who \in [Requestors -> Who] /\ m.inbox \in [Addresses -> Seq(Responses)]
      /\ a \in Addresses
    BY DEF Follows, Snapshots, Who
<1>2. /\ box \in Seq(Responses) /\ Len(box) \in Nat \ {0} /\ box[1] = Head(box) /\ box[1] \in Responses
      /\ Len(rest) = Len(box) - 1 /\ \A j \in 1..Len(rest) : rest[j] = box[j + 1]
    <2>1. box \in Seq(Responses) /\ box # <<>>
        BY <1>1
    <2> HIDE DEF box
    <2> QED BY <2>1
<1>3. /\ w.request = a /\ w.method = m.who[r].method /\ w.prior = m.who[r].prior
      /\ w.data = IF box[1].error = "Other" \/ box[1].notModified THEN m.who[r].data ELSE box[1].data
    <2>1. m.who[r] \in Who
        BY <1>1
    <2> HIDE DEF box
    <2> QED BY <1>2, <2>1 DEF LoadedData, Who
<1>4. /\ n.who[r] = w /\ \A p \in Requestors : p # r => n.who[p] = m.who[p]
      /\ n.inbox[a] = rest /\ \A b \in Addresses : b # a => n.inbox[b] = m.inbox[b]
    OBVIOUS
<1>5. /\ Expecting(s, m, r) /\ HolderOK(s, r, m.who[r])
      /\ \A j \in 1..Len(box) : ReplyOK(s, r, m.who[r].method, box[j])
      /\ TrailOK(r, m.who[r], box, m.tasks[a])
    BY DEF InFlight, Expecting
<1> HIDE DEF w, rest
<1>6. w.data = m.who[r].data \/ (w.data = box[1].data /\ Bears(box[1]))
    <2>1. box[1].error \in {"None", "NotFound", "Other"} /\ box[1].error # "NotFound"
        <3>1. 1 \in 1..Len(box)
            BY <1>2
        <3> QED BY <1>2, <1>5, <3>1 DEF ReplyOK, Responses
    <2> QED BY <1>3, <2>1 DEF Bears
<1>7. HolderOK(s, r, w)
    <2>1. Bears(box[1]) => box[1].data =< s[KeyOf[r]]
        <3>1. 1 \in 1..Len(box)
            BY <1>2, SMTT(30)
        <3>2. ReplyOK(s, r, m.who[r].method, box[1])
            BY <1>5, <3>1
        <3>3. s[KeyOf[r]] \in Nat
            BY DefaultFileSourceAssumption
        <3> HIDE DEF box
        <3>4. Bears(box[1]) => box[1].data \in 1..s[KeyOf[r]]
            BY <3>2 DEF ReplyOK
        <3> QED BY <3>3, <3>4
    <2> QED BY <1>3, <1>5, <1>6, <2>1 DEF HolderOK
<1>8. TrailOK(r, w, rest, m.tasks[a])
    <2> SUFFICES ASSUME KeyOf[r] \in Changing PROVE TrailOK(r, w, rest, m.tasks[a])
        BY <1>3 DEF TrailOK
    <2>1. /\ Follow(box, m.who[r].data) /\ Ascending(box)
          /\ m.tasks[a].ref # Dead /\ m.tasks[a].state = "asked" =>
                m.who[r].data =< m.tasks[a].answer /\ Precede(box, m.tasks[a].answer)
        BY <1>5 DEF TrailOK
    <2>2. \A j \in 1..Len(rest) : j + 1 \in 1..Len(box) /\ rest[j] = box[j + 1] /\ 1 < j + 1
        BY <1>2
    <2>3. 1 \in 1..Len(box)
        BY <1>2
    <2>4. Follow(rest, w.data)
        <3> HIDE DEF box
        <3>1. ASSUME NEW j \in 1..Len(rest), Bears(rest[j]) PROVE w.data =< rest[j].data
            BY <1>6, <2>1, <2>2, <2>3, <3>1 DEF Follow, Ascending
        <3> QED BY <3>1 DEF Follow
    <2>5. Ascending(rest)
        <3> HIDE DEF box
        <3>1. ASSUME NEW i \in 1..Len(rest), NEW j \in 1..Len(rest), i < j, Bears(rest[i]), Bears(rest[j])
              PROVE  rest[i].data =< rest[j].data
            <4>1. i + 1 < j + 1
                BY <3>1
            <4> QED BY <2>1, <2>2, <3>1, <4>1 DEF Ascending
        <3> QED BY <3>1 DEF Ascending
    <2>6. m.tasks[a].ref # Dead /\ m.tasks[a].state = "asked" =>
             w.data =< m.tasks[a].answer /\ Precede(rest, m.tasks[a].answer)
        <3> HIDE DEF box
        <3> QED BY <1>6, <2>1, <2>2, <2>3 DEF Precede
    <2> QED BY <1>3, <2>4, <2>5, <2>6 DEF TrailOK
<1>9. \A j \in 1..Len(rest) : ReplyOK(s, r, w.method, rest[j])
    <2> HIDE DEF box
    <2>1. \A j \in 1..Len(rest) : j + 1 \in 1..Len(box)
        BY <1>2
    <2> QED BY <1>2, <1>3, <1>5, <2>1
<1>10. ASSUME NEW p \in Requestors, n.who[p].request # NoAddress PROVE Expecting(s, n, p)
    <2>1. CASE p = r
        BY <1>3, <1>4, <1>8, <1>9, <2>1 DEF Expecting
    <2>2. CASE p # r
        <3>1. n.who[p] = m.who[p] /\ Expecting(s, m, p)
            BY <1>4, <1>10, <2>2 DEF InFlight
        <3>2. m.who[p].request # a /\ m.who[p].request \in Addresses
            BY <1>1, <1>10, <2>2, <3>1 DEF Follows, Allocated, Who
        <3> QED BY <1>4, <3>1, <3>2, ExpectingSame
    <2> QED BY <2>1, <2>2
<1>11. \A p \in Requestors : n.who[p].request = m.who[p].request
    BY <1>3, <1>4
<1>12. \A i \in 1..Len(n.queue) : MessageOK(s, n.queue[i], n.who)
    <2>1. \A i \in 1..Len(m.queue) : MessageOK(s, m.queue[i], m.who)
        BY DEF InFlight
    <2>2. \A x : MessageOK(s, x, m.who) => MessageOK(s, x, n.who)
        BY <1>11 DEF MessageOK
    <2> QED BY <2>1, <2>2
<1>13. \A b \in Addresses : TaskOK(s, n.tasks[b], n.who)
    <2>1. \A b \in Addresses : TaskOK(s, m.tasks[b], m.who)
        BY DEF InFlight
    <2>2. \A x : TaskOK(s, x, m.who) => TaskOK(s, x, n.who)
        BY <1>11 DEF TaskOK
    <2> QED BY <2>1, <2>2
<1>14. \A p \in Requestors : HolderOK(s, p, n.who[p])
    BY <1>4, <1>7 DEF InFlight
<1>15. \A b \in Addresses : ~Owned(n, b) => n.inbox[b] = <<>>
    <2>1. Owned(n, a)
        BY <1>11 DEF Owned
    <2>2. \A b \in Addresses : Owned(m, b) <=> Owned(n, b)
        BY <1>11 DEF Owned
    <2> QED BY <1>4, <2>1, <2>2 DEF InFlight
<1> QED BY <1>10, <1>12, <1>13, <1>14, <1>15 DEF InFlight

(* The main thread has left the snapshot n. *)
LEMMA CommittedVersions ==
    ASSUME IInv, VersionInv, NEW n, Follows(n), InFlight(server, n), Commit(n), UNCHANGED <<db, server>>
    PROVE  VersionInv'
<1>1. n = [who |-> n.who, inbox |-> n.inbox, queue |-> n.queue, tasks |-> n.tasks]
    BY DEF Follows, Snapshots
<1>2. Main' = n
    BY <1>1 DEF Main, Commit
<1>3. InFlight(server', Main') /\ RowsOK(server', db') /\ Steady(server')
    BY <1>2 DEF VersionInv
<1> QED BY <1>3 DEF VersionInv

(* What is known of the versions. *)
LEMMA KnownVersions ==
    ASSUME IInv, VersionInv
    PROVE  /\ server \in [Keys -> Nat] /\ InFlight(server, Main) /\ Follows(Main)
           /\ \A r \in Requestors : KeyOf[r] \in Keys /\ HolderOK(server, r, requestor[r])
<1>1. server \in [Keys -> Nat] /\ InFlight(server, Main) /\ Follows(Main) /\ Main.who = requestor
    BY Known DEF VersionInv
<1>2. \A r \in Requestors : HolderOK(server, r, Main.who[r])
    BY <1>1 DEF InFlight
<1> QED BY <1>1, <1>2, DefaultFileSourceAssumption

LEMMA ConstructVersions ==
    ASSUME ChangesOfTiles, IInv, VersionInv, NEW r \in Requestors, Construct(r)
    PROVE  VersionInv'
<1> DEFINE plain == r \in Plain
           w == [Absent EXCEPT !.alive = TRUE, !.required = plain,
                               !.since = IF plain THEN server[KeyOf[r]] ELSE 0]
           method == IF plain THEN "All" ELSE "CacheOnly"
           m == [Main EXCEPT !.who[r] = w]
<1>1. PICK a \in Freed(Main) : Commit(Requested(m, r, method, a))
    BY DEF Construct
<1>2. ~requestor[r].alive /\ UNCHANGED <<db, server>>
    BY DEF Construct
<1>3. requestor[r].request = NoAddress
    BY <1>2, Known DEF Follows, Allocated
<1>4. /\ w \in Who /\ w.request = NoAddress /\ w.alive /\ w.data = 0 /\ w.prior = 0
    <2> DEFINE since == IF plain THEN server[KeyOf[r]] ELSE 0
    <2>1. server[KeyOf[r]] \in Versions /\ 0 \in Versions
        BY Known, DefaultFileSourceAssumption
    <2>2. since \in Versions
        BY <2>1
    <2>3. plain \in BOOLEAN
        OBVIOUS
    <2> HIDE DEF since, plain
    <2>4. w = [alive |-> TRUE, required |-> plain, method |-> "CacheOnly", etag |-> 0, prior |-> 0,
               request |-> NoAddress, data |-> 0, since |-> since]
        <3> HIDE DEF Absent
        <3>1. Absent = [alive |-> FALSE, required |-> FALSE, method |-> "CacheOnly", etag |-> 0,
                        prior |-> 0, request |-> NoAddress, data |-> 0, since |-> 0]
            BY DEF Absent
        <3>2. w = [Absent EXCEPT !.alive = TRUE, !.required = plain, !.since = since]
            BY DEF since
        <3> HIDE DEF w
        <3> QED BY <2>3, <3>1, <3>2
    <2> QED BY <2>1, <2>2, <2>3, <2>4 DEF Who, Methods
<1> HIDE DEF w
<1>5. HolderOK(server, r, w)
    BY <1>4, KnownVersions DEF HolderOK
<1>6. Main.who[r].request = w.request
    BY <1>3, <1>4, Known
<1>7. Follows(m) /\ m.who[r] = w
    BY <1>4, <1>6, Known, WhoSet
<1>8. InFlight(server, m)
    BY <1>4, <1>5, <1>6, KnownVersions, HolderSet
<1>9. a \in Freed(m)
    <2>1. m.who = [requestor EXCEPT ![r] = w]
        BY Known
    <2>2. \A p \in Requestors : m.who[p].request = requestor[p].request
        BY <1>3, <1>4, <2>1, Known
    <2> HIDE DEF m
    <2> QED BY <2>2, Known DEF Freed
<1>10. method \in Methods /\ (KeyOf[r] \in Changing => method # "All")
    BY DEF Methods, ChangesOfTiles
<1> DEFINE n == Requested(m, r, method, a)
<1> HIDE DEF m, method
<1>11. m.who[r].request = NoAddress /\ m.who[r].alive /\ m.who[r].data = 0
    BY <1>4, <1>7
<1>12. Follows(n)
    BY <1>7, <1>9, <1>10, <1>11, RequestSet
<1>13. InFlight(server, n)
    BY <1>7, <1>8, <1>9, <1>10, <1>11, RequestedInFlight
<1> QED BY <1>1, <1>2, <1>12, <1>13, CommittedVersions

LEMMA DestroyVersions ==
    ASSUME IInv, VersionInv, NEW r \in Requestors, Destroy(r)
    PROVE  VersionInv'
<1> DEFINE m == IF requestor[r].request = NoAddress THEN Main ELSE Reset(Main, r)
           n == [m EXCEPT !.who[r] = Absent]
<1>1. Commit(n) /\ UNCHANGED <<db, server>>
    BY DEF Destroy
<1>2. Follows(m) /\ InFlight(server, m) /\ m.who[r].request = NoAddress
    <2>1. CASE requestor[r].request = NoAddress
        BY <2>1, Known, KnownVersions
    <2>2. CASE requestor[r].request # NoAddress
        <3>1. PICK M : M = Main
            OBVIOUS
        <3>2. /\ M.who[r].request # NoAddress /\ Follows(M) /\ InFlight(server, M) /\ M.tasks = tasks
              /\ m = Reset(M, r)
            BY <2>2, <3>1, Known, KnownVersions
        <3>3. Follows(Reset(M, r)) /\ Reset(M, r).who[r].request = NoAddress
            BY <3>2, ResetSet, ZenonT(60)
        <3>4. InFlight(server, Reset(M, r))
            BY <3>2, ResetInFlight
        <3> QED BY <3>2, <3>3, <3>4
    <2> QED BY <2>1, <2>2
<1>3. /\ Absent \in Who /\ Absent.request = NoAddress /\ HolderOK(server, r, Absent)
    <2>1. Absent \in Who /\ Absent.request = NoAddress /\ Absent.data = 0 /\ Absent.prior = 0
        BY Known DEF Who, Absent, Methods
    <2> QED BY <2>1, KnownVersions DEF HolderOK
<1> HIDE DEF m
<1>4. Follows(n)
    BY <1>2, <1>3, WhoSet
<1>5. InFlight(server, n)
    BY <1>2, <1>3, HolderSet
<1> HIDE DEF n
<1> QED BY <1>1, <1>4, <1>5, CommittedVersions

LEMMA MakeRequiredVersions ==
    ASSUME IInv, VersionInv, NEW r \in Requestors, MakeRequired(r)
    PROVE  VersionInv'
<1> DEFINE w == [requestor[r] EXCEPT !.required = TRUE, !.since = server[KeyOf[r]]]
           m == [Main EXCEPT !.who[r] = w]
<1>1. requestor[r].alive /\ requestor[r] \in Who /\ UNCHANGED <<db, server>>
    BY Known DEF MakeRequired
<1>2. m = [Main EXCEPT !.who[r].required = TRUE, !.who[r].since = server[KeyOf[r]]]
    BY Known
<1>3. \/ requestor[r].request # NoAddress /\ Commit(m)
      \/ requestor[r].request = NoAddress
         /\ \E a \in Freed(m) : Commit(Requested(m, r, "NetworkOnly", a))
    BY <1>2 DEF MakeRequired
<1>4. /\ w \in Who /\ w.request = requestor[r].request /\ w.alive
      /\ w.method = requestor[r].method /\ w.data = requestor[r].data /\ w.prior = requestor[r].prior
    <2>1. server[KeyOf[r]] \in Versions
        BY Known, DefaultFileSourceAssumption
    <2> QED BY <1>1, <2>1 DEF Who
<1> HIDE DEF w
<1>5. Follows(m) /\ m.who[r] = w
    <2>1. /\ Follows(Main) /\ Main.who[r].request = w.request /\ Main.who[r].method = w.method
          /\ Main.tasks = tasks
        BY <1>4, Known
    <2> QED BY <1>4, <2>1, WhoSet
<1>6. InFlight(server, m)
    <2>1. HolderOK(server, r, w)
        BY <1>4, KnownVersions DEF HolderOK
    <2> QED BY <1>4, <2>1, Known, KnownVersions, HolderSet
<1> HIDE DEF m
<1>7. CASE requestor[r].request # NoAddress /\ Commit(m)
    BY <1>1, <1>5, <1>6, <1>7, CommittedVersions
<1>8. ASSUME NEW a \in Freed(m), requestor[r].request = NoAddress,
             Commit(Requested(m, r, "NetworkOnly", a))
      PROVE  VersionInv'
    <2> DEFINE n == Requested(m, r, "NetworkOnly", a)
    <2>1. Follows(n)
        BY <1>4, <1>5, <1>8, RequestSet DEF Methods
    <2>2. InFlight(server, n)
        BY <1>4, <1>5, <1>6, <1>8, RequestedInFlight DEF Methods
    <2> QED BY <1>1, <1>8, <2>1, <2>2, CommittedVersions
<1> QED BY <1>3, <1>7, <1>8

LEMMA MakeOptionalVersions ==
    ASSUME IInv, VersionInv, NEW r \in Requestors, MakeOptional(r)
    PROVE  VersionInv'
<1> DEFINE w == [requestor[r] EXCEPT !.required = FALSE]
           m == [Main EXCEPT !.who[r] = w]
<1>1. requestor[r].alive /\ requestor[r] \in Who /\ UNCHANGED <<db, server>>
    BY Known DEF MakeOptional
<1>2. m = [Main EXCEPT !.who[r].required = FALSE]
    BY Known
<1>3. \/ requestor[r].request # NoAddress /\ Commit(Reset(m, r))
      \/ Commit(m)
    BY <1>2 DEF MakeOptional
<1>4. /\ w \in Who /\ w.request = requestor[r].request /\ w.alive
      /\ w.method = requestor[r].method /\ w.data = requestor[r].data /\ w.prior = requestor[r].prior
    BY <1>1 DEF Who
<1> HIDE DEF w
<1>5. Follows(m) /\ m.who[r] = w /\ m.tasks = tasks
    <2>1. /\ Follows(Main) /\ Main.who[r].request = w.request /\ Main.who[r].method = w.method
          /\ Main.tasks = tasks
        BY <1>4, Known
    <2> QED BY <1>4, <2>1, WhoSet
<1>6. InFlight(server, m)
    <2>1. HolderOK(server, r, w)
        BY <1>4, KnownVersions DEF HolderOK
    <2> QED BY <1>4, <2>1, Known, KnownVersions, HolderSet
<1> HIDE DEF m
<1>7. CASE Commit(m)
    BY <1>1, <1>5, <1>6, <1>7, CommittedVersions
<1>8. CASE requestor[r].request # NoAddress /\ Commit(Reset(m, r))
    <2>1. Follows(Reset(m, r))
        BY <1>4, <1>5, <1>8, ResetSet
    <2>2. InFlight(server, Reset(m, r))
        BY <1>4, <1>5, <1>6, <1>8, ResetInFlight
    <2> QED BY <1>1, <1>8, <2>1, <2>2, CommittedVersions
<1> QED BY <1>3, <1>7, <1>8

(* What r becomes when it takes its reply of the cache. *)
AfterReply(r) ==
    LET response == Head(inbox[requestor[r].request])
        f == [requestor[r] EXCEPT !.request = NoAddress]
    IN IF response.error = "NotFound"
       THEN [f EXCEPT !.etag = response.etag, !.prior = response.data]
       ELSE LoadedData(f, response)

LEMMA CacheReplyTaken ==
    ASSUME IInv, NEW r \in Requestors, Receive(r), requestor[r].method = "CacheOnly"
    PROVE  /\ Follows(Reset(Main, r))
           /\ Reset(Main, r).who = [requestor EXCEPT ![r].request = NoAddress]
           /\ Reset(Main, r).who[r].request = NoAddress
           /\ AfterReply(r) \in Who /\ AfterReply(r).request = NoAddress /\ AfterReply(r).alive
           /\ AfterCache([Reset(Main, r) EXCEPT !.who[r] = AfterReply(r)], r)
<1> DEFINE addr == requestor[r].request
           response == Head(inbox[addr])
           rest == Tail(inbox[addr])
           I == [inbox EXCEPT ![addr] = rest]
           popped == [Main EXCEPT !.inbox[addr] = Tail(@)]
           freed == Reset(popped, r)
           f == [requestor[r] EXCEPT !.request = NoAddress]
           w == AfterReply(r)
           m == [freed EXCEPT !.who[r] = w]
<1>1. /\ requestor[r].request # NoAddress /\ requestor[r] \in Who
      /\ addr \in Addresses /\ inbox[addr] # <<>> /\ inbox[addr] \in Seq(Responses)
    BY Known DEF Receive, Who
<1>2. requestor[r].alive
    BY <1>1, Known DEF Follows, Allocated
<1>3. response \in Responses
    BY <1>1
<1>4. w = IF response.error = "NotFound"
          THEN [f EXCEPT !.etag = response.etag, !.prior = response.data]
          ELSE LoadedData(f, response)
    BY DEF AfterReply
<1> HIDE DEF w
<1>5. popped = [who |-> requestor, inbox |-> I, queue |-> queue, tasks |-> tasks]
    <2>1. popped = [Main EXCEPT !.inbox = I]
        BY Known
    <2> HIDE DEF popped, I
    <2> QED BY <2>1, Known
<1> HIDE DEF popped
<1>6. /\ popped.who = requestor /\ popped.inbox = I /\ popped.queue = queue /\ popped.tasks = tasks
    <2> HIDE DEF I
    <2> QED BY <1>5
<1>7. freed = Reset(Main, r)
    <2>1. [I EXCEPT ![addr] = <<>>] = [inbox EXCEPT ![addr] = <<>>]
        BY Known
    <2> HIDE DEF I
    <2>2. PICK M : M = Main
        OBVIOUS
    <2>3. PICK P : P = popped
        OBVIOUS
    <2>4. /\ M.who = P.who /\ M.queue = P.queue /\ M.tasks = P.tasks
          /\ M.who = requestor /\ M.inbox = inbox /\ P.inbox = I /\ P.who = requestor
        BY <1>6, <2>2, <2>3, Known
    <2>5. [P.inbox EXCEPT ![P.who[r].request] = <<>>] = [M.inbox EXCEPT ![M.who[r].request] = <<>>]
        BY <2>1, <2>4
    <2>6. Reset(P, r) = Reset(M, r)
        BY <2>4, <2>5, ResetForgets
    <2> QED BY <2>2, <2>3, <2>6
<1>8. /\ Follows(freed) /\ freed.who = [requestor EXCEPT ![r].request = NoAddress]
      /\ freed.who[r].request = NoAddress
    <2>1. PICK M : M = Main
        OBVIOUS
    <2>2. M.who[r].request # NoAddress /\ Follows(M) /\ M.tasks = tasks /\ M.who = requestor
        BY <1>1, <2>1, Known
    <2>3. /\ Follows(Reset(M, r)) /\ Reset(M, r).who = [M.who EXCEPT ![r].request = NoAddress]
          /\ Reset(M, r).who[r].request = NoAddress
        BY <2>2, ResetSet
    <2> QED BY <1>7, <2>1, <2>2, <2>3
<1> HIDE DEF freed
<1>9. f \in Who /\ f.request = NoAddress /\ f.alive /\ freed.who[r] = f
    <2>1. f \in Who /\ f.request = NoAddress /\ f.alive
        BY <1>1, <1>2 DEF Who
    <2> QED BY <1>8, <2>1, Known
<1>10. w \in Who /\ w.request = NoAddress /\ w.alive
    <2> HIDE DEF f
    <2>1. LET l == LoadedData(f, response)
          IN  l \in Who /\ l.request = NoAddress /\ l.alive
        BY <1>3, <1>9, LoadedFacts
    <2>2. LET l == [f EXCEPT !.etag = response.etag, !.prior = response.data]
          IN  l \in Who /\ l.request = NoAddress /\ l.alive
        <3>1. response.data \in Versions /\ response.etag \in Versions
            BY <1>3 DEF Responses
        <3> HIDE DEF response
        <3> QED BY <1>9, <3>1 DEF Who
    <2> QED BY <1>4, <2>1, <2>2
<1>11. AfterCache(m, r)
    <2> DEFINE l == [freed EXCEPT !.who[r].etag = response.etag, !.who[r].prior = response.data]
               k == [freed EXCEPT !.who[r] = LoadedData(@, response)]
    <2>1. AfterCache(IF response.error = "NotFound" THEN l ELSE k, r)
        BY DEF Receive, popped, freed
    <2> HIDE DEF response, f
    <2>2. response.error = "NotFound" => l = m
        BY <1>4, <1>8, <1>9, Known, ZenonT(60)
    <2>3. response.error # "NotFound" => k = m
        BY <1>4, <1>8, <1>9, Known
    <2> HIDE DEF l, k, m
    <2> QED BY <2>1, <2>2, <2>3
<1> HIDE DEF m
<1> QED BY <1>7, <1>8, <1>10, <1>11 DEF w, m

LEMMA ReceiveVersions ==
    ASSUME IInv, VersionInv, NEW r \in Requestors, Receive(r)
    PROVE  VersionInv'
<1> DEFINE addr == requestor[r].request
           response == Head(inbox[addr])
           rest == Tail(inbox[addr])
           I == [inbox EXCEPT ![addr] = rest]
           popped == [Main EXCEPT !.inbox[addr] = Tail(@)]
<1>1. /\ requestor[r].request # NoAddress /\ requestor[r] \in Who /\ UNCHANGED <<db, server>>
      /\ addr \in Addresses /\ inbox[addr] # <<>> /\ inbox[addr] \in Seq(Responses)
    BY Known DEF Receive, Who
<1>2. requestor[r].alive
    BY <1>1, Known DEF Follows, Allocated
<1>3. response \in Responses /\ rest \in Seq(Responses) /\ response = inbox[addr][1]
      /\ 1 \in 1..Len(inbox[addr])
    BY <1>1
<1>4. I \in [Addresses -> Seq(Responses)]
    BY <1>3, Known
<1>5. popped = [who |-> requestor, inbox |-> I, queue |-> queue, tasks |-> tasks]
    <2>1. popped = [Main EXCEPT !.inbox = I]
        BY Known
    <2> HIDE DEF popped, I
    <2> QED BY <2>1, Known
<1> HIDE DEF popped
<1>6. /\ popped.who = requestor /\ popped.inbox = I /\ popped.queue = queue /\ popped.tasks = tasks
      /\ popped \in Snapshots
    <2> HIDE DEF I
    <2> QED BY <1>4, <1>5, Known DEF Snapshots
<1>7. CASE requestor[r].method # "CacheOnly"
    <2> DEFINE w == LoadedData(requestor[r], response)
               n == [popped EXCEPT !.who[r] = w]
    <2>1. Commit(n)
        <3>1. Commit([popped EXCEPT !.who[r] = LoadedData(@, response)])
            BY <1>7 DEF Receive, popped
        <3>2. [popped EXCEPT !.who[r] = LoadedData(@, response)] = n
            BY <1>6
        <3> QED BY <3>1, <3>2
    <2>2. ASSUME NEW p \in Requestors, requestor[p].request # NoAddress,
                 requestor[p].method = "CacheOnly", inbox[requestor[p].request] # <<>>
          PROVE  I[requestor[p].request] # <<>>
        <3>1. requestor[p].request # addr
            BY <1>1, <1>7, <2>2, Known DEF Follows, Allocated
        <3>2. requestor[p].request \in Addresses
            BY <2>2, Known DEF Who
        <3> QED BY <1>4, <2>2, <3>1, <3>2, Known
    <2>3. Follows(popped)
        <3> HIDE DEF I
        <3> QED BY <1>6, <2>2, Known, ProgressFollows, ZenonT(60)
    <2>4. w \in Who /\ w.request = addr /\ w.alive /\ w.method = requestor[r].method
        BY <1>1, <1>2, <1>3, LoadedFacts
    <2> HIDE DEF w
    <2>5. Follows(n)
        <3>1. popped.who[r].request = addr /\ popped.who[r].method = requestor[r].method
            BY <1>6
        <3> HIDE DEF addr
        <3> QED BY <2>3, <2>4, <3>1, WhoSet
    <2>6. /\ n.who = [requestor EXCEPT ![r] = w] /\ n.inbox = I /\ n.queue = queue /\ n.tasks = tasks
          /\ n \in Snapshots
        <3> HIDE DEF I
        <3>1. n = [who |-> [requestor EXCEPT ![r] = w], inbox |-> I, queue |-> queue, tasks |-> tasks]
            BY <1>5
        <3>2. n \in Snapshots
            BY <2>5 DEF Follows
        <3> HIDE DEF n
        <3> QED BY <3>1, <3>2
    <2> HIDE DEF n
    <2>7. InFlight(server, n)
        <3>1. PICK M : M = Main
            OBVIOUS
        <3>2. /\ Follows(M) /\ InFlight(server, M) /\ M.who = requestor /\ M.inbox = inbox
              /\ M.queue = queue /\ M.tasks = tasks /\ server \in [Keys -> Nat]
            BY <3>1, Known, KnownVersions
        <3>3. /\ M.who[r].request # NoAddress /\ M.who[r].method # "CacheOnly"
              /\ M.inbox[M.who[r].request] # <<>>
            BY <1>1, <1>7, <3>2
        <3>4. /\ n.who[r] = LoadedData(M.who[r], Head(M.inbox[addr])) /\ n.inbox[addr] = Tail(M.inbox[addr])
              /\ \A p \in Requestors : p # r => n.who[p] = M.who[p]
              /\ \A b \in Addresses : b # addr => n.inbox[b] = M.inbox[b]
              /\ n.queue = M.queue /\ n.tasks = M.tasks /\ addr = M.who[r].request
            BY <1>1, <2>6, <3>2, Known DEF w
        <3> HIDE DEF addr
        <3>5. n \in Snapshots
            BY <2>6
        <3> QED BY ONLY <3>2, <3>3, <3>4, <3>5, TakenInFlight, r \in Requestors
    <2> QED BY <1>1, <2>1, <2>5, <2>7, CommittedVersions
<1>8. CASE requestor[r].method = "CacheOnly"
    <2> DEFINE freed == Reset(Main, r)
               f == [requestor[r] EXCEPT !.request = NoAddress]
               w == AfterReply(r)
               m == [freed EXCEPT !.who[r] = w]
    <2>1. w = IF response.error = "NotFound"
              THEN [f EXCEPT !.etag = response.etag, !.prior = response.data]
              ELSE LoadedData(f, response)
        BY DEF AfterReply
    <2> HIDE DEF w
    <2>2. /\ Follows(freed) /\ freed.who[r].request = NoAddress
          /\ w \in Who /\ w.request = NoAddress /\ w.alive
        BY <1>8, CacheReplyTaken DEF w
    <2>3. InFlight(server, freed)
        <3>1. PICK M : M = Main
            OBVIOUS
        <3>2. M.who[r].request # NoAddress /\ Follows(M) /\ InFlight(server, M)
            BY <1>1, <3>1, Known, KnownVersions
        <3>3. InFlight(server, Reset(M, r))
            BY <3>2, ResetInFlight
        <3> QED BY <3>1, <3>3
    <2> HIDE DEF freed
    <2>4. f \in Who /\ f.data = requestor[r].data /\ f.prior = requestor[r].prior
        BY <1>1 DEF Who
    <2>5. HolderOK(server, r, w)
        <3>1. HolderOK(server, r, requestor[r]) /\ ReplyOK(server, r, "CacheOnly", response)
            <4>1. PICK M : M = Main
                OBVIOUS
            <4>2. /\ InFlight(server, M) /\ M.who[r].request = addr /\ addr # NoAddress
                  /\ M.who[r].method = "CacheOnly" /\ M.inbox[addr] = inbox[addr]
                BY <1>1, <1>8, <4>1, Known, KnownVersions
            <4>3. Expecting(server, M, r)
                BY <4>2 DEF InFlight
            <4> HIDE DEF addr
            <4>4. \A j \in 1..Len(inbox[addr]) : ReplyOK(server, r, "CacheOnly", inbox[addr][j])
                BY <4>2, <4>3 DEF Expecting
            <4> QED BY <1>3, <4>4, KnownVersions
        <3>2. /\ response.error \in {"None", "NotFound", "Other"} /\ server[KeyOf[r]] \in Nat
              /\ response.data \in Nat
            BY <1>3, KnownVersions DEF Responses, Versions
        <3> HIDE DEF response, f
        <3>3. CASE response.error = "NotFound"
            <4>1. w.data = f.data /\ w.prior = response.data
                BY <2>1, <2>4, <3>3 DEF Who
            <4> HIDE DEF w
            <4> QED BY <2>4, <3>1, <3>3, <4>1 DEF HolderOK, ReplyOK
        <3>4. CASE response.error # "NotFound"
            <4>1. /\ w.prior = f.prior
                  /\ w.data = f.data \/ (w.data = response.data /\ Bears(response))
                BY <2>1, <2>4, <3>2, <3>4 DEF LoadedData, Bears, Who
            <4>2. Bears(response) => response.data =< server[KeyOf[r]]
                BY <3>1, <3>2 DEF ReplyOK
            <4> HIDE DEF w
            <4> QED BY <2>4, <3>1, <4>1, <4>2 DEF HolderOK
        <3> QED BY <3>3, <3>4
    <2>6. AfterCache(m, r)
        BY <1>8, CacheReplyTaken DEF w, freed
    <2> HIDE DEF w, response, addr
    <2>7. Follows(m) /\ m.who[r] = w /\ InFlight(server, m)
        <3>1. w.request = freed.who[r].request /\ w.request = NoAddress
            BY <2>2
        <3>2. Follows(freed) /\ InFlight(server, freed) /\ w \in Who
            BY <2>2, <2>3
        <3>3. Follows(m) /\ m.who[r] = w /\ m.tasks = freed.tasks
            BY ONLY <3>1, <3>2, WhoSet, r \in Requestors DEF m
        <3>4. InFlight(server, m)
            BY ONLY <2>5, <3>1, <3>2, HolderSet, r \in Requestors DEF m
        <3> QED BY <3>3, <3>4
    <2> HIDE DEF m
    <2>8. CASE Commit(m)
        BY <1>1, <2>7, <2>8, CommittedVersions
    <2>9. ASSUME NEW a \in Freed(m), Commit(Requested(m, r, "NetworkOnly", a)) PROVE VersionInv'
        <3> DEFINE n == Requested(m, r, "NetworkOnly", a)
        <3>1. Follows(n)
            BY <2>2, <2>7, RequestSet DEF Methods
        <3>2. InFlight(server, n)
            BY <2>2, <2>7, RequestedInFlight DEF Methods
        <3> QED BY <1>1, <2>9, <3>1, <3>2, CommittedVersions
    <2> QED BY <2>6, <2>8, <2>9 DEF AfterCache
<1> QED BY <1>7, <1>8

(* The file source thread has served the request, or the online request, at address a. *)
LEMMA ServedInFlight ==
    ASSUME NEW s, NEW m, InFlight(s, m), NEW n, n.who = m.who, NEW a,
           \A i \in 1..Len(n.queue) : MessageOK(s, n.queue[i], m.who),
           \A b \in Addresses : b # a => n.tasks[b] = m.tasks[b] /\ n.inbox[b] = m.inbox[b],
           m.who \in [Requestors -> Who],
           TaskOK(s, n.tasks[a], m.who),
           Owned(m, a) \/ n.inbox[a] = m.inbox[a],
           \A r \in Requestors : m.who[r].request = a => Expecting(s, n, r)
    PROVE  InFlight(s, n)
<1>1. \A b \in Addresses : TaskOK(s, n.tasks[b], n.who)
    <2>1. \A b \in Addresses : TaskOK(s, m.tasks[b], m.who)
        BY DEF InFlight
    <2> QED BY <2>1
<1>2. ASSUME NEW r \in Requestors, n.who[r].request # NoAddress PROVE Expecting(s, n, r)
    <2>1. Expecting(s, m, r) /\ m.who[r].request \in Addresses
        BY <1>2 DEF InFlight, Who
    <2>2. m.who[r].request # a => Expecting(s, n, r)
        BY <2>1, ExpectingSame
    <2> QED BY <2>2
<1>3. \A b \in Addresses : ~Owned(n, b) => n.inbox[b] = <<>>
    <2>1. \A b \in Addresses : Owned(n, b) <=> Owned(m, b)
        BY DEF Owned
    <2>2. \A b \in Addresses : ~Owned(m, b) => m.inbox[b] = <<>>
        BY DEF InFlight
    <2> QED BY <2>1, <2>2
<1>4. \A r \in Requestors : HolderOK(s, r, n.who[r])
    BY DEF InFlight
<1> QED BY <1>1, <1>2, <1>3, <1>4 DEF InFlight

(* A reply has been sent to r: one of the cache, one about a resource that does not change, or  *)
(* the server's answer.                                                                          *)
LEMMA RepliedExpecting ==
    ASSUME NEW s, NEW m, NEW n, NEW r, Expecting(s, m, r), NEW x, NEW a, a = m.who[r].request,
           n.who[r] = m.who[r], m.inbox[a] \in Seq(Responses), x \in Responses,
           n.inbox[a] = Append(m.inbox[a], x),
           ReplyOK(s, r, m.who[r].method, x),
           \/ m.who[r].method = "CacheOnly"
           \/ KeyOf[r] \notin Changing
           \/ /\ n.tasks[a].state # "asked"
              /\ Bears(x) => /\ m.tasks[a].ref # Dead /\ m.tasks[a].state = "asked"
                             /\ x.data = m.tasks[a].answer
    PROVE  Expecting(s, n, r)
<1> DEFINE box == m.inbox[a]
           L == Len(box)
           more == n.inbox[a]
<1>1. /\ L \in Nat /\ Len(more) = L + 1 /\ more[L + 1] = x
      /\ \A j \in 1..L : more[j] = box[j]
    <2>1. box \in Seq(Responses) /\ more = Append(box, x) /\ x \in Responses
        OBVIOUS
    <2> HIDE DEF box, more
    <2> QED BY ONLY <2>1, AppendFacts DEF L
<1>2. \A j \in 1..(L + 1) : j \in 1..L \/ j = L + 1
    <2>1. L \in Nat
        BY <1>1
    <2> HIDE DEF L
    <2> QED BY ONLY <2>1
<1>3. (\A j \in 1..L : ReplyOK(s, r, m.who[r].method, box[j])) /\ TrailOK(r, m.who[r], box, m.tasks[a])
    BY DEF Expecting
<1> HIDE DEF box, more, L
<1>4. \A j \in 1..Len(more) : ReplyOK(s, r, n.who[r].method, more[j])
    BY <1>1, <1>2, <1>3 DEF L
<1>5. TrailOK(r, n.who[r], more, n.tasks[a])
    <2> SUFFICES ASSUME m.who[r].method # "CacheOnly", KeyOf[r] \in Changing
                 PROVE  TrailOK(r, n.who[r], more, n.tasks[a])
        BY <1>3 DEF TrailOK
    <2>1. Follow(box, m.who[r].data) /\ Ascending(box)
        BY <1>3 DEF TrailOK
    <2>2. Bears(x) => m.who[r].data =< x.data /\ Precede(box, x.data)
        BY <1>3 DEF TrailOK
    <2>3. Follow(more, m.who[r].data)
        BY <1>1, <1>2, <2>1, <2>2 DEF Follow, L
    <2>4. Ascending(more)
        <3>1. ASSUME NEW i \in 1..(L + 1), NEW j \in 1..(L + 1), i < j, Bears(more[i]), Bears(more[j])
              PROVE  more[i].data =< more[j].data
            <4>1. i \in 1..L
                <5>1. L \in Nat /\ i \in 1..(L + 1) /\ j \in 1..(L + 1) /\ i < j
                    BY <1>1, <3>1
                <5> QED BY ONLY <5>1
            <4>2. CASE j \in 1..L
                BY <1>1, <2>1, <3>1, <4>1, <4>2 DEF Ascending, L
            <4>3. CASE j = L + 1
                BY <1>1, <2>2, <3>1, <4>1, <4>3 DEF Precede, L
            <4> QED BY <1>2, <4>2, <4>3
        <3>2. Len(more) = L + 1
            BY <1>1
        <3> QED BY ONLY <3>1, <3>2 DEF Ascending
    <2>5. n.tasks[a].state # "asked"
        OBVIOUS
    <2> QED BY <2>3, <2>4, <2>5 DEF TrailOK
<1> QED BY <1>4, <1>5 DEF Expecting, more

LEMMA ServedVersions ==
    ASSUME IInv, VersionInv, UNCHANGED <<requestor, server>>, NEW a \in Addresses,
           \A i \in 1..Len(queue') : MessageOK(server, queue'[i], requestor),
           \A b \in Addresses : b # a => tasks'[b] = tasks[b] /\ inbox'[b] = inbox[b],
           TaskOK(server, tasks'[a], requestor),
           Owned(Main, a) \/ inbox'[a] = inbox[a],
           \A r \in Requestors : requestor[r].request = a =>
              Expecting(server, [who |-> requestor, inbox |-> inbox', queue |-> queue', tasks |-> tasks'], r),
           RowsOK(server, db')
    PROVE  VersionInv'
<1> DEFINE n == [who |-> requestor, inbox |-> inbox', queue |-> queue', tasks |-> tasks']
<1>1. Main' = n
    BY DEF Main
<1>2. n.who = requestor /\ n.inbox = inbox' /\ n.queue = queue' /\ n.tasks = tasks'
    OBVIOUS
<1>3. \A r \in Requestors : requestor[r].request = a => Expecting(server, n, r)
    OBVIOUS
<1> HIDE DEF n
<1>4. InFlight(server, n)
    <2>1. PICK m : m = Main
        OBVIOUS
    <2>2. /\ InFlight(server, m) /\ m.who = requestor /\ m.inbox = inbox /\ m.tasks = tasks
          /\ m.who \in [Requestors -> Who] /\ (Owned(m, a) \/ inbox'[a] = inbox[a])
        BY <2>1, Known, KnownVersions
    <2>3. /\ n.who = m.who /\ \A i \in 1..Len(n.queue) : MessageOK(server, n.queue[i], m.who)
          /\ \A b \in Addresses : b # a => n.tasks[b] = m.tasks[b] /\ n.inbox[b] = m.inbox[b]
          /\ TaskOK(server, n.tasks[a], m.who) /\ (Owned(m, a) \/ n.inbox[a] = m.inbox[a])
          /\ \A r \in Requestors : m.who[r].request = a => Expecting(server, n, r)
        BY <1>2, <1>3, <2>2
    <2>4. \A i \in 1..Len(n.queue) : MessageOK(server, n.queue[i], m.who)
        BY <2>3
    <2> HIDE DEF Owned
    <2> QED BY ONLY <2>2, <2>3, <2>4, ServedInFlight, a \in Addresses
<1>5. InFlight(server', Main') /\ RowsOK(server', db') /\ Steady(server')
    BY <1>1, <1>4 DEF VersionInv
<1> QED BY <1>5 DEF VersionInv

LEMMA VersionParts ==
    ASSUME IInv, VersionInv
    PROVE  /\ \A i \in 1..Len(queue) : MessageOK(server, queue[i], requestor)
           /\ \A a \in Addresses : TaskOK(server, tasks[a], requestor)
           /\ \A r \in Requestors : requestor[r].request # NoAddress =>
                 /\ Expecting(server, Main, r)
                 /\ \A j \in 1..Len(inbox[requestor[r].request]) :
                       ReplyOK(server, r, requestor[r].method, inbox[requestor[r].request][j])
                 /\ TrailOK(r, requestor[r], inbox[requestor[r].request], tasks[requestor[r].request])
           /\ RowsOK(server, db) /\ Steady(server)
<1>1. PICK m : m = Main
    OBVIOUS
<1>2. /\ InFlight(server, m) /\ m.who = requestor /\ m.inbox = inbox /\ m.queue = queue
      /\ m.tasks = tasks /\ RowsOK(server, db) /\ Steady(server)
    BY <1>1, Known DEF VersionInv
<1>3. /\ \A i \in 1..Len(m.queue) : MessageOK(server, m.queue[i], m.who)
      /\ \A a \in Addresses : TaskOK(server, m.tasks[a], m.who)
      /\ \A r \in Requestors : m.who[r].request # NoAddress => Expecting(server, m, r)
    BY <1>2 DEF InFlight
<1>4. \A r \in Requestors : requestor[r].request # NoAddress =>
         /\ Expecting(server, m, r)
         /\ \A j \in 1..Len(inbox[requestor[r].request]) :
               ReplyOK(server, r, requestor[r].method, inbox[requestor[r].request][j])
         /\ TrailOK(r, requestor[r], inbox[requestor[r].request], tasks[requestor[r].request])
    BY <1>2, <1>3 DEF Expecting
<1> QED BY <1>1, <1>2, <1>3, <1>4

(* A reply x to ref may be sent when the online request at address a becomes t. *)
MayReply(a, t, ref, x) ==
    ref # Dead =>
        /\ ref = a /\ Owned(Main, a)
        /\ \A r \in Requestors : requestor[r].request = a =>
              /\ ReplyOK(server, r, requestor[r].method, x)
              /\ \/ requestor[r].method = "CacheOnly"
                 \/ KeyOf[r] \notin Changing
                 \/ /\ t.state # "asked"
                    /\ Bears(x) => /\ tasks[a].ref # Dead /\ tasks[a].state = "asked"
                                   /\ x.data = tasks[a].answer

(* The file source thread replies at most to the request at address a, and sets the online    *)
(* request there; the server is not asked.                                                    *)
LEMMA AnsweringVersions ==
    ASSUME IInv, VersionInv, UNCHANGED <<requestor, server>>, NEW a \in Addresses, NEW t,
           \A i \in 1..Len(queue') : MessageOK(server, queue'[i], requestor),
           tasks' = [tasks EXCEPT ![a] = t], TaskOK(server, t, requestor),
           t = tasks[a] \/ t.state # "asked", RowsOK(server, db'),
           NEW ref, NEW x \in Responses, MayReply(a, t, ref, x),
           inbox' = inbox \/ inbox' = Replied(ref, x)
    PROVE  VersionInv'
<1> DEFINE n == [who |-> requestor, inbox |-> inbox', queue |-> queue', tasks |-> tasks']
<1>1. n.who = requestor /\ n.inbox = inbox' /\ n.tasks = tasks'
    OBVIOUS
<1>2. tasks'[a] = t /\ \A b \in Addresses : b # a => tasks'[b] = tasks[b]
    BY Known
<1>3. \/ inbox' = inbox
      \/ /\ ref # Dead /\ inbox'[a] = Append(inbox[a], x)
         /\ \A b \in Addresses : b # a => inbox'[b] = inbox[b]
    BY Known DEF Replied, MayReply
<1>4. Owned(Main, a) \/ inbox'[a] = inbox[a]
    BY <1>3 DEF MayReply
<1> HIDE DEF n
<1>5. ASSUME NEW r \in Requestors, requestor[r].request = a PROVE Expecting(server, n, r)
    <2>1. PICK m : m = Main
        OBVIOUS
    <2>2. /\ Expecting(server, m, r) /\ m.who = requestor /\ m.inbox = inbox /\ m.tasks = tasks
          /\ m.inbox[a] \in Seq(Responses)
        BY <1>5, <2>1, Known, VersionParts
    <2>3. CASE inbox' = inbox
        BY <1>1, <1>2, <1>5, <2>2, <2>3, ExpectingSame
    <2>4. CASE ref # Dead /\ inbox'[a] = Append(inbox[a], x)
        <3>1. /\ a = m.who[r].request /\ n.who[r] = m.who[r] /\ n.inbox[a] = Append(m.inbox[a], x)
              /\ ReplyOK(server, r, m.who[r].method, x)
            BY <1>1, <1>5, <2>2, <2>4 DEF MayReply
        <3>2. \/ m.who[r].method = "CacheOnly"
              \/ KeyOf[r] \notin Changing
              \/ /\ n.tasks[a].state # "asked"
                 /\ Bears(x) => /\ m.tasks[a].ref # Dead /\ m.tasks[a].state = "asked"
                                /\ x.data = m.tasks[a].answer
            BY <1>1, <1>2, <1>5, <2>2, <2>4 DEF MayReply
        <3> QED BY ONLY <2>2, <3>1, <3>2, RepliedExpecting, x \in Responses
    <2> QED BY <1>3, <2>3, <2>4
<1>6. TaskOK(server, tasks'[a], requestor) /\ \A b \in Addresses : b # a => inbox'[b] = inbox[b]
    BY <1>2, <1>3
<1>7. \A r \in Requestors : requestor[r].request = a =>
         Expecting(server, [who |-> requestor, inbox |-> inbox', queue |-> queue', tasks |-> tasks'], r)
    BY <1>5 DEF n
<1> QED BY <1>2, <1>4, <1>6, <1>7, ServedVersions

LEMMA QuietVersions ==
    ASSUME IInv, VersionInv, UNCHANGED <<requestor, server, inbox>>, NEW a \in Addresses, NEW t,
           \A i \in 1..Len(queue') : MessageOK(server, queue'[i], requestor),
           tasks' = [tasks EXCEPT ![a] = t], TaskOK(server, t, requestor),
           t = tasks[a] \/ t.state # "asked", RowsOK(server, db')
    PROVE  VersionInv'
<1>1. Response("Other", FALSE, 0, 0, TRUE) \in Responses
    BY ResponseType, Known
<1>2. PICK x \in Responses : TRUE
    BY <1>1
<1>3. inbox' = inbox /\ MayReply(a, t, Dead, x)
    BY DEF MayReply
<1> QED BY <1>3, AnsweringVersions

LEMMA ImplStepVersions == ASSUME IInv, VersionInv, ImplStep PROVE VersionInv'
<1> DEFINE x == Head(queue)
<1>1. /\ queue # <<>> /\ queue' = Tail(queue) /\ UNCHANGED <<requestor, server>>
      /\ \/ x.kind = "request" /\ RequestCacheOnly(x)
         \/ x.kind = "request" /\ RequestNetworkOnly(x)
         \/ x.kind = "request" /\ RequestAll(x)
         \/ x.kind = "cancel" /\ Cancel(x)
    BY DEF ImplStep
<1>2. /\ x \in Messages /\ x = queue[1] /\ 1 \in 1..Len(queue)
      /\ \A i \in 1..Len(queue') : i + 1 \in 1..Len(queue) /\ queue'[i] = queue[i + 1]
    BY <1>1, Known
<1>3. MessageOK(server, x, requestor) /\ \A i \in 1..Len(queue') : MessageOK(server, queue'[i], requestor)
    <2> HIDE DEF x
    <2> QED BY <1>2, VersionParts
<1>4. x.kind = "request" /\ x.ref # Dead =>
         /\ x.ref = x.addr /\ Owned(Main, x.addr)
         /\ \A r \in Requestors : requestor[r].request = x.ref => x.method = requestor[r].method
    <2>1. PICK m : m = Main
        OBVIOUS
    <2>2. Referenced(m) /\ m.queue = queue /\ m.who = requestor
        BY <2>1, Known DEF Follows
    <2> HIDE DEF x
    <2>3. x = m.queue[1] /\ 1 \in 1..Len(m.queue)
        BY <1>2, <2>2
    <2>4. x.kind = "request" /\ x.ref # Dead =>
             /\ x.ref = x.addr /\ Owned(m, x.addr)
             /\ \A r \in Requestors : m.who[r].request = x.ref => x.method = m.who[r].method
        BY <2>2, <2>3 DEF Referenced
    <2> QED BY <2>1, <2>2, <2>4
<1> HIDE DEF x
<1>5. x.addr \in Addresses /\ (x.kind = "request" => x \in Requests)
    BY <1>2 DEF Messages, Cancels, Requests
<1>6. x.kind = "request" => /\ x.ref \in References /\ x.key \in Keys
                             /\ x.etag \in Versions /\ x.prior \in Versions
    BY <1>5 DEF Requests
<1>7. x.kind = "request" =>
         /\ x.prior =< server[x.key] /\ (x.key \in Changing => x.prior = 0 /\ x.method # "All")
         /\ \A r \in Requestors : x.ref # Dead /\ requestor[r].request = x.ref => x.key = KeyOf[r]
    BY <1>3 DEF MessageOK
<1>8. RowsOK(server, db) /\ RowsOK(server, Touched(db, x.key))
    BY VersionParts, TouchedVersions
<1>9. Stored(db, x.key) => /\ db.rows[x.key].data \in 1..server[x.key]
                           /\ (x.key \in Changing => db.rows[x.key].usable)
    BY <1>8 DEF Stored, RowsOK
<1>10. CASE x.kind = "request" /\ RequestCacheOnly(x)
    <2> DEFINE missed == Response("NotFound", FALSE, 0, 0, TRUE)
               unusable == [Cached(db, x.key) EXCEPT !.error = "NotFound"]
               response == IF ~Stored(db, x.key) THEN missed
                           ELSE IF db.rows[x.key].usable THEN Cached(db, x.key) ELSE unusable
    <2>1. /\ inbox' = Replied(x.ref, response) /\ x.method = "CacheOnly" /\ tasks' = tasks
          /\ db' = Touched(db, x.key)
        BY <1>10 DEF RequestCacheOnly
    <2>2. missed \in Responses
        BY ResponseType, Known
    <2>3. Stored(db, x.key) =>
             /\ Cached(db, x.key) \in Responses /\ unusable \in Responses
             /\ Cached(db, x.key).data = db.rows[x.key].data /\ Cached(db, x.key).error = "None"
             /\ unusable.data = db.rows[x.key].data /\ unusable.error = "NotFound"
        <3> SUFFICES ASSUME Stored(db, x.key)
                     PROVE /\ Cached(db, x.key) \in Responses /\ unusable \in Responses
                           /\ Cached(db, x.key).data = db.rows[x.key].data
                           /\ Cached(db, x.key).error = "None"
                           /\ unusable.data = db.rows[x.key].data /\ unusable.error = "NotFound"
            OBVIOUS
        <3>1. Cached(db, x.key) \in Responses /\ unusable \in Responses
            BY <1>6, <1>10, CachedFacts
        <3>2. Cached(db, x.key).data = db.rows[x.key].data /\ Cached(db, x.key).error = "None"
            BY DEF Cached, Response
        <3> DEFINE c == Cached(db, x.key)
        <3>3. c \in Responses /\ c.data = db.rows[x.key].data
            BY <3>1, <3>2
        <3>4. unusable = [c EXCEPT !.error = "NotFound"]
            OBVIOUS
        <3> HIDE DEF c, unusable
        <3>5. unusable.data = c.data /\ unusable.error = "NotFound"
            BY <3>3, <3>4 DEF Responses
        <3> QED BY <3>1, <3>2, <3>3, <3>5
    <2>4. missed.error = "NotFound" /\ missed.data = 0
        BY DEF Response
    <2>5. response \in Responses
        <3> HIDE DEF missed, unusable
        <3> QED BY <2>2, <2>3
    <2>6. ASSUME NEW r \in Requestors, x.ref # Dead, requestor[r].request = x.addr
          PROVE  ReplyOK(server, r, requestor[r].method, response) /\ requestor[r].method = "CacheOnly"
        <3>1. KeyOf[r] = x.key /\ requestor[r].method = "CacheOnly"
            BY <1>4, <1>7, <1>10, <2>1, <2>6
        <3>2. server[x.key] \in Nat /\ 0 =< server[x.key]
            BY <1>6, <1>10, KnownVersions
        <3> HIDE DEF missed, unusable
        <3>3. CASE ~Stored(db, x.key)
            BY <2>4, <3>1, <3>2, <3>3 DEF ReplyOK, Bears
        <3>4. CASE Stored(db, x.key) /\ db.rows[x.key].usable
            BY <1>9, <2>3, <3>1, <3>2, <3>4 DEF ReplyOK, Bears
        <3>5. CASE Stored(db, x.key) /\ ~db.rows[x.key].usable
            BY <1>9, <2>3, <3>1, <3>2, <3>5 DEF ReplyOK, Bears
        <3> QED BY <3>1, <3>3, <3>4, <3>5
    <2> HIDE DEF response
    <2>7. /\ tasks' = [tasks EXCEPT ![x.addr] = tasks[x.addr]]
          /\ TaskOK(server, tasks[x.addr], requestor)
        BY <1>5, <2>1, Known, VersionParts
    <2>8. x.ref # Dead => x.ref = x.addr /\ Owned(Main, x.addr)
        BY <1>4, <1>10
    <2>9. UNCHANGED <<requestor, server>> /\ RowsOK(server, db')
        BY <1>1, <1>8, <2>1
    <2>10. MayReply(x.addr, tasks[x.addr], x.ref, response)
        BY <2>6, <2>8 DEF MayReply
    <2> QED BY <1>3, <1>5, <2>1, <2>5, <2>7, <2>9, <2>10, AnsweringVersions
<1>11. ASSUME x.kind = "request", NEW etag, NEW prior, prior =< server[x.key],
              x.key \in Changing => prior = 0
       PROVE  LET t == Armed(x.ref, x.key, etag, prior)
              IN  TaskOK(server, t, requestor) /\ t.state # "asked"
    <2> DEFINE t == Armed(x.ref, x.key, etag, prior)
    <2>1. t.prior = prior /\ t.key = x.key /\ t.ref = x.ref /\ t.state = "armed"
        BY DEF Armed
    <2> HIDE DEF t
    <2>2. TaskOK(server, t, requestor) /\ t.state # "asked"
        BY <1>7, <1>11, <2>1 DEF TaskOK
    <2> QED BY <2>2 DEF t
<1>12. CASE x.kind = "request" /\ RequestNetworkOnly(x)
    <2> DEFINE t == Armed(x.ref, x.key, x.etag, x.prior)
    <2>1. /\ db' = db /\ inbox' = inbox /\ tasks' = [tasks EXCEPT ![x.addr] = t]
          /\ UNCHANGED <<requestor, server, inbox>> /\ RowsOK(server, db')
        BY <1>1, <1>8, <1>12 DEF RequestNetworkOnly
    <2>2. TaskOK(server, t, requestor) /\ t.state # "asked"
        BY <1>7, <1>11, <1>12
    <2> HIDE DEF t
    <2> QED BY <1>3, <1>5, <2>1, <2>2, QuietVersions
<1>13. CASE x.kind = "request" /\ RequestAll(x)
    <2>1. x.method = "All" /\ db' = Touched(db, x.key) /\ x.key \notin Changing
        BY <1>7, <1>13 DEF RequestAll
    <2>2. UNCHANGED <<requestor, server>> /\ RowsOK(server, db')
        BY <1>1, <1>8, <2>1
    <2>3. CASE ~Stored(db, x.key)
        <3> DEFINE t == Armed(x.ref, x.key, x.etag, x.prior)
        <3>1. inbox' = inbox /\ tasks' = [tasks EXCEPT ![x.addr] = t] /\ UNCHANGED <<requestor, server, inbox>>
            BY <1>13, <2>2, <2>3 DEF RequestAll
        <3>2. TaskOK(server, t, requestor) /\ t.state # "asked"
            BY <1>7, <1>11, <1>13
        <3> HIDE DEF t
        <3> QED BY <1>3, <1>5, <2>2, <3>1, <3>2, QuietVersions
    <2>4. CASE Stored(db, x.key)
        <3> DEFINE row == db.rows[x.key]
                   t == Armed(x.ref, x.key, row.etag, row.data)
                   c == Cached(db, x.key)
        <3>1. /\ tasks' = [tasks EXCEPT ![x.addr] = t]
              /\ inbox' = inbox \/ inbox' = Replied(x.ref, c)
            BY <1>13, <2>4 DEF RequestAll
        <3>2. server[x.key] \in Nat
            BY <1>6, <1>13, KnownVersions
        <3>3. row.data \in 1..server[x.key] /\ row.data =< server[x.key]
            BY <1>9, <2>4, <3>2
        <3>4. TaskOK(server, t, requestor) /\ t.state # "asked"
            BY <1>11, <1>13, <2>1, <3>3
        <3>5. c \in Responses /\ c.data = row.data /\ c.error = "None"
            <4>1. c \in Responses
                BY <1>6, <1>13, <2>4, CachedFacts
            <4> QED BY <4>1 DEF Cached, Response
        <3> HIDE DEF t, c, row
        <3>6. ASSUME NEW r \in Requestors, x.ref # Dead, requestor[r].request = x.addr
              PROVE  ReplyOK(server, r, requestor[r].method, c) /\ KeyOf[r] \notin Changing
            <4>1. KeyOf[r] = x.key
                BY <1>4, <1>7, <1>13, <3>6
            <4> QED BY <2>1, <3>3, <3>5, <4>1 DEF ReplyOK
        <3>7. x.ref # Dead => x.ref = x.addr /\ Owned(Main, x.addr)
            BY <1>4, <1>13
        <3>8. MayReply(x.addr, t, x.ref, c)
            BY <3>6, <3>7 DEF MayReply
        <3> QED BY <1>3, <1>5, <2>2, <3>1, <3>4, <3>5, <3>8, AnsweringVersions
    <2> QED BY <2>3, <2>4
<1>14. CASE x.kind = "cancel" /\ Cancel(x)
    <2>1. /\ tasks' = [tasks EXCEPT ![x.addr] = NoTask] /\ UNCHANGED <<requestor, server, inbox>>
          /\ RowsOK(server, db')
        BY <1>1, <1>8, <1>14 DEF Cancel
    <2>2. /\ NoTask.ref = Dead /\ NoTask.state = "none" /\ NoTask.prior = 0
          /\ NoTask.key \in Keys
        <3>1. (CHOOSE k \in Keys : TRUE) \in Keys
            BY OfflineDatabaseAssumption
        <3> QED BY <3>1 DEF NoTask
    <2>3. server[NoTask.key] \in Nat
        BY <2>2, KnownVersions
    <2>4. TaskOK(server, NoTask, requestor)
        BY <2>2, <2>3 DEF TaskOK
    <2> QED BY <1>3, <1>5, <2>1, <2>2, <2>4, QuietVersions
<1> QED BY <1>1, <1>10, <1>12, <1>13, <1>14

(* What is known of an online request. *)
LEMMA TaskVersions ==
    ASSUME IInv, VersionInv, NEW a \in Addresses
    PROVE  /\ tasks[a] \in Tasks /\ TaskOK(server, tasks[a], requestor)
           /\ server[tasks[a].key] \in Nat
           /\ tasks[a].ref # Dead => /\ tasks[a].ref = a /\ Owned(Main, a)
                                     /\ \A r \in Requestors : requestor[r].request = a => tasks[a].key = KeyOf[r]
<1>1. PICK m : m = Main
    OBVIOUS
<1>2. Referenced(m) /\ m.tasks = tasks
    BY <1>1, Known DEF Follows
<1>3. tasks[a].ref # Dead => tasks[a].ref = a /\ Owned(m, a)
    BY <1>2 DEF Referenced
<1>4. tasks[a] \in Tasks /\ TaskOK(server, tasks[a], requestor) /\ server[tasks[a].key] \in Nat
    BY Known, VersionParts, KnownVersions DEF Tasks
<1>5. \A r \in Requestors : tasks[a].ref # Dead /\ requestor[r].request = tasks[a].ref => tasks[a].key = KeyOf[r]
    BY <1>4 DEF TaskOK
<1> QED BY <1>1, <1>3, <1>4, <1>5

LEMMA AskVersions == ASSUME IInv, VersionInv, NEW a \in Addresses, Ask(a) PROVE VersionInv'
<1> DEFINE t == [tasks[a] EXCEPT !.state = "asked", !.answer = server[tasks[a].key]]
           n == [who |-> requestor, inbox |-> inbox', queue |-> queue', tasks |-> tasks']
<1>1. tasks' = [tasks EXCEPT ![a] = t] /\ UNCHANGED <<requestor, inbox, queue, db, server>>
    BY Known DEF Ask
<1>2. /\ t.ref = tasks[a].ref /\ t.answer = server[tasks[a].key] /\ t.key = tasks[a].key
      /\ t.prior = tasks[a].prior
    BY TaskVersions DEF Tasks
<1>3. n.who = requestor /\ n.inbox = inbox /\ n.tasks = tasks'
    BY <1>1
<1> HIDE DEF t, n
<1>4. TaskOK(server, t, requestor)
    <2>1. TaskOK(server, tasks[a], requestor) /\ t.answer =< server[t.key]
        BY <1>2, TaskVersions
    <2> QED BY <1>2, <2>1 DEF TaskOK
<1>5. tasks'[a] = t /\ \A b \in Addresses : b # a => tasks'[b] = tasks[b]
    BY <1>1, Known
<1>6. ASSUME NEW r \in Requestors, requestor[r].request = a PROVE Expecting(server, n, r)
    <2> DEFINE box == inbox[a]
               w == requestor[r]
    <2>1. /\ \A j \in 1..Len(box) : ReplyOK(server, r, w.method, box[j])
          /\ TrailOK(r, w, box, tasks[a])
        BY <1>6, Known, VersionParts
    <2>2. HolderOK(server, r, w) /\ server[KeyOf[r]] \in Nat
        BY KnownVersions
    <2>3. t.ref # Dead => t.answer = server[KeyOf[r]]
        BY <1>2, <1>6, TaskVersions
    <2>4. n.who[r] = w /\ n.inbox[a] = box /\ n.tasks[a] = t /\ n.who[r].request = a
        BY <1>3, <1>5, <1>6
    <2> HIDE DEF box, w
    <2>5. Precede(box, server[KeyOf[r]])
        BY <2>1, <2>2 DEF Precede, ReplyOK
    <2>6. w.data =< server[KeyOf[r]]
        BY <2>2 DEF HolderOK
    <2>7. TrailOK(r, w, box, t)
        BY <2>1, <2>3, <2>5, <2>6 DEF TrailOK
    <2> QED BY <2>1, <2>4, <2>7 DEF Expecting
<1>7. \A r \in Requestors : requestor[r].request = a =>
         Expecting(server, [who |-> requestor, inbox |-> inbox', queue |-> queue', tasks |-> tasks'], r)
    BY <1>6 DEF n
<1>8. /\ \A i \in 1..Len(queue') : MessageOK(server, queue'[i], requestor)
      /\ RowsOK(server, db')
    BY <1>1, VersionParts
<1> QED BY <1>1, <1>4, <1>5, <1>7, <1>8, ServedVersions

(* An answer or the data kept as priorData. *)
LEMMA ValidatedVersions ==
    ASSUME NEW s \in [Keys -> Nat], NEW t \in Tasks, t.state = "asked", t.answer # 0, NEW who, TaskOK(s, t, who)
    PROVE  LET done == Validated(t)
           IN  /\ Bears(done.response) => done.response.data \in 1..s[t.key]
               /\ Bears(done.response) /\ t.key \in Changing => done.response.data = t.answer
               /\ done.response.error = "None" /\ done.response.usable
               /\ done.prior =< s[t.key] /\ (t.key \in Changing => done.prior = 0)
<1>1. /\ t.answer \in Nat /\ t.prior \in Nat /\ s[t.key] \in Nat /\ t.answer =< s[t.key]
      /\ t.prior =< s[t.key] /\ (t.key \in Changing => t.prior = 0)
    BY DEF Tasks, Versions, TaskOK
<1>2. CASE t.answer # t.etag
    <2> DEFINE response == Response("None", FALSE, t.answer, t.answer, TRUE)
    <2>1. Validated(t) = [response |-> response, prior |-> t.prior]
        BY <1>2 DEF Validated
    <2>2. response.data = t.answer /\ response.error = "None" /\ response.usable
        BY DEF Response
    <2> HIDE DEF response
    <2> QED BY <1>1, <2>1, <2>2
<1>3. CASE t.answer = t.etag /\ t.prior # 0
    <2> DEFINE response == Response("None", FALSE, t.prior, t.etag, TRUE)
    <2>1. Validated(t) = [response |-> response, prior |-> 0]
        BY <1>3 DEF Validated
    <2>2. response.data = t.prior /\ response.error = "None" /\ response.usable
        BY DEF Response
    <2> HIDE DEF response
    <2> QED BY <1>1, <1>3, <2>1, <2>2
<1>4. CASE t.answer = t.etag /\ t.prior = 0
    <2> DEFINE response == Response("None", TRUE, 0, t.etag, TRUE)
    <2>1. Validated(t) = [response |-> response, prior |-> 0]
        BY <1>4 DEF Validated
    <2>2. response.notModified /\ response.error = "None" /\ response.usable
        BY DEF Response
    <2> HIDE DEF response
    <2> QED BY <1>1, <2>1, <2>2 DEF Bears
<1> QED BY <1>2, <1>3, <1>4

LEMMA CompleteVersions == ASSUME IInv, VersionInv, NEW a \in Addresses, Complete(a) PROVE VersionInv'
<1> DEFINE done == Validated(tasks[a])
           x == done.response
<1>1. /\ tasks[a].state = "asked" /\ UNCHANGED <<requestor, queue, server>>
      /\ db' = Put(db, tasks[a].key, x) /\ inbox' = Replied(tasks[a].ref, x)
    BY DEF Complete
<1>2. PICK next \in {"armed", "idle"} :
         tasks' = [tasks EXCEPT ![a].state = next, ![a].answer = 0,
                                ![a].etag = tasks[a].answer, ![a].prior = done.prior]
    BY DEF Complete
<1>3. /\ tasks[a] \in Tasks /\ tasks[a].answer # 0 /\ tasks[a].key \in Keys
      /\ server \in [Keys -> Nat] /\ TaskOK(server, tasks[a], requestor)
    BY <1>1, Known, KnownVersions, TaskVersions DEF Answered, Tasks
<1>4. /\ Bears(x) => x.data \in 1..server[tasks[a].key]
      /\ Bears(x) /\ tasks[a].key \in Changing => x.data = tasks[a].answer
      /\ x.error = "None" /\ x.usable
      /\ done.prior =< server[tasks[a].key] /\ (tasks[a].key \in Changing => done.prior = 0)
    BY <1>1, <1>3, ValidatedVersions
<1>5. x \in Responses
    BY <1>3, ValidatedFacts
<1> HIDE DEF done, x
<1> DEFINE t == [tasks[a] EXCEPT !.state = next, !.answer = 0, !.etag = tasks[a].answer,
                                 !.prior = done.prior]
<1>6. tasks' = [tasks EXCEPT ![a] = t]
    BY <1>2, Known
<1>7. /\ t.ref = tasks[a].ref /\ t.state # "asked" /\ t.key = tasks[a].key /\ t.prior = done.prior
    BY <1>3 DEF Tasks, TaskStates
<1> HIDE DEF t
<1>8. TaskOK(server, t, requestor)
    BY <1>3, <1>4, <1>7 DEF TaskOK
<1>9. RowsOK(server, db')
    BY <1>1, <1>3, <1>4, <1>5, Known, VersionParts, PutVersions
<1>10. ASSUME NEW r \in Requestors, tasks[a].ref # Dead, requestor[r].request = a
       PROVE  /\ ReplyOK(server, r, requestor[r].method, x)
              /\ \/ KeyOf[r] \notin Changing
                 \/ /\ t.state # "asked"
                    /\ Bears(x) => /\ tasks[a].ref # Dead /\ tasks[a].state = "asked"
                                   /\ x.data = tasks[a].answer
    <2>1. tasks[a].key = KeyOf[r]
        BY <1>10, TaskVersions
    <2> QED BY <1>1, <1>4, <1>7, <1>10, <2>1 DEF ReplyOK
<1>11. /\ \A i \in 1..Len(queue') : MessageOK(server, queue'[i], requestor)
       /\ tasks[a].ref # Dead => tasks[a].ref = a /\ Owned(Main, a)
    BY <1>1, VersionParts, TaskVersions
<1>12. MayReply(a, t, tasks[a].ref, x)
    BY <1>10, <1>11 DEF MayReply
<1> QED BY <1>1, <1>5, <1>6, <1>7, <1>8, <1>9, <1>11, <1>12, AnsweringVersions

LEMMA CompleteWithErrorVersions ==
    ASSUME IInv, VersionInv, NEW a \in Addresses, CompleteWithError(a) PROVE VersionInv'
<1>0. PICK next \in {"armed", "refused"} : tasks' = [tasks EXCEPT ![a].state = next, ![a].answer = 0]
    BY DEF CompleteWithError
<1> DEFINE t == [tasks[a] EXCEPT !.state = next, !.answer = 0]
           x == Response("Other", FALSE, 0, tasks[a].etag, TRUE)
<1>1. /\ UNCHANGED <<requestor, queue, db, server>>
      /\ tasks' = [tasks EXCEPT ![a] = t] /\ inbox' = Replied(tasks[a].ref, x)
    BY <1>0, Known DEF CompleteWithError
<1>2. tasks[a] \in Tasks /\ TaskOK(server, tasks[a], requestor)
    BY TaskVersions
<1>3. t.ref = tasks[a].ref /\ t.state # "asked" /\ t.key = tasks[a].key /\ t.prior = tasks[a].prior
    BY <1>2 DEF Tasks, TaskStates
<1>4. x \in Responses /\ x.error = "Other"
    <2>1. tasks[a].etag \in Versions
        BY <1>2 DEF Tasks, TaskStates
    <2>2. x \in Responses
        BY <2>1, Known, ResponseType
    <2> QED BY <2>2 DEF Response
<1> HIDE DEF t, x
<1>5. TaskOK(server, t, requestor) /\ RowsOK(server, db')
    BY <1>1, <1>2, <1>3, VersionParts DEF TaskOK
<1>6. ASSUME NEW r \in Requestors
      PROVE  ReplyOK(server, r, requestor[r].method, x) /\ t.state # "asked" /\ ~Bears(x)
    BY <1>3, <1>4 DEF ReplyOK, Bears
<1>7. /\ \A i \in 1..Len(queue') : MessageOK(server, queue'[i], requestor)
      /\ tasks[a].ref # Dead => tasks[a].ref = a /\ Owned(Main, a)
    BY <1>1, VersionParts, TaskVersions
<1>8. MayReply(a, t, tasks[a].ref, x)
    BY <1>6, <1>7 DEF MayReply
<1> QED BY <1>1, <1>3, <1>4, <1>5, <1>7, <1>8, AnsweringVersions

(* The versions of the server only grow. *)
LEMMA InFlightGrows ==
    ASSUME NEW s \in [Keys -> Nat], NEW z \in [Keys -> Nat], \A k \in Keys : s[k] =< z[k],
           NEW m \in Snapshots, InFlight(s, m)
    PROVE  InFlight(z, m)
<1>1. /\ m.who \in [Requestors -> Who] /\ m.inbox \in [Addresses -> Seq(Responses)]
      /\ \A i \in 1..Len(m.queue) : m.queue[i] \in Messages
      /\ m.tasks \in [Addresses -> Tasks]
    BY DEF Snapshots
<1>2. \A i \in 1..Len(m.queue) : MessageOK(z, m.queue[i], m.who)
    <2> SUFFICES ASSUME NEW i \in 1..Len(m.queue), m.queue[i].kind = "request"
                 PROVE  MessageOK(z, m.queue[i], m.who)
        BY DEF MessageOK
    <2>1. m.queue[i] \in Requests /\ MessageOK(s, m.queue[i], m.who)
        BY <1>1 DEF Messages, Cancels, InFlight
    <2>2. m.queue[i].key \in Keys /\ m.queue[i].prior \in Nat
        BY <2>1 DEF Requests, Versions
    <2>3. m.queue[i].prior =< z[m.queue[i].key]
        <3>1. PICK key \in Keys, prior \in Nat : key = m.queue[i].key /\ prior = m.queue[i].prior
            BY <2>2
        <3>2. prior =< s[key] /\ s[key] =< z[key] /\ s[key] \in Nat /\ z[key] \in Nat
            BY <2>1, <3>1 DEF MessageOK
        <3> QED BY <3>1, <3>2
    <2> QED BY <2>1, <2>3 DEF MessageOK
<1>3. \A a \in Addresses : TaskOK(z, m.tasks[a], m.who)
    <2> TAKE a \in Addresses
    <2>1. PICK t \in Tasks : t = m.tasks[a]
        BY <1>1
    <2>2. TaskOK(s, t, m.who) /\ t.key \in Keys /\ t.prior \in Nat /\ t.answer \in Nat
        BY <2>1 DEF InFlight, Tasks, Versions
    <2>3. s[t.key] \in Nat /\ z[t.key] \in Nat /\ s[t.key] =< z[t.key]
        BY <2>2
    <2>4. TaskOK(z, t, m.who)
        BY <2>2, <2>3 DEF TaskOK
    <2> QED BY <2>1, <2>4
<1>4. ASSUME NEW r \in Requestors PROVE HolderOK(z, r, m.who[r])
    <2>1. PICK w \in Who : w = m.who[r]
        BY <1>1
    <2>2. HolderOK(s, r, w) /\ w.data \in Nat /\ w.prior \in Nat
        BY <2>1 DEF InFlight, Who, Versions
    <2>3. s[KeyOf[r]] \in Nat /\ z[KeyOf[r]] \in Nat /\ s[KeyOf[r]] =< z[KeyOf[r]]
        BY DefaultFileSourceAssumption
    <2>4. HolderOK(z, r, w)
        BY <2>2, <2>3 DEF HolderOK
    <2> QED BY <2>1, <2>4
<1>5. ASSUME NEW r \in Requestors, m.who[r].request # NoAddress PROVE Expecting(z, m, r)
    <2>1. Expecting(s, m, r) /\ m.who[r].request \in Addresses
        BY <1>1, <1>5 DEF InFlight, Who
    <2>2. PICK box \in Seq(Responses) : box = m.inbox[m.who[r].request]
        BY <1>1, <2>1
    <2>3. s[KeyOf[r]] \in Nat /\ z[KeyOf[r]] \in Nat /\ s[KeyOf[r]] =< z[KeyOf[r]]
        BY DefaultFileSourceAssumption
    <2>4. \A j \in 1..Len(box) : box[j].data \in Nat
        <3>1. \A x \in Responses : x.data \in Nat
            BY DEF Responses, Versions
        <3>2. \A j \in 1..Len(box) : box[j] \in Responses
            BY <2>2
        <3> QED BY <3>1, <3>2
    <2>5. \A j \in 1..Len(box) : ReplyOK(s, r, m.who[r].method, box[j])
        BY <2>1, <2>2 DEF Expecting
    <2>6. \A x : x.data \in Nat /\ ReplyOK(s, r, m.who[r].method, x) => ReplyOK(z, r, m.who[r].method, x)
        BY <2>3 DEF ReplyOK
    <2>7. TrailOK(r, m.who[r], box, m.tasks[m.who[r].request])
        BY <2>1, <2>2 DEF Expecting
    <2> QED BY <2>2, <2>4, <2>5, <2>6, <2>7 DEF Expecting
<1>6. \A a \in Addresses : ~Owned(m, a) => m.inbox[a] = <<>>
    BY DEF InFlight
<1> QED BY <1>2, <1>3, <1>4, <1>5, <1>6 DEF InFlight

LEMMA ServerChangesVersions ==
    ASSUME IInv, VersionInv, NEW k \in Keys, ServerChanges(k) PROVE VersionInv'
<1>1. /\ UNCHANGED <<requestor, inbox, queue, tasks, db>> /\ k \in Changing
      /\ server' = [server EXCEPT ![k] = @ + 1] /\ server \in [Keys -> Nat]
    BY KnownVersions DEF ServerChanges
<1>2. /\ server' \in [Keys -> Nat] /\ \A j \in Keys : server[j] =< server'[j]
      /\ \A j \in Keys \ Changing : server'[j] = server[j]
    BY <1>1
<1>3. InFlight(server', Main')
    <2>1. PICK m : m = Main
        OBVIOUS
    <2>2. PICK s : s = server
        OBVIOUS
    <2>3. PICK z : z = server'
        OBVIOUS
    <2>4. /\ s \in [Keys -> Nat] /\ z \in [Keys -> Nat] /\ \A j \in Keys : s[j] =< z[j]
          /\ m \in Snapshots /\ InFlight(s, m)
        BY <1>1, <1>2, <2>1, <2>2, <2>3, Known, KnownVersions
    <2>5. InFlight(z, m)
        BY <2>4, InFlightGrows
    <2>6. Main' = Main
        BY <1>1 DEF Main
    <2> QED BY <2>1, <2>3, <2>5, <2>6
<1>4. RowsOK(server', db)
    <2>1. ASSUME NEW j \in DOMAIN db.rows
          PROVE  db.rows[j].data \in 1..server'[j] /\ (j \in Changing => db.rows[j].usable)
        <3>1. db.rows[j].data \in 1..server[j] /\ (j \in Changing => db.rows[j].usable) /\ j \in Keys
            BY VersionParts, Known DEF RowsOK, Cache
        <3>2. server[j] \in Nat /\ server'[j] \in Nat /\ server[j] =< server'[j]
            BY <1>1, <1>2, <3>1
        <3> QED BY <3>1, <3>2
    <2> QED BY <2>1 DEF RowsOK
<1>5. Steady(server') /\ db' = db
    BY <1>1, <1>2, VersionParts DEF Steady
<1> QED BY <1>3, <1>4, <1>5 DEF VersionInv

LEMMA SameRowVersions ==
    ASSUME NEW s, NEW d, NEW e, RowsOK(s, d), DOMAIN e.rows = DOMAIN d.rows,
           \A j \in DOMAIN d.rows : /\ e.rows[j].data = d.rows[j].data
                                    /\ j \in Changing => e.rows[j] = d.rows[j]
    PROVE  RowsOK(s, e)
<1>1. ASSUME NEW k \in DOMAIN e.rows
      PROVE  e.rows[k].data \in 1..s[k] /\ (k \in Changing => e.rows[k].usable)
    <2>1. k \in DOMAIN d.rows
        BY <1>1
    <2>2. d.rows[k].data \in 1..s[k] /\ (k \in Changing => d.rows[k].usable)
        BY <2>1 DEF RowsOK
    <2> QED BY <2>1, <2>2
<1> QED BY <1>1 DEF RowsOK

LEMMA RowExpiresVersions ==
    ASSUME ChangesOfTiles, IInv, VersionInv, NEW k \in Keys, RowExpires(k) PROVE VersionInv'
<1>1. /\ UNCHANGED <<requestor, inbox, queue, tasks, server>> /\ k \in DOMAIN db.rows
      /\ k \notin Changing /\ db' = [db EXCEPT !.rows[k].usable = FALSE]
    BY DEF RowExpires, Stored, ChangesOfTiles
<1> DEFINE row == [db.rows[k] EXCEPT !.usable = FALSE]
           rows == [db.rows EXCEPT ![k] = row]
<1>2. db.rows \in [DOMAIN db.rows -> Rows] /\ db.rows[k] \in Rows
    BY <1>1, Known DEF Cache
<1>3. row.data = db.rows[k].data
    BY <1>2 DEF Rows
<1> HIDE DEF row
<1>4. /\ DOMAIN rows = DOMAIN db.rows /\ rows[k] = row
      /\ \A j \in DOMAIN db.rows : j # k => rows[j] = db.rows[j]
    BY <1>1, <1>2
<1>5. db' = [db EXCEPT !.rows = rows]
    BY <1>1 DEF row
<1> HIDE DEF rows
<1>6. RowsOK(server, db')
    <2>1. db'.rows = rows
        BY <1>5
    <2>2. \A j \in DOMAIN db.rows : /\ rows[j].data = db.rows[j].data
                                    /\ j \in Changing => rows[j] = db.rows[j]
        BY <1>1, <1>3, <1>4
    <2>3. RowsOK(server, db)
        BY VersionParts
    <2> QED BY <1>4, <2>1, <2>2, <2>3, SameRowVersions
<1>7. InFlight(server', Main') /\ Steady(server')
    <2>1. Main' = Main
        BY <1>1 DEF Main
    <2> QED BY <1>1, <2>1, KnownVersions, VersionParts
<1> QED BY <1>1, <1>6, <1>7 DEF VersionInv

LEMMA InitVersions == ASSUME ChangesOfTiles, Init PROVE VersionInv
<1>1. /\ requestor = [r \in Requestors |-> Absent] /\ inbox = [a \in Addresses |-> <<>>]
      /\ queue = <<>> /\ tasks = [a \in Addresses |-> NoTask] /\ server = [k \in Keys |-> 1]
    BY DEF Init
<1>2. /\ Absent.request = NoAddress /\ Absent.data = 0 /\ Absent.prior = 0
      /\ NoTask.ref = Dead /\ NoTask.state = "none" /\ NoTask.prior = 0 /\ NoTask.key \in Keys
    <2>1. (CHOOSE k \in Keys : TRUE) \in Keys
        BY OfflineDatabaseAssumption
    <2> QED BY <2>1 DEF Absent, NoTask
<1>3. \A k \in Keys : server[k] = 1
    BY <1>1
<1>4. InFlight(server, Main)
    <2>1. Main.who = requestor /\ Main.inbox = inbox /\ Main.queue = queue /\ Main.tasks = tasks
        BY DEF Main
    <2>2. 1..Len(queue) = {}
        BY <1>1
    <2>3. \A a \in Addresses : TaskOK(server, tasks[a], requestor)
        BY <1>1, <1>2, <1>3 DEF TaskOK
    <2>4. \A r \in Requestors : HolderOK(server, r, requestor[r]) /\ requestor[r].request = NoAddress
        BY <1>1, <1>2, <1>3, DefaultFileSourceAssumption DEF HolderOK
    <2> QED BY <1>1, <2>1, <2>2, <2>3, <2>4 DEF InFlight
<1>5. RowsOK(server, db)
    <2>1. PICK stored \in SUBSET Keys :
             \E usable \in {U \in SUBSET stored : stored \ U \subseteq MustRevalidate} :
                \E accessed \in Orders(stored) :
                   db = [rows |-> [k \in stored |-> Row(1, 1, k \in usable)], accessed |-> accessed]
        BY DEF Init
    <2>2. PICK usable \in SUBSET stored :
             /\ stored \ usable \subseteq MustRevalidate
             /\ \E accessed : db = [rows |-> [k \in stored |-> Row(1, 1, k \in usable)], accessed |-> accessed]
        BY <2>1
    <2>3. db.rows = [k \in stored |-> Row(1, 1, k \in usable)]
        BY <2>2
    <2>4. DOMAIN db.rows = stored
        BY <2>3
    <2>5. ASSUME NEW k \in stored
          PROVE  db.rows[k].data \in 1..server[k] /\ (k \in Changing => db.rows[k].usable)
        <3> DEFINE u == k \in usable
        <3>0. db.rows[k] = Row(1, 1, u)
            BY <2>3
        <3>1. db.rows[k].data = 1 /\ (k \in usable => db.rows[k].usable)
            <4>1. db.rows[k].data = 1 /\ db.rows[k].usable = u
                <5> HIDE DEF u
                <5> QED BY <3>0 DEF Row
            <4> QED BY <4>1
        <3>2. k \in Changing => k \in usable
            BY <2>2 DEF ChangesOfTiles
        <3> QED BY <1>3, <3>1, <3>2
    <2> QED BY <2>4, <2>5 DEF RowsOK
<1>6. Steady(server)
    BY <1>3 DEF Steady
<1> QED BY <1>4, <1>5, <1>6 DEF VersionInv

LEMMA NextVersions == ASSUME ChangesOfTiles, IInv, VersionInv, [Next]_vars PROVE VersionInv'
<1>1. ASSUME NEW r \in Requestors,
             Construct(r) \/ Destroy(r) \/ MakeRequired(r) \/ MakeOptional(r) \/ Receive(r)
      PROVE  VersionInv'
    BY <1>1, ConstructVersions, DestroyVersions, MakeRequiredVersions, MakeOptionalVersions,
       ReceiveVersions
<1>2. CASE ImplStep
    BY <1>2, ImplStepVersions
<1>3. ASSUME NEW a \in Addresses, Ask(a) \/ Complete(a) \/ CompleteWithError(a)
      PROVE  VersionInv'
    BY <1>3, AskVersions, CompleteVersions, CompleteWithErrorVersions
<1>4. ASSUME NEW k \in Keys, ServerChanges(k) \/ RowExpires(k) PROVE VersionInv'
    BY <1>4, ServerChangesVersions, RowExpiresVersions
<1>5. CASE UNCHANGED vars
    <2>1. Main' = Main /\ UNCHANGED <<db, server>>
        BY <1>5 DEF vars, Main
    <2> QED BY <2>1 DEF VersionInv
<1> QED BY <1>1, <1>2, <1>3, <1>4, <1>5 DEF Next

(* A request is sent by r: what every requestor shows is left alone. *)
LEMMA RequestedShows ==
    ASSUME NEW m \in Snapshots, NEW r \in Requestors, NEW method, NEW a, NEW q \in Requestors
    PROVE  Requested(m, r, method, a).who[q].data = m.who[q].data
<1> DEFINE x == [kind |-> "request", addr |-> a, ref |-> a, key |-> KeyOf[r], method |-> method,
                 etag |-> m.who[r].etag, prior |-> m.who[r].prior]
           w == [m.who[r] EXCEPT !.request = a, !.method = method]
           W == [m.who EXCEPT ![r] = w]
           n == Requested(m, r, method, a)
<1>1. /\ m = [who |-> m.who, inbox |-> m.inbox, queue |-> m.queue, tasks |-> m.tasks]
      /\ m.who \in [Requestors -> Who]
    BY DEF Snapshots
<1>2. n = [m EXCEPT !.who = W, !.queue = Append(m.queue, x)]
    BY <1>1 DEF Requested
<1>3. n.who = W
    <2> HIDE DEF n, W, x
    <2> QED BY <1>1, <1>2
<1>4. w.data = m.who[r].data
    BY <1>1 DEF Who
<1> HIDE DEF n, w
<1>5. n.who[q].data = m.who[q].data
    BY <1>1, <1>3, <1>4
<1> QED BY <1>5 DEF n

(* The main thread leaves the snapshot n, in which all but r, or all, show what they have shown. *)
LEMMA AfterCacheShows ==
    ASSUME NEW m \in Snapshots, NEW r \in Requestors, AfterCache(m, r)
    PROVE  \A q \in Requestors : requestor'[q].data = m.who[q].data
<1> TAKE q \in Requestors
<1>1. CASE Commit(m)
    BY <1>1 DEF Commit
<1>2. ASSUME NEW a \in Freed(m), Commit(Requested(m, r, "NetworkOnly", a))
      PROVE  requestor'[q].data = m.who[q].data
    <2> DEFINE n == Requested(m, r, "NetworkOnly", a)
    <2>1. n.who[q].data = m.who[q].data
        BY RequestedShows
    <2>2. requestor' = n.who
        BY <1>2 DEF Commit
    <2> HIDE DEF n
    <2> QED BY <2>1, <2>2
<1> QED BY <1>1, <1>2 DEF AfterCache

(* What a requestor keeps shows what it has shown, or something newer. *)
Newer(q) == requestor[q].alive /\ requestor'[q].alive => requestor'[q].data >= requestor[q].data

LEMMA ReceiveShows ==
    ASSUME IInv, VersionInv, NEW r \in Requestors, Receive(r), NEW q \in Requestors
    PROVE  Newer(q)
<1> DEFINE addr == requestor[r].request
           response == Head(inbox[addr])
           popped == [Main EXCEPT !.inbox[addr] = Tail(@)]
<1>1. /\ requestor[r].request # NoAddress /\ requestor[r] \in Who
      /\ addr \in Addresses /\ inbox[addr] # <<>> /\ inbox[addr] \in Seq(Responses)
    BY Known DEF Receive, Who
<1>2. response \in Responses /\ response = inbox[addr][1] /\ 1 \in 1..Len(inbox[addr])
    BY <1>1
<1>3. /\ requestor' \in [Requestors -> Who]
      /\ requestor \in [Requestors -> Who]
      /\ \A w \in Who : w.data \in Nat
    <2>1. IInv'
        BY ReceiveStep
    <2>2. Main' = [who |-> requestor', inbox |-> inbox', queue |-> queue', tasks |-> tasks']
        BY DEF Main
    <2>3. Main' \in Snapshots
        BY <2>1 DEF IInv, Follows
    <2> QED BY <2>2, <2>3, Known, SMTT(30) DEF Snapshots, Who, Versions
<1>4. popped.who = requestor
    BY Known
<1>5. /\ ReplyOK(server, r, requestor[r].method, response)
      /\ TrailOK(r, requestor[r], inbox[addr], tasks[addr])
    BY <1>1, <1>2, VersionParts
<1>6. CASE requestor[r].method # "CacheOnly"
    <2>1. requestor' = [requestor EXCEPT ![r] = LoadedData(requestor[r], response)]
        <3>1. Commit([popped EXCEPT !.who[r] = LoadedData(@, response)])
            BY <1>6 DEF Receive
        <3>2. [popped EXCEPT !.who[r] = LoadedData(@, response)].who
                 = [requestor EXCEPT ![r] = LoadedData(requestor[r], response)]
            BY <1>1, <1>4, Known
        <3> QED BY <3>1, <3>2 DEF Commit
    <2>2. q # r => requestor'[q] = requestor[q]
        BY <1>3, <2>1
    <2>3. q # r => Newer(q)
        BY <1>3, <2>2 DEF Newer
    <2>4. requestor'[r].data >= requestor[r].data
        <3>1. requestor'[r] = LoadedData(requestor[r], response)
            BY <1>3, <2>1
        <3>2. response.error \in {"None", "NotFound", "Other"} /\ response.data \in Nat
            BY <1>2 DEF Responses, Versions
        <3> HIDE DEF response, addr
        <3>3. \/ requestor'[r].data = requestor[r].data
              \/ requestor'[r].data = response.data /\ Bears(response)
            <4>1. LoadedData(requestor[r], response).data
                     = IF response.error = "Other" \/ response.notModified THEN requestor[r].data
                       ELSE response.data
                BY <1>1 DEF LoadedData, Who
            <4>2. response.error # "NotFound"
                BY <1>5, <1>6 DEF ReplyOK
            <4> QED BY <3>1, <3>2, <4>1, <4>2 DEF Bears
        <3>4. requestor[r].data \in Nat
            BY <1>1, <1>3
        <3>5. CASE Bears(response) /\ KeyOf[r] \in Changing
            <4>1. Follow(inbox[addr], requestor[r].data)
                BY <1>5, <1>6, <3>5 DEF TrailOK
            <4>2. requestor[r].data =< response.data
                BY <1>2, <3>5, <4>1 DEF Follow
            <4> QED BY <3>2, <3>3, <3>4, <4>2
        <3>6. CASE Bears(response) /\ KeyOf[r] \notin Changing
            <4>1. server[KeyOf[r]] = 1
                BY <3>6, KnownVersions, VersionParts DEF Steady
            <4>2. response.data \in 1..1 /\ requestor[r].data =< 1
                BY <1>5, <3>6, <4>1, KnownVersions DEF ReplyOK, HolderOK
            <4> QED BY <3>2, <3>3, <3>4, <4>2
        <3>7. CASE ~Bears(response)
            BY <3>3, <3>4, <3>7
        <3> QED BY <3>5, <3>6, <3>7
    <2>5. Newer(r)
        BY <2>4 DEF Newer
    <2> QED BY <2>3, <2>5
<1>7. CASE requestor[r].method = "CacheOnly"
    <2> DEFINE freed == Reset(Main, r)
               w == AfterReply(r)
               m == [freed EXCEPT !.who[r] = w]
    <2>1. /\ Follows(freed) /\ freed.who = [requestor EXCEPT ![r].request = NoAddress]
          /\ freed.who[r].request = w.request /\ w \in Who /\ w.request = NoAddress
          /\ AfterCache(m, r)
        BY <1>7, CacheReplyTaken
    <2> HIDE DEF freed, w
    <2>2. Follows(m)
        BY <2>1, WhoSet
    <2>3. q # r => m.who[q] = requestor[q]
        <3>1. freed \in Snapshots
            BY <2>1 DEF Follows
        <3>2. m.who = [freed.who EXCEPT ![r] = w]
            BY <3>1 DEF Snapshots
        <3> HIDE DEF m
        <3> QED BY <1>3, <2>1, <3>2
    <2> HIDE DEF m
    <2>4. requestor'[q].data = m.who[q].data
        BY <2>1, <2>2, AfterCacheShows DEF Follows
    <2>5. requestor[r].data = 0 /\ requestor'[r].data \in Nat
        BY <1>3, <1>5, <1>7 DEF TrailOK
    <2>6. CASE q = r
        BY <2>5, <2>6 DEF Newer
    <2>7. CASE q # r
        <3>1. requestor'[q].data = requestor[q].data /\ requestor[q].data \in Nat
            BY <1>3, <2>3, <2>4, <2>7
        <3> QED BY <3>1 DEF Newer
    <2> QED BY <2>6, <2>7
<1> QED BY <1>6, <1>7

(* The other steps of the main thread leave what is shown alone. *)
LEMMA MainShows ==
    ASSUME IInv, NEW r \in Requestors, Construct(r) \/ Destroy(r) \/ MakeRequired(r) \/ MakeOptional(r),
           NEW q \in Requestors
    PROVE  Newer(q)
<1>1. /\ requestor \in [Requestors -> Who] /\ \A p \in Requestors : requestor[p].data \in Nat
      /\ \A p \in Requestors : requestor[p] \in Who
    BY Known DEF Who, Versions
<1>2. ASSUME NEW w \in Who
      PROVE  /\ [Main EXCEPT !.who[r] = w] \in Snapshots
             /\ [Main EXCEPT !.who[r] = w].who[r] = w
             /\ \A p \in Requestors : p # r => [Main EXCEPT !.who[r] = w].who[p] = requestor[p]
    <2> DEFINE m == [Main EXCEPT !.who[r] = w]
    <2>1. m = [who |-> [requestor EXCEPT ![r] = w], inbox |-> inbox, queue |-> queue, tasks |-> tasks]
        <3>1. m = [Main EXCEPT !.who = [requestor EXCEPT ![r] = w]]
            BY Known
        <3> HIDE DEF m
        <3> QED BY <3>1, Known
    <2>2. [requestor EXCEPT ![r] = w] \in [Requestors -> Who]
        BY <1>1
    <2>3. m \in Snapshots
        BY <2>1, <2>2, Known DEF Snapshots
    <2>4. m.who[r] = w /\ \A p \in Requestors : p # r => m.who[p] = requestor[p]
        <3> HIDE DEF m
        <3> QED BY <1>1, <2>1
    <2> QED BY <2>3, <2>4
<1>3. CASE Construct(r)
    <2> DEFINE plain == r \in Plain
               w == [Absent EXCEPT !.alive = TRUE, !.required = plain,
                                   !.since = IF plain THEN server[KeyOf[r]] ELSE 0]
               method == IF plain THEN "All" ELSE "CacheOnly"
               m == [Main EXCEPT !.who[r] = w]
    <2>1. PICK a \in Freed(Main) : Commit(Requested(m, r, method, a))
        BY <1>3 DEF Construct
    <2>2. ~requestor[r].alive
        BY <1>3 DEF Construct
    <2>3. w \in Who
        <3> DEFINE since == IF plain THEN server[KeyOf[r]] ELSE 0
        <3>1. server[KeyOf[r]] \in Versions /\ 0 \in Versions
            BY Known, DefaultFileSourceAssumption
        <3>2. since \in Versions /\ plain \in BOOLEAN
            BY <3>1
        <3>3. Absent \in Who
            BY Known DEF Who, Absent, Methods
        <3>4. w = [Absent EXCEPT !.alive = TRUE, !.required = plain, !.since = since]
            OBVIOUS
        <3> HIDE DEF since, plain, w
        <3> QED BY <3>2, <3>3, <3>4 DEF Who
    <2> HIDE DEF w, method
    <2>4. m \in Snapshots /\ (q # r => m.who[q] = requestor[q])
        BY <1>2, <2>3
    <2> HIDE DEF m
    <2>5. Requested(m, r, method, a).who[q].data = m.who[q].data
        BY <2>4, RequestedShows
    <2>6. requestor' = Requested(m, r, method, a).who
        BY <2>1 DEF Commit
    <2>7. q # r => requestor'[q].data = requestor[q].data
        BY <2>4, <2>5, <2>6
    <2> QED BY <1>1, <2>2, <2>7 DEF Newer
<1>4. CASE Destroy(r)
    <2> DEFINE m == IF requestor[r].request = NoAddress THEN Main ELSE Reset(Main, r)
               n == [m EXCEPT !.who[r] = Absent]
    <2>1. Commit(n)
        BY <1>4 DEF Destroy
    <2>2. /\ m \in Snapshots /\ m.who \in [Requestors -> Who]
          /\ \A p \in Requestors : p # r => m.who[p] = requestor[p]
        <3>1. CASE requestor[r].request = NoAddress
            BY <1>1, <3>1, Known
        <3>2. CASE requestor[r].request # NoAddress
            <4>1. PICK M : M = Main
                OBVIOUS
            <4>2. Follows(M) /\ M.who = requestor /\ M.tasks = tasks /\ M.who[r].request # NoAddress
                BY <3>2, <4>1, Known
            <4>3. Follows(Reset(M, r)) /\ Reset(M, r).who = [M.who EXCEPT ![r].request = NoAddress]
                BY <4>2, ResetSet
            <4>4. m = Reset(M, r)
                BY <3>2, <4>1
            <4> HIDE DEF m
            <4>5. m \in Snapshots /\ m.who = [requestor EXCEPT ![r].request = NoAddress]
                BY <4>2, <4>3, <4>4 DEF Follows
            <4> QED BY <1>1, <4>5 DEF Snapshots
        <3> QED BY <3>1, <3>2
    <2> HIDE DEF m
    <2>3. n.who = [m.who EXCEPT ![r] = Absent]
        BY <2>2 DEF Snapshots
    <2> HIDE DEF n
    <2>4. requestor' = [m.who EXCEPT ![r] = Absent] /\ ~Absent.alive
        BY <2>1, <2>3 DEF Commit, Absent
    <2>5. CASE q = r
        BY <2>2, <2>4, <2>5 DEF Newer
    <2>6. CASE q # r
        <3>1. requestor'[q] = requestor[q]
            BY <2>2, <2>4, <2>6
        <3> QED BY <1>1, <3>1 DEF Newer
    <2> QED BY <2>5, <2>6
<1>5. ASSUME NEW w \in Who, w.data = requestor[r].data, NEW m, m = [Main EXCEPT !.who[r] = w],
             \/ Commit(m)
             \/ \E a : Commit(Requested(m, r, "NetworkOnly", a))
             \/ Follows(m) /\ m.tasks = tasks /\ m.who[r].request # NoAddress /\ Commit(Reset(m, r))
      PROVE  Newer(q)
    <2>0. /\ [Main EXCEPT !.who[r] = w] \in Snapshots
          /\ [Main EXCEPT !.who[r] = w].who[r] = w
          /\ \A p \in Requestors : p # r => [Main EXCEPT !.who[r] = w].who[p] = requestor[p]
        BY <1>2
    <2>1. /\ m \in Snapshots /\ m.who[r] = w
          /\ \A p \in Requestors : p # r => m.who[p] = requestor[p]
        BY <1>5, <2>0
    <2>2. m.who[q].data = requestor[q].data /\ m.who \in [Requestors -> Who]
        BY <1>5, <2>1 DEF Snapshots
    <2>3. requestor'[q].data = m.who[q].data
        <3>1. CASE Commit(m)
            BY <3>1 DEF Commit
        <3>2. ASSUME NEW a, Commit(Requested(m, r, "NetworkOnly", a))
              PROVE  requestor'[q].data = m.who[q].data
            <4>1. Requested(m, r, "NetworkOnly", a).who[q].data = m.who[q].data
                BY <2>1, RequestedShows
            <4>2. requestor' = Requested(m, r, "NetworkOnly", a).who
                BY <3>2 DEF Commit
            <4> QED BY <4>1, <4>2
        <3>3. CASE Follows(m) /\ m.tasks = tasks /\ m.who[r].request # NoAddress /\ Commit(Reset(m, r))
            <4>1. Reset(m, r).who = [m.who EXCEPT ![r].request = NoAddress]
                BY <3>3, ResetSet
            <4>2. requestor' = [m.who EXCEPT ![r].request = NoAddress]
                BY <3>3, <4>1 DEF Commit
            <4> QED BY <2>2, <4>2 DEF Who
        <3> QED BY <1>5, <3>1, <3>2, <3>3
    <2> QED BY <1>1, <2>2, <2>3 DEF Newer
<1>6. CASE MakeRequired(r)
    <2> DEFINE w == [requestor[r] EXCEPT !.required = TRUE, !.since = server[KeyOf[r]]]
               m == [Main EXCEPT !.who[r] = w]
    <2>1. w \in Who /\ w.data = requestor[r].data
        <3>1. server[KeyOf[r]] \in Versions
            BY Known, DefaultFileSourceAssumption
        <3> QED BY <1>1, <3>1 DEF Who
    <2>2. m = [Main EXCEPT !.who[r].required = TRUE, !.who[r].since = server[KeyOf[r]]]
        BY Known
    <2>3. Commit(m) \/ \E a : Commit(Requested(m, r, "NetworkOnly", a))
        BY <1>6, <2>2 DEF MakeRequired
    <2> HIDE DEF w
    <2> QED BY <1>5, <2>1, <2>3
<1>7. CASE MakeOptional(r)
    <2> DEFINE w == [requestor[r] EXCEPT !.required = FALSE]
               m == [Main EXCEPT !.who[r] = w]
    <2>1. /\ w \in Who /\ w.data = requestor[r].data /\ w.request = requestor[r].request
          /\ w.method = requestor[r].method
        BY <1>1 DEF Who
    <2>2. m = [Main EXCEPT !.who[r].required = FALSE]
        BY Known
    <2>3. Commit(m) \/ (requestor[r].request # NoAddress /\ Commit(Reset(m, r)))
        BY <1>7, <2>2 DEF MakeOptional
    <2>4. requestor[r].request # NoAddress => w.alive
        BY <1>1, Known DEF Follows, Allocated, Who, w
    <2> HIDE DEF w
    <2>5. Follows(m) /\ m.who[r] = w /\ m.tasks = tasks
        <3>1. /\ Follows(Main) /\ w.request = Main.who[r].request /\ Main.tasks = tasks
              /\ w.request # NoAddress => w.alive /\ w.method = Main.who[r].method
            BY <2>1, <2>4, Known
        <3> QED BY <2>1, <3>1, WhoSet
    <2>6. requestor[r].request # NoAddress => m.who[r].request # NoAddress
        BY <2>1, <2>5
    <2> QED BY <1>5, <2>1, <2>3, <2>5, <2>6
<1> QED BY <1>3, <1>4, <1>6, <1>7

(* What a tile shows is never replaced by an older version of it: not by the reply of the cache, *)
(* not by the order in which the answers arrive, not by the priorData of a request that is      *)
(* answered with "not modified"; for any resources that change, as long as those are requested  *)
(* by TileLoaders and may be shown while they are revalidated.                                   *)
THEOREM NothingGoesBack == ASSUME ChangesOfTiles PROVE Spec => NeverOlder
<1>1. Init => IInv /\ VersionInv
    BY InitIInv, InitVersions
<1>2. IInv /\ VersionInv /\ [Next]_vars => (IInv /\ VersionInv)'
    BY NextIInv, NextVersions
<1>3. IInv /\ VersionInv /\ [Next]_vars =>
         [\A r \in Requestors :
             requestor[r].alive /\ requestor[r]'.alive => requestor[r]'.data >= requestor[r].data]_vars
    <2> SUFFICES ASSUME IInv, VersionInv, Next, NEW q \in Requestors PROVE Newer(q)
        BY DEF Newer
    <2>1. ASSUME NEW r \in Requestors,
                 Construct(r) \/ Destroy(r) \/ MakeRequired(r) \/ MakeOptional(r) \/ Receive(r)
          PROVE  Newer(q)
        BY <2>1, MainShows, ReceiveShows
    <2>2. CASE requestor' = requestor
        <3>1. requestor[q].data \in Nat
            BY Known DEF Who, Versions
        <3> QED BY <2>2, <3>1 DEF Newer
    <2>3. CASE ImplStep
        BY <2>2, <2>3 DEF ImplStep
    <2>4. ASSUME NEW a \in Addresses, Ask(a) \/ Complete(a) \/ CompleteWithError(a) PROVE Newer(q)
        BY <2>2, <2>4 DEF Ask, Complete, CompleteWithError
    <2>5. ASSUME NEW k \in Keys, ServerChanges(k) \/ RowExpires(k) PROVE Newer(q)
        BY <2>2, <2>5 DEF ServerChanges, RowExpires
    <2> QED BY <2>1, <2>3, <2>4, <2>5 DEF Next
<1> QED BY <1>1, <1>2, <1>3, PTL DEF Spec, NeverOlder
=============================================================================
