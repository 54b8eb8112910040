----------------------------- MODULE Map_proofs -----------------------------
(***************************************************************************)
(* Proofs about TilePyramid and Map, for every source, camera and cache:    *)
(* what is drawn is in use, in place of every ideal tile something is drawn *)
(* that can be, and a still image that is delivered is complete.            *)
(*                                                                          *)
(* They follow a frame through updateRenderables.  Its folds are taken one  *)
(* step at a time by the lemmas of SequenceFacts; "Pass" is what holds of   *)
(* the frame after each ideal tile, "Ascent" after each level of the ascent *)
(* to the tiles above it.                                                   *)
(***************************************************************************)
EXTENDS Map, SequenceFacts

(* The depth of a tile in the source. *)
Depth(z) == IF z =< MaxZoom THEN z ELSE MaxZoom

ID == {id \in [z : Nat, w : Int, p : Seq(Branches)] : Len(id.p) = Depth(id.z)}
UnwrappedID == [w : Int, p : Seq(Branches)]

Tile == [status : Statuses, required : BOOLEAN,
         fade : {"Loaded", "NeedsFirstPlacement", "NeedsSecondPlacement", "CanRemove"}]

Finite(S) == {s \in SUBSET S : IsFiniteSet(s)}
TileMaps == UNION {[ids -> Tile] : ids \in Finite(ID)}
ShownMaps == UNION {[us -> ID] : us \in SUBSET UnwrappedID}

Caches == [tiles : TileMaps, keys : Seq(ID), size : Nat]

(* Every tile of the cache can be drawn, and can be purged. *)
CacheOK(c) ==
    /\ c \in Caches
    /\ \A id \in DOMAIN c.tiles : IsRenderable(c.tiles[id]) /\ id \in ToSet(c.keys)

(* What is drawn. *)
ShownOK(drawn, map) ==
    /\ drawn \in ShownMaps
    /\ \A u \in DOMAIN drawn :
         drawn[u] \in DOMAIN map /\ IsRenderable(map[drawn[u]]) /\ Unwrapped(drawn[u]) = u

ViewOK(v) ==
    /\ v.zoom \in Nat /\ v.world \in Int /\ v.cacheSize \in Nat \ {0}
    /\ v.leaves \in Seq([w : Int, p : [1..MaxZoom -> Branches]])

PyramidInv ==
    /\ mode \in {"Continuous", "Static"}
    /\ tiles \in TileMaps /\ CacheOK(cache) /\ ShownOK(shown, tiles)
    /\ world \in Int /\ view \in Views \cup {NoView}

----------------------------------------------------------------------------
LEMMA Zooms ==
    /\ MinZoom \in Nat /\ MaxZoom \in Nat /\ MinZoom =< MaxZoom
    /\ \A z \in Nat : Depth(z) \in Nat /\ Depth(z) =< z /\ Depth(z) =< MaxZoom
    /\ \A v \in Views : ViewOK(v)
<1>1. MinZoom \in Nat /\ MaxZoom \in Nat /\ MinZoom =< MaxZoom
    BY TilePyramidAssumption
<1>2. \A z \in Nat : Depth(z) \in Nat /\ Depth(z) =< z /\ Depth(z) =< MaxZoom
    BY <1>1 DEF Depth
<1>3. \A v \in Views : ViewOK(v)
    BY TilePyramidAssumption, Zenon DEF ViewOK
<1> QED BY <1>1, <1>2, <1>3

(* Maps of tiles. *)
LEMMA TileMapFacts ==
    \A map : map \in TileMaps <=>
        /\ DOMAIN map \subseteq ID /\ IsFiniteSet(DOMAIN map)
        /\ map = [id \in DOMAIN map |-> map[id]]
        /\ \A id \in DOMAIN map : map[id] \in Tile
BY DEF TileMaps, Finite

LEMMA ShownMapFacts ==
    \A map : map \in ShownMaps <=>
        /\ DOMAIN map \subseteq UnwrappedID
        /\ map = [u \in DOMAIN map |-> map[u]]
        /\ \A u \in DOMAIN map : map[u] \in ID
BY DEF ShownMaps

LEMMA PutTile ==
    ASSUME NEW map \in TileMaps, NEW id \in ID, NEW tile \in Tile
    PROVE  /\ Put(map, id, tile) \in TileMaps /\ DOMAIN Put(map, id, tile) = DOMAIN map \cup {id}
           /\ Put(map, id, tile)[id] = tile
           /\ \A k \in DOMAIN map : k # id => Put(map, id, tile)[k] = map[k]
<1>1. /\ DOMAIN map \subseteq ID /\ IsFiniteSet(DOMAIN map)
      /\ \A k \in DOMAIN map : map[k] \in Tile
    BY TileMapFacts
<1>2. IsFiniteSet(DOMAIN map \cup {id})
    BY <1>1, FS_AddElement
<1> DEFINE put == [k \in DOMAIN map \cup {id} |-> IF k = id THEN tile ELSE map[k]]
<1>3. /\ DOMAIN put = DOMAIN map \cup {id} /\ put[id] = tile
      /\ \A k \in DOMAIN map : k # id => put[k] = map[k]
      /\ put = [k \in DOMAIN put |-> put[k]]
    OBVIOUS
<1>4. \A k \in DOMAIN put : put[k] \in Tile
    BY <1>1
<1> HIDE DEF put
<1>5. put \in TileMaps
    BY <1>1, <1>2, <1>3, <1>4, TileMapFacts
<1> QED BY <1>3, <1>5 DEF Put, put

LEMMA DropTiles ==
    ASSUME NEW map \in TileMaps, NEW gone
    PROVE  /\ Drop(map, gone) \in TileMaps /\ DOMAIN Drop(map, gone) = DOMAIN map \ gone
           /\ \A k \in DOMAIN map \ gone : Drop(map, gone)[k] = map[k]
<1>1. /\ DOMAIN map \subseteq ID /\ IsFiniteSet(DOMAIN map)
      /\ \A k \in DOMAIN map : map[k] \in Tile
    BY TileMapFacts
<1>2. IsFiniteSet(DOMAIN map \ gone)
    BY <1>1, FS_Subset
<1> DEFINE rest == [k \in DOMAIN map \ gone |-> map[k]]
<1>3. /\ DOMAIN rest = DOMAIN map \ gone /\ \A k \in DOMAIN map \ gone : rest[k] = map[k]
      /\ rest = [k \in DOMAIN rest |-> rest[k]]
    OBVIOUS
<1> HIDE DEF rest
<1>4. rest \in TileMaps
    BY <1>1, <1>2, <1>3, TileMapFacts
<1> QED BY <1>3, <1>4 DEF Drop, rest

(* The tiles change, but not which there are. *)
LEMMA ChangeTiles ==
    ASSUME NEW map \in TileMaps, NEW new, new = [id \in DOMAIN map |-> new[id]],
           \A id \in DOMAIN map : new[id] \in Tile
    PROVE  new \in TileMaps /\ DOMAIN new = DOMAIN map
<1>1. DOMAIN new = DOMAIN map
    OBVIOUS
<1>2. DOMAIN map \subseteq ID /\ IsFiniteSet(DOMAIN map)
    BY TileMapFacts
<1> QED BY <1>1, <1>2, TileMapFacts

(* A member of a tile changes. *)
Fades == {"Loaded", "NeedsFirstPlacement", "NeedsSecondPlacement", "CanRemove"}

LEMMA RequiredChanged ==
    ASSUME NEW tile \in Tile, NEW r \in BOOLEAN
    PROVE  [tile EXCEPT !.required = r] \in Tile /\ [tile EXCEPT !.required = r].status = tile.status
BY DEF Tile

LEMMA FadeChanged ==
    ASSUME NEW tile \in Tile, NEW s \in Fades
    PROVE  [tile EXCEPT !.fade = s] \in Tile /\ [tile EXCEPT !.fade = s].status = tile.status
BY DEF Tile, Fades

LEMMA StatusChanged ==
    ASSUME NEW tile \in Tile, NEW s \in Statuses
    PROVE  [tile EXCEPT !.status = s] \in Tile /\ [tile EXCEPT !.status = s].status = s
BY DEF Tile

(* The IDs of tiles. *)
LEMMA IdFacts ==
    ASSUME NEW id \in ID
    PROVE  /\ id.z \in Nat /\ id.w \in Int /\ id.p \in Seq(Branches) /\ Len(id.p) = Depth(id.z)
           /\ id = [z |-> id.z, w |-> id.w, p |-> id.p]
           /\ Unwrapped(id) \in UnwrappedID /\ Unwrapped(id).p = id.p /\ Unwrapped(id).w = id.w
BY DEF ID, Unwrapped, UnwrappedID

LEMMA IdMade ==
    ASSUME NEW z \in Nat, NEW w \in Int, NEW p \in Seq(Branches), Len(p) = Depth(z)
    PROVE  Id(z, w, p) \in ID /\ Id(z, w, p).z = z /\ Id(z, w, p).w = w /\ Id(z, w, p).p = p
BY DEF Id, ID

LEMMA ScaledToFacts ==
    ASSUME NEW id \in ID, NEW z \in Nat, z =< id.z \/ (z = id.z + 1 /\ z > MaxZoom)
    PROVE  /\ ScaledTo(id, z) \in ID /\ ScaledTo(id, z).z = z /\ ScaledTo(id, z).w = id.w
           /\ z >= Len(id.p) => ScaledTo(id, z).p = id.p
           /\ z < Len(id.p) => ScaledTo(id, z).p = SubSeq(id.p, 1, z)
<1> DEFINE p == IF z >= Len(id.p) THEN id.p ELSE SubSeq(id.p, 1, z)
<1>1. /\ id.z \in Nat /\ id.w \in Int /\ id.p \in Seq(Branches) /\ Len(id.p) = Depth(id.z)
      /\ Len(id.p) \in Nat
    BY IdFacts
<1>2. CASE z >= Len(id.p)
    <2>1. p = id.p
        BY <1>2
    <2>2. Len(id.p) = Depth(z)
        BY <1>1, <1>2, Zooms DEF Depth
    <2> QED BY <1>1, <1>2, <2>1, <2>2, IdMade DEF ScaledTo
<1>3. CASE z < Len(id.p)
    <2>1. SubSeq(id.p, 1, z) \in Seq(Branches) /\ Len(SubSeq(id.p, 1, z)) = z
        BY <1>1, <1>3
    <2>2. z = Depth(z)
        BY <1>1, <1>3, Zooms DEF Depth
    <2> DEFINE q == SubSeq(id.p, 1, z)
    <2>3. ScaledTo(id, z) = Id(z, id.w, q)
        BY <1>3 DEF ScaledTo
    <2> HIDE DEF q
    <2>4. q \in Seq(Branches) /\ Len(q) = Depth(z)
        BY <2>1, <2>2 DEF q
    <2>5. Id(z, id.w, q) \in ID /\ Id(z, id.w, q).z = z /\ Id(z, id.w, q).w = id.w /\ Id(z, id.w, q).p = q
        BY <1>1, <2>4, IdMade
    <2> QED BY <1>1, <1>3, <2>3, <2>5 DEF q
<1> QED BY <1>1, <1>2, <1>3

LEMMA ChildrenFacts ==
    ASSUME NEW id \in ID
    PROVE  Children(id) \subseteq ID /\ IsFiniteSet(Children(id))
<1>1. /\ id.z \in Nat /\ id.w \in Int /\ id.p \in Seq(Branches) /\ Len(id.p) = Depth(id.z)
    BY IdFacts
<1>2. CASE id.z + 1 > MaxZoom
    <2>1. Children(id) = {ScaledTo(id, id.z + 1)}
        BY <1>2 DEF Children
    <2>2. ScaledTo(id, id.z + 1) \in ID
        BY <1>1, <1>2, ScaledToFacts
    <2> QED BY <2>1, <2>2, FS_Singleton
<1>3. CASE ~(id.z + 1 > MaxZoom)
    <2>1. Children(id) = {Id(id.z + 1, id.w, Append(id.p, b)) : b \in Branches}
        BY <1>3 DEF Children
    <2>2. ASSUME NEW b \in Branches PROVE Id(id.z + 1, id.w, Append(id.p, b)) \in ID
        <3>1. Append(id.p, b) \in Seq(Branches) /\ Len(Append(id.p, b)) = Len(id.p) + 1
            BY <1>1
        <3>2. Len(id.p) + 1 = Depth(id.z + 1) /\ id.z + 1 \in Nat
            BY <1>1, <1>3, Zooms DEF Depth
        <3> QED BY <1>1, <3>1, <3>2, IdMade
    <2>3. IsFiniteSet(Children(id))
        <3> DEFINE F(b) == Id(id.z + 1, id.w, Append(id.p, b))
        <3>1. IsFiniteSet(Branches)
            BY TilePyramidAssumption
        <3>2. PICK f : f = [b \in Branches |-> F(b)]
            OBVIOUS
        <3>3. Children(id) = {f[b] : b \in Branches}
            BY <2>1, <3>2
        <3>4. f \in Surjection(Branches, Children(id))
            BY <3>2, <3>3 DEF Surjection
        <3> QED BY <3>1, <3>4, FS_Surjection
    <2> QED BY <2>1, <2>2, <2>3
<1> QED BY <1>2, <1>3

----------------------------------------------------------------------------
(* Keys leave the list of the cache. *)
LEMMA ErasedFold ==
    ASSUME NEW keys \in Seq(ID), NEW id
    PROVE  \E d : /\ d[0] = <<>> /\ d[Len(keys)] = Erased(keys, id)
                  /\ \A k \in 1..Len(keys) :
                        d[k] = IF keys[k] = id THEN d[k - 1] ELSE Append(d[k - 1], keys[k])
<1> DEFINE V == Seq(ID)
           step == [x \in V \X ID |-> IF x[2] = id THEN x[1] ELSE Append(x[1], x[2])]
           Solution(f) == f = [t \in SUBSET (DOMAIN keys) |->
                                 IF t = {} THEN <<>>
                                 ELSE IF keys[Max(t)] = id THEN f[t \ {Max(t)}]
                                      ELSE Append(f[t \ {Max(t)}], keys[Max(t)])]
           c == CHOOSE f : Solution(f)
<1>1. step \in [V \X ID -> V]
    OBVIOUS
<1>2. PICK f : SolvesLeft(f, V, ID, keys, <<>>, step)
    <2>1. <<>> \in V
        OBVIOUS
    <2> HIDE DEF step, V
    <2> QED BY <1>1, <2>1, FoldLeftSolved DEF V
<1>3. \A t \in SUBSET (DOMAIN keys) : t # {} =>
        step[<<f[t \ {Max(t)}], keys[Max(t)]>>] = IF keys[Max(t)] = id THEN f[t \ {Max(t)}]
                                                  ELSE Append(f[t \ {Max(t)}], keys[Max(t)])
    BY <1>2 DEF SolvesLeft
<1>4. Solution(f)
    <2> HIDE DEF step
    <2> QED BY <1>2, <1>3 DEF SolvesLeft
<1>5. Solution(c)
    BY <1>4, Zenon
<1>6. Erased(keys, id) = c[DOMAIN keys]
    BY Zenon DEF Erased, FoldLeft, MapThenFoldSet
<1> HIDE DEF c
<1>7. \A t \in SUBSET (DOMAIN keys) :
        c[t] = IF t = {} THEN <<>>
               ELSE IF keys[Max(t)] = id THEN c[t \ {Max(t)}]
                    ELSE Append(c[t \ {Max(t)}], keys[Max(t)])
    BY <1>5
<1> DEFINE d == [k \in 0..Len(keys) |-> c[1..k]]
<1>8. Len(keys) \in Nat /\ DOMAIN keys = 1..Len(keys)
    OBVIOUS
<1>9. \A k \in 1..Len(keys) : d[k] = IF keys[k] = id THEN d[k - 1] ELSE Append(d[k - 1], keys[k])
    <2> TAKE k \in 1..Len(keys)
    <2>1. 1..k \in SUBSET (DOMAIN keys) /\ k - 1 \in 0..Len(keys) /\ k \in 0..Len(keys) /\ 1..k # {}
          /\ Max(1..k) = k /\ (1..k) \ {k} = 1..(k - 1)
        BY <1>8, Segments
    <2>2. c[1..k] = IF keys[k] = id THEN c[1..(k - 1)] ELSE Append(c[1..(k - 1)], keys[k])
        BY <1>7, <2>1
    <2> QED BY <2>1, <2>2
<1>10. d[0] = <<>> /\ d[Len(keys)] = c[DOMAIN keys]
    <2>1. c[{}] = <<>>
        BY <1>7
    <2>2. 0 \in 0..Len(keys) /\ Len(keys) \in 0..Len(keys)
        BY <1>8
    <2> QED BY <1>8, <2>1, <2>2, Segments
<1> QED BY <1>6, <1>9, <1>10

LEMMA ErasedFacts ==
    ASSUME NEW keys \in Seq(ID), NEW id
    PROVE  Erased(keys, id) \in Seq(ID) /\ ToSet(Erased(keys, id)) = ToSet(keys) \ {id}
<1> DEFINE n == Len(keys)
<1>1. PICK d : /\ d[0] = <<>> /\ d[n] = Erased(keys, id)
               /\ \A k \in 1..n : d[k] = IF keys[k] = id THEN d[k - 1] ELSE Append(d[k - 1], keys[k])
    BY ErasedFold
<1> DEFINE Upon(k) == {s \in Seq(ID) : \A x : In(s, x) <=> x # id /\ \E i \in 1..k : keys[i] = x}
           after == [k \in 0..n |-> Upon(k)]
<1>2. n \in Nat /\ \A k \in 1..n : keys[k] \in ID
    OBVIOUS
<1>3. d[0] \in Upon(0)
    <2>1. <<>> \in Seq(ID) /\ \A x : ~In(<<>>, x)
        BY DEF In
    <2> QED BY <1>1, <2>1
<1>4. ASSUME NEW k \in 1..n, d[k - 1] \in Upon(k - 1) PROVE d[k] \in Upon(k)
    <2> DEFINE s == d[k - 1]
    <2>1. s \in Seq(ID) /\ \A x : In(s, x) <=> x # id /\ \E i \in 1..(k - 1) : keys[i] = x
        BY <1>4
    <2>2. \A x : (\E i \in 1..k : keys[i] = x) <=> (keys[k] = x \/ \E i \in 1..(k - 1) : keys[i] = x)
        <3>1. \A i \in 1..k : i = k \/ i \in 1..(k - 1)
            OBVIOUS
        <3>2. \A i \in 1..(k - 1) : i \in 1..k
            OBVIOUS
        <3> QED BY <3>1, <3>2
    <2> HIDE DEF s
    <2>3. CASE keys[k] = id
        <3>1. d[k] = s
            BY <1>1, <2>3 DEF s
        <3> QED BY <2>1, <2>2, <2>3, <3>1
    <2>4. CASE keys[k] # id
        <3>1. d[k] = Append(s, keys[k])
            BY <1>1, <2>4 DEF s
        <3>2. Append(s, keys[k]) \in Seq(ID) /\ \A y : In(Append(s, keys[k]), y) <=> In(s, y) \/ y = keys[k]
            BY <1>2, <2>1, AppendFacts, AppendIn
        <3> QED BY <2>1, <2>2, <2>4, <3>1, <3>2
    <2> QED BY <2>3, <2>4
<1>5. d[n] \in after[n]
    <2>1. d[0] \in after[0]
        BY <1>2, <1>3
    <2>2. \A k \in 1..n : d[k - 1] \in after[k - 1] => d[k] \in after[k]
        <3> TAKE k \in 1..n
        <3>1. k - 1 \in 0..n /\ k \in 0..n
            BY <1>2
        <3> HIDE DEF Upon
        <3> QED BY <1>4, <3>1
    <2> HIDE DEF after
    <2> QED BY <1>2, <2>1, <2>2, SegmentsKeep
<1>6. Erased(keys, id) \in Upon(n)
    BY <1>1, <1>2, <1>5
<1>7. /\ Erased(keys, id) \in Seq(ID)
      /\ \A x : In(Erased(keys, id), x) <=> x # id /\ In(keys, x)
    BY <1>6 DEF In
<1> QED BY <1>7, ToSetFacts

(* The cache. *)
LEMMA CacheMade ==
    ASSUME NEW map \in TileMaps, NEW keys \in Seq(ID), NEW size \in Nat,
           \A id \in DOMAIN map : IsRenderable(map[id]) /\ In(keys, id)
    PROVE  CacheOK([tiles |-> map, keys |-> keys, size |-> size])
BY ToSetFacts DEF CacheOK, Caches

LEMMA CacheFacts ==
    ASSUME NEW c, CacheOK(c)
    PROVE  /\ c.tiles \in TileMaps /\ c.keys \in Seq(ID) /\ c.size \in Nat
           /\ c = [tiles |-> c.tiles, keys |-> c.keys, size |-> c.size]
           /\ \A id \in DOMAIN c.tiles : IsRenderable(c.tiles[id]) /\ In(c.keys, id)
BY ToSetFacts DEF CacheOK, Caches

LEMMA CacheChanged ==
    ASSUME NEW c, CacheOK(c), NEW map \in TileMaps, NEW keys \in Seq(ID)
    PROVE  [c EXCEPT !.tiles = map, !.keys = keys] = [tiles |-> map, keys |-> keys, size |-> c.size]
<1>1. c \in [tiles : TileMaps, keys : Seq(ID), size : Nat]
    BY DEF CacheOK, Caches
<1> DEFINE d == [c EXCEPT !.tiles = map, !.keys = keys]
<1>2. d \in [tiles : TileMaps, keys : Seq(ID), size : Nat] /\ d.tiles = map /\ d.keys = keys /\ d.size = c.size
    BY <1>1
<1> HIDE DEF d
<1>3. d = [tiles |-> map, keys |-> keys, size |-> c.size]
    BY <1>2
<1> QED BY <1>3 DEF d

(* A tile leaves the cache with its key. *)
LEMMA CacheWithout ==
    ASSUME NEW c, CacheOK(c), NEW id
    PROVE  CacheOK([c EXCEPT !.tiles = Drop(@, {id}), !.keys = Erased(@, id)])
<1> DEFINE map == Drop(c.tiles, {id})
           keys == Erased(c.keys, id)
<1>1. /\ c.tiles \in TileMaps /\ c.keys \in Seq(ID) /\ c.size \in Nat
      /\ c = [tiles |-> c.tiles, keys |-> c.keys, size |-> c.size]
      /\ \A k \in DOMAIN c.tiles : IsRenderable(c.tiles[k]) /\ In(c.keys, k)
    BY CacheFacts
<1>2. /\ map \in TileMaps /\ DOMAIN map = DOMAIN c.tiles \ {id}
      /\ \A k \in DOMAIN c.tiles \ {id} : map[k] = c.tiles[k]
    BY <1>1, DropTiles
<1>3. keys \in Seq(ID) /\ \A x : In(keys, x) <=> x # id /\ In(c.keys, x)
    BY <1>1, ErasedFacts, ToSetFacts
<1> HIDE DEF map, keys
<1>4. [c EXCEPT !.tiles = map, !.keys = keys] = [tiles |-> map, keys |-> keys, size |-> c.size]
    BY <1>2, <1>3, CacheChanged
<1>5. CacheOK([tiles |-> map, keys |-> keys, size |-> c.size])
    BY <1>1, <1>2, <1>3, CacheMade
<1> QED BY <1>4, <1>5 DEF map, keys

LEMMA ClearedOK ==
    ASSUME NEW c, CacheOK(c)
    PROVE  CacheOK(Cleared(c))
<1>1. Nothing \in TileMaps /\ DOMAIN Nothing = {}
    <2>1. DOMAIN Nothing = {} /\ Nothing = [id \in DOMAIN Nothing |-> Nothing[id]]
        BY DEF Nothing
    <2> QED BY <2>1, TileMapFacts, FS_EmptySet
<1>2. /\ c.size \in Nat /\ c = [tiles |-> c.tiles, keys |-> c.keys, size |-> c.size]
    BY CacheFacts
<1>4. <<>> \in Seq(ID)
    OBVIOUS
<1>3. Cleared(c) = [tiles |-> Nothing, keys |-> <<>>, size |-> c.size]
    <2> HIDE DEF Nothing
    <2> QED BY <1>1, <1>4, CacheChanged DEF Cleared
<1> HIDE DEF Nothing
<1> QED BY <1>1, <1>2, <1>3, <1>4, CacheMade

LEMMA AddedOK ==
    ASSUME NEW c, CacheOK(c), NEW id \in ID, NEW tile \in Tile
    PROVE  CacheOK(Added(c, id, tile))
<1>1. /\ c.tiles \in TileMaps /\ c.keys \in Seq(ID) /\ c.size \in Nat
      /\ c = [tiles |-> c.tiles, keys |-> c.keys, size |-> c.size]
      /\ \A k \in DOMAIN c.tiles : IsRenderable(c.tiles[k]) /\ In(c.keys, k)
    BY CacheFacts
<1> SUFFICES ASSUME IsRenderable(tile), c.size # 0 PROVE CacheOK(Added(c, id, tile))
    BY DEF Added
<1> DEFINE new == id \notin DOMAIN c.tiles
           map == IF new THEN Put(c.tiles, id, tile) ELSE c.tiles
           rest == IF new THEN Erased(c.keys, id) ELSE c.keys
           keys == Append(rest, id)
           more == [c EXCEPT !.tiles = map, !.keys = keys]
<1>2. Added(c, id, tile) = IF Len(more.keys) > c.size THEN Popped(more, Head(more.keys)) ELSE more
    BY DEF Added
<1>3. /\ map \in TileMaps /\ DOMAIN map = DOMAIN c.tiles \cup {id}
      /\ \A k \in DOMAIN map : IsRenderable(map[k])
    <2>1. CASE new
        <3>1. map = Put(c.tiles, id, tile)
            BY <2>1
        <3>2. /\ Put(c.tiles, id, tile) \in TileMaps
              /\ DOMAIN Put(c.tiles, id, tile) = DOMAIN c.tiles \cup {id}
              /\ Put(c.tiles, id, tile)[id] = tile
              /\ \A k \in DOMAIN c.tiles : k # id => Put(c.tiles, id, tile)[k] = c.tiles[k]
            BY <1>1, PutTile, ZenonT(40)
        <3> HIDE DEF map
        <3> QED BY <1>1, <3>1, <3>2
    <2>2. CASE ~new
        BY <1>1, <2>2
    <2> QED BY <2>1, <2>2
<1>4. rest \in Seq(ID) /\ \A k \in DOMAIN c.tiles : In(rest, k)
    BY <1>1, ErasedFacts, ToSetFacts
<1> HIDE DEF rest
<1>5. keys \in Seq(ID) /\ \A k \in DOMAIN map : In(keys, k)
    BY <1>3, <1>4, AppendFacts, AppendIn
<1> HIDE DEF map, keys
<1>6. more = [tiles |-> map, keys |-> keys, size |-> c.size]
    BY <1>3, <1>5, CacheChanged
<1> HIDE DEF more
<1>7. CacheOK(more)
    BY <1>1, <1>3, <1>5, <1>6, CacheMade
<1>8. \A key : CacheOK(Popped(more, key))
    BY <1>7, CacheWithout DEF Popped
<1> QED BY <1>2, <1>7, <1>8

LEMMA ResizedOK ==
    ASSUME NEW c, CacheOK(c), NEW size \in Nat
    PROVE  CacheOK(Resized(c, size))
<1>1. /\ c.tiles \in TileMaps /\ c.keys \in Seq(ID) /\ Len(c.keys) \in Nat
      /\ \A k \in DOMAIN c.tiles : IsRenderable(c.tiles[k]) /\ In(c.keys, k)
    BY CacheFacts
<1> DEFINE n == Len(c.keys)
           surplus == n - Min({size, n})
           before == SubSeq(c.keys, 1, surplus)
           rest == SubSeq(c.keys, surplus + 1, n)
<1>2. surplus \in 0..n
    <2>1. \A y \in {size, n} : Min({size, n}) =< y
        BY <1>1, LeastNatural
    <2>2. Min({size, n}) \in {size, n}
        BY <1>1, LeastNatural
    <2> QED BY <1>1, <2>1, <2>2
<1> HIDE DEF surplus
<1>3. /\ before \in Seq(ID) /\ rest \in Seq(ID)
      /\ \A y : In(c.keys, y) <=> In(before, y) \/ In(rest, y)
    BY <1>1, <1>2, SplitFacts
<1> DEFINE map == Drop(c.tiles, ToSet(before))
<1>4. /\ map \in TileMaps /\ DOMAIN map = DOMAIN c.tiles \ ToSet(before)
      /\ \A k \in DOMAIN c.tiles \ ToSet(before) : map[k] = c.tiles[k]
    BY <1>1, DropTiles
<1>5. \A y : y \in ToSet(before) <=> In(before, y)
    BY <1>3, ToSetFacts
<1>6. Resized(c, size) = [tiles |-> map, keys |-> rest, size |-> size]
    BY DEF Resized, surplus
<1> HIDE DEF before, rest, map
<1> QED BY <1>1, <1>3, <1>4, <1>5, <1>6, CacheMade

(* The order of the map of tiles is total. *)
LEMMA BranchesAreNumbers ==
    ASSUME NEW s \in Seq(Branches), NEW i \in DOMAIN s
    PROVE  s[i] \in Nat
<1>1. s[i] \in Branches
    OBVIOUS
<1> QED BY <1>1, TilePyramidAssumption

LEMMA PathsDiffer ==
    ASSUME NEW a \in Seq(Branches), NEW b \in Seq(Branches), Len(a) = Len(b), a # b
    PROVE  \E i \in DOMAIN a : a[i] # b[i] /\ \A j \in 1..(i - 1) : a[j] = b[j]
<1> DEFINE T == {i \in DOMAIN a : a[i] # b[i]}
           m == Min(T)
<1>1. Len(a) \in Nat /\ DOMAIN a = 1..Len(a) /\ DOMAIN b = DOMAIN a
    OBVIOUS
<1>2. T \subseteq Nat /\ T # {}
    BY <1>1
<1>3. m \in T /\ \A y \in T : m =< y
    BY <1>2, LeastNatural
<1> HIDE DEF m
<1>4. \A j \in 1..(m - 1) : a[j] = b[j]
    <2> TAKE j \in 1..(m - 1)
    <2>1. m \in 1..Len(a)
        BY <1>1, <1>3
    <2>2. j \in DOMAIN a /\ j < m
        BY <1>1, <2>1
    <2>3. j \notin T
        BY <1>3, <2>1, <2>2
    <2> QED BY <2>2, <2>3
<1> QED BY <1>3, <1>4

LEMMA BeforeTotal ==
    ASSUME NEW a \in ID, NEW b \in ID, a # b
    PROVE  Before(a, b) \/ Before(b, a)
<1>1. /\ a.z \in Int /\ a.w \in Int /\ a.p \in Seq(Branches) /\ Len(a.p) \in Int
      /\ b.z \in Int /\ b.w \in Int /\ b.p \in Seq(Branches) /\ Len(b.p) \in Int
      /\ a = [z |-> a.z, w |-> a.w, p |-> a.p] /\ b = [z |-> b.z, w |-> b.w, p |-> b.p]
    BY IdFacts
<1> SUFFICES ASSUME a.z = b.z, a.w = b.w, Len(a.p) = Len(b.p) PROVE Before(a, b) \/ Before(b, a)
    BY <1>1 DEF Before
<1>2. a.p # b.p
    BY <1>1
<1>3. PICK i \in DOMAIN a.p : a.p[i] # b.p[i] /\ \A j \in 1..(i - 1) : a.p[j] = b.p[j]
    BY <1>1, <1>2, PathsDiffer
<1>4. i \in DOMAIN b.p
    BY <1>1
<1>5. a.p[i] < b.p[i] \/ b.p[i] < a.p[i]
    <2>1. a.p[i] \in Nat /\ b.p[i] \in Nat
        BY <1>1, <1>4, BranchesAreNumbers
    <2> QED BY <1>3, <2>1
<1> QED BY <1>3, <1>4, <1>5 DEF Before

LEMMA BeforeTransitive ==
    ASSUME NEW a \in ID, NEW b \in ID, NEW c \in ID, Before(a, b), Before(b, c)
    PROVE  Before(a, c)
<1>1. /\ a.z \in Int /\ a.w \in Int /\ a.p \in Seq(Branches) /\ Len(a.p) \in Int
      /\ b.z \in Int /\ b.w \in Int /\ b.p \in Seq(Branches) /\ Len(b.p) \in Int
      /\ c.z \in Int /\ c.w \in Int /\ c.p \in Seq(Branches) /\ Len(c.p) \in Int
    BY IdFacts
<1>2. CASE a.z = b.z /\ a.w = b.w /\ Len(a.p) = Len(b.p) /\ b.z = c.z /\ b.w = c.w /\ Len(b.p) = Len(c.p)
    <2>1. PICK i \in DOMAIN a.p : a.p[i] < b.p[i] /\ \A j \in 1..(i - 1) : a.p[j] = b.p[j]
        BY <1>1, <1>2 DEF Before
    <2>2. PICK k \in DOMAIN b.p : b.p[k] < c.p[k] /\ \A j \in 1..(k - 1) : b.p[j] = c.p[j]
        BY <1>1, <1>2 DEF Before
    <2>3. /\ i \in 1..Len(a.p) /\ k \in 1..Len(a.p) /\ DOMAIN a.p = 1..Len(a.p)
        BY <1>1, <1>2
    <2>4. \A j \in 1..Len(a.p) : a.p[j] \in Int /\ b.p[j] \in Int /\ c.p[j] \in Int
        <3> TAKE j \in 1..Len(a.p)
        <3>1. j \in DOMAIN a.p /\ j \in DOMAIN b.p /\ j \in DOMAIN c.p
            BY <1>1, <1>2
        <3>2. a.p[j] \in Nat /\ b.p[j] \in Nat /\ c.p[j] \in Nat
            BY <1>1, <3>1, BranchesAreNumbers
        <3> QED BY <3>2
    <2>5. CASE i =< k
        <3>1. a.p[i] < c.p[i]
            BY <2>1, <2>2, <2>3, <2>4, <2>5
        <3>2. \A j \in 1..(i - 1) : a.p[j] = c.p[j]
            BY <2>1, <2>2, <2>3, <2>5
        <3> QED BY <1>2, <2>3, <3>1, <3>2 DEF Before
    <2>6. CASE k < i
        <3>1. a.p[k] < c.p[k]
            BY <2>1, <2>2, <2>3, <2>4, <2>6
        <3>2. \A j \in 1..(k - 1) : a.p[j] = c.p[j]
            BY <2>1, <2>2, <2>3, <2>6
        <3> QED BY <1>2, <2>3, <3>1, <3>2 DEF Before
    <2> QED BY <2>3, <2>5, <2>6
<1>3. CASE ~(a.z = b.z /\ a.w = b.w /\ Len(a.p) = Len(b.p) /\ b.z = c.z /\ b.w = c.w /\ Len(b.p) = Len(c.p))
    BY <1>1, <1>3 DEF Before
<1> QED BY <1>2, <1>3

LEMMA LatestFacts ==
    ASSUME NEW S \in SUBSET ID, IsFiniteSet(S)
    PROVE  \A s \in SUBSET S : s # {} => Latest(s) \in s
<1> DEFINE Has1(s) == \E id \in s : \A other \in s \ {id} : Before(other, id)
           P == {k \in Nat : \A s \in Upto(S, k) : s # {} => Has1(s)}
<1>1. 0 \in P
    BY UptoFacts
<1>2. ASSUME NEW k \in Nat, k \in P PROVE k + 1 \in P
    <2> SUFFICES ASSUME NEW s \in Upto(S, k + 1), s # {} PROVE Has1(s)
        <3>1. k + 1 \in Nat
            OBVIOUS
        <3> QED BY <3>1
    <2>1. PICK x \in s : TRUE
        OBVIOUS
    <2> DEFINE rest == s \ {x}
    <2>2. rest \in Upto(S, k) /\ s \subseteq ID
        BY UptoFacts DEF Upto
    <2>3. CASE rest = {}
        BY <2>1, <2>3
    <2>4. CASE rest # {}
        <3>1. PICK m \in rest : \A other \in rest \ {m} : Before(other, m)
            BY <1>2, <2>2, <2>4
        <3>2. m \in s /\ m # x /\ m \in ID /\ x \in ID /\ \A other \in s : other \in ID
            BY <2>2, <3>1
        <3>3. CASE Before(m, x)
            <4>1. \A other \in s \ {x} : Before(other, x)
                BY <3>1, <3>2, <3>3, BeforeTransitive
            <4> QED BY <4>1
        <3>4. CASE Before(x, m)
            <4>1. \A other \in s \ {m} : Before(other, m)
                BY <3>1, <3>4
            <4> QED BY <3>2, <4>1
        <3> QED BY <3>2, <3>3, <3>4, BeforeTotal
    <2> QED BY <2>3, <2>4
<1> HIDE DEF P
<1>3. Nat \subseteq P
    BY <1>1, <1>2, Induction
<1>4. Cardinality(S) \in P /\ Upto(S, Cardinality(S)) = SUBSET S
    BY <1>3, UptoFacts
<1> HIDE DEF Has1
<1>5. \A s \in SUBSET S : s # {} => Has1(s)
    BY <1>4 DEF P
<1> QED BY <1>5 DEF Latest, Has1

(* The tiles that are not used any longer go to the cache. *)
LEMMA AllAddedOK ==
    ASSUME NEW c, CacheOK(c), NEW map \in TileMaps
    PROVE  CacheOK(AllAdded(c, map))
<1> DEFINE S == DOMAIN map
           V == {d \in Caches : CacheOK(d)}
           choose == [s \in SUBSET S |-> Latest(s)]
           step == [x \in V \X S |-> Added(x[1], x[2], map[x[2]])]
           Solution(f) == f = [s \in SUBSET S |->
                                 IF s = {} THEN c ELSE Added(f[s \ {Latest(s)}], Latest(s), map[Latest(s)])]
           e == CHOOSE f : Solution(f)
<1>1. S \subseteq ID /\ IsFiniteSet(S) /\ \A id \in S : map[id] \in Tile
    BY TileMapFacts
<1>2. \A s \in SUBSET S : s # {} => Latest(s) \in s
    BY <1>1, LatestFacts
<1>3. c \in V /\ \A d : d \in V <=> CacheOK(d)
    BY DEF CacheOK
<1>4. step \in [V \X S -> V]
    <2> SUFFICES ASSUME NEW d \in V, NEW id \in S PROVE Added(d, id, map[id]) \in V
        OBVIOUS
    <2> QED BY <1>1, <1>3, AddedOK
<1>5. Picks(choose, S)
    BY <1>2 DEF Picks
<1>6. PICK f : SolvesIn(f, V, S, choose, c, step)
    <2> HIDE DEF V, S, choose, step
    <2>1. FoldIn(V, S, choose, c, step)
        BY <1>1, <1>3, <1>4, <1>5 DEF FoldIn
    <2> QED BY <2>1, FoldSolved
<1>7. \A s \in SUBSET S : f[s] \in V /\
         f[s] = IF s = {} THEN c ELSE Added(f[s \ {Latest(s)}], Latest(s), map[Latest(s)])
    <2> TAKE s \in SUBSET S
    <2>1. f[s] = IF s = {} THEN c ELSE step[<<f[s \ {choose[s]}], choose[s]>>]
        <3> HIDE DEF choose, step
        <3> QED BY <1>6 DEF SolvesIn, Solves
    <2>2. CASE s # {}
        <3>1. choose[s] = Latest(s) /\ Latest(s) \in S /\ s \ {Latest(s)} \in SUBSET S
            BY <1>2, <2>2
        <3>2. f[s \ {Latest(s)}] \in V /\ f[s] \in V
            BY <1>6, <3>1 DEF SolvesIn
        <3>3. step[<<f[s \ {Latest(s)}], Latest(s)>>] = Added(f[s \ {Latest(s)}], Latest(s), map[Latest(s)])
            <4> HIDE DEF V, S
            <4> QED BY <3>1, <3>2
        <3> HIDE DEF step, choose, V, S
        <3> QED BY <2>1, <2>2, <3>1, <3>2, <3>3
    <2>3. CASE s = {}
        BY <1>3, <2>1, <2>3
    <2> QED BY <2>2, <2>3
<1>8. Solution(f)
    <2>1. f = [s \in SUBSET S |-> f[s]]
        <3> HIDE DEF S, choose, step, V
        <3> QED BY <1>6 DEF SolvesIn, Solves
    <2> HIDE DEF S, V
    <2> QED BY <1>7, <2>1
<1>9. Solution(e)
    BY <1>8, Zenon
<1>10. AllAdded(c, map) = e[S]
    BY Zenon DEF AllAdded, MapThenFoldSet
<1> HIDE DEF e
<1>11. \A s \in SUBSET S : e[s] = IF s = {} THEN c ELSE Added(e[s \ {Latest(s)}], Latest(s), map[Latest(s)])
    BY <1>9
<1> DEFINE after == [s \in SUBSET S |-> V]
<1>12. e[{}] \in after[{}]
    BY <1>3, <1>11
<1>13. \A s \in SUBSET S :
          s # {} /\ e[s \ {choose[s]}] \in after[s \ {choose[s]}] => e[s] \in after[s]
    <2> SUFFICES ASSUME NEW s \in SUBSET S, s # {}, e[s \ {Latest(s)}] \in V PROVE e[s] \in V
        OBVIOUS
    <2>1. Latest(s) \in S
        BY <1>2
    <2>2. Latest(s) \in ID /\ map[Latest(s)] \in Tile
        BY <1>1, <2>1
    <2>3. CacheOK(Added(e[s \ {Latest(s)}], Latest(s), map[Latest(s)]))
        BY <1>3, <2>2, AddedOK
    <2> HIDE DEF V
    <2> QED BY <1>3, <1>11, <2>3
<1> HIDE DEF V, choose, S, after
<1>14. \A s \in SUBSET S : e[s] \in after[s]
    BY <1>1, <1>5, <1>12, <1>13, FoldKeeps
<1>15. e[S] \in V
    BY <1>14 DEF after
<1> QED BY <1>3, <1>10, <1>15

----------------------------------------------------------------------------
(* The frames that an update goes through. *)
Frames == [tiles : TileMaps, cache : Caches, shown : ShownMaps, retain : SUBSET ID,
           checked : SUBSET ID, draws : BOOLEAN]

FrameOK(f) ==
    /\ f \in Frames /\ CacheOK(f.cache) /\ ShownOK(f.shown, f.tiles)
    /\ f.retain \subseteq DOMAIN f.tiles
    /\ \A u \in DOMAIN f.shown : f.shown[u] \in f.retain

(* The tiles there are keep their data. *)
Kept(map, new) ==
    DOMAIN map \subseteq DOMAIN new /\ \A id \in DOMAIN map : new[id].status = map[id].status

(* What is retained, drawn or checked stays, and what has been checked is not created later. *)
Grows(f, g) ==
    /\ Kept(f.tiles, g.tiles) /\ g.draws = f.draws
    /\ f.retain \subseteq g.retain /\ f.checked \subseteq g.checked
    /\ \A id \in f.checked \ DOMAIN f.tiles : id \notin DOMAIN g.tiles
    /\ DOMAIN f.shown \subseteq DOMAIN g.shown
    /\ \A u \in DOMAIN f.shown : g.shown[u] = f.shown[u]

(* Only these tiles are drawn, and these are checked, on the way. *)
Steps(f, g, drawn, seen) ==
    /\ Grows(f, g)
    /\ \A u \in DOMAIN g.shown \ DOMAIN f.shown : f.draws /\ g.shown[u] \in drawn
    /\ g.checked \subseteq f.checked \cup seen

LEMMA StepsReflexive ==
    \A f, drawn, seen : Steps(f, f, drawn, seen)
BY DEF Steps, Grows, Kept

LEMMA StepsTransitive ==
    ASSUME NEW f, NEW g, NEW h, NEW drawn, NEW seen, Steps(f, g, drawn, seen), Steps(g, h, drawn, seen)
    PROVE  Steps(f, h, drawn, seen)
<1>1. Grows(f, h)
    <2>1. Kept(f.tiles, h.tiles)
        BY DEF Steps, Grows, Kept
    <2>2. /\ h.draws = f.draws /\ f.retain \subseteq h.retain /\ f.checked \subseteq h.checked
          /\ DOMAIN f.shown \subseteq DOMAIN h.shown
          /\ \A u \in DOMAIN f.shown : h.shown[u] = f.shown[u]
        BY DEF Steps, Grows
    <2>3. \A id \in f.checked \ DOMAIN f.tiles : id \notin DOMAIN h.tiles
        BY DEF Steps, Grows
    <2> QED BY <2>1, <2>2, <2>3 DEF Grows
<1>2. \A u \in DOMAIN h.shown \ DOMAIN f.shown : f.draws /\ h.shown[u] \in drawn
    BY DEF Steps, Grows
<1>3. h.checked \subseteq f.checked \cup seen
    BY DEF Steps
<1> QED BY <1>1, <1>2, <1>3 DEF Steps

LEMMA StepsWiden ==
    ASSUME NEW f, NEW g, NEW drawn, NEW seen, Steps(f, g, drawn, seen),
           NEW more, NEW others, drawn \subseteq more, seen \subseteq others
    PROVE  Steps(f, g, more, others)
BY DEF Steps

LEMMA FrameFacts ==
    ASSUME NEW f, FrameOK(f)
    PROVE  /\ f.tiles \in TileMaps /\ f.shown \in ShownMaps /\ f.draws \in BOOLEAN
           /\ DOMAIN f.tiles \subseteq ID /\ f.retain \subseteq ID /\ f.checked \subseteq ID
           /\ \A id \in DOMAIN f.tiles : f.tiles[id] \in Tile
           /\ \A u \in DOMAIN f.shown :
                /\ f.shown[u] \in ID /\ f.shown[u] \in DOMAIN f.tiles /\ f.shown[u] \in f.retain
                /\ IsRenderable(f.tiles[f.shown[u]]) /\ Unwrapped(f.shown[u]) = u
<1>1. f.tiles \in TileMaps /\ f.shown \in ShownMaps /\ f.draws \in BOOLEAN
      /\ f.retain \subseteq ID /\ f.checked \subseteq ID
    BY DEF FrameOK, Frames
<1>2. DOMAIN f.tiles \subseteq ID /\ \A id \in DOMAIN f.tiles : f.tiles[id] \in Tile
    BY <1>1, TileMapFacts
<1>3. \A u \in DOMAIN f.shown : f.shown[u] \in ID
    BY <1>1, ShownMapFacts
<1> QED BY <1>1, <1>2, <1>3 DEF FrameOK, ShownOK

(* What is drawn can be drawn still. *)
LEMMA ShownKept ==
    ASSUME NEW drawn, NEW map, ShownOK(drawn, map), NEW new, Kept(map, new)
    PROVE  ShownOK(drawn, new)
BY DEF ShownOK, Kept, IsRenderable

LEMMA RetainOK ==
    ASSUME NEW f, FrameOK(f), NEW id \in DOMAIN f.tiles, NEW r \in BOOLEAN
    PROVE  /\ FrameOK(Retain(f, id, r))
           /\ Steps(f, Retain(f, id, r), {}, {})
           /\ id \in Retain(f, id, r).retain
           /\ Kept(f.tiles, Retain(f, id, r).tiles) /\ Kept(Retain(f, id, r).tiles, f.tiles)
           /\ Retain(f, id, r).shown = f.shown
<1>1. CASE id \in f.retain
    BY <1>1, StepsReflexive DEF Retain, Kept
<1>2. CASE id \notin f.retain
    <2> DEFINE map == [f.tiles EXCEPT ![id].required = r]
               g == [f EXCEPT !.retain = @ \cup {id}, !.tiles[id].required = r]
    <2>1. Retain(f, id, r) = g
        BY <1>2 DEF Retain
    <2>2. f \in Frames /\ f.tiles \in TileMaps /\ f.tiles[id] \in Tile /\ id \in ID
        BY FrameFacts, TileMapFacts DEF FrameOK
    <2>3. /\ map = [k \in DOMAIN f.tiles |-> map[k]]
          /\ \A k \in DOMAIN f.tiles : map[k] = IF k = id THEN [f.tiles[id] EXCEPT !.required = r]
                                                ELSE f.tiles[k]
        OBVIOUS
    <2> HIDE DEF map
    <2>4. /\ \A k \in DOMAIN f.tiles : map[k] \in Tile /\ map[k].status = f.tiles[k].status
        <3>1. \A k \in DOMAIN f.tiles : f.tiles[k] \in Tile
            BY <2>2, TileMapFacts
        <3>2. map[id] \in Tile /\ map[id].status = f.tiles[id].status
            BY <2>2, <2>3, RequiredChanged
        <3> QED BY <2>3, <3>1, <3>2
    <2>5. map \in TileMaps /\ DOMAIN map = DOMAIN f.tiles
        BY <2>2, <2>3, <2>4, ChangeTiles
    <2>6. g = [f EXCEPT !.retain = @ \cup {id}, !.tiles = map]
        BY <2>2 DEF Frames, map
    <2> HIDE DEF g
    <2>7. /\ g \in Frames /\ g.tiles = map /\ g.retain = f.retain \cup {id} /\ g.cache = f.cache
          /\ g.shown = f.shown /\ g.checked = f.checked /\ g.draws = f.draws
        BY <2>2, <2>5, <2>6 DEF Frames
    <2>8. Kept(f.tiles, map) /\ Kept(map, f.tiles)
        BY <2>4, <2>5 DEF Kept
    <2>9. ShownOK(f.shown, map)
        BY <2>8, ShownKept DEF FrameOK
    <2>10. FrameOK(g)
        BY <2>5, <2>7, <2>9 DEF FrameOK
    <2>11. Steps(f, g, {}, {})
        BY <2>5, <2>7, <2>8 DEF Steps, Grows
    <2> QED BY <2>1, <2>7, <2>8, <2>10, <2>11
<1> QED BY <1>1, <1>2

LEMMA RenderOK ==
    ASSUME NEW f, FrameOK(f), NEW id \in f.retain, HasRenderable(f, id)
    PROVE  /\ FrameOK(Render(f, id))
           /\ Steps(f, Render(f, id), {id}, {})
           /\ Kept(f.tiles, Render(f, id).tiles) /\ Kept(Render(f, id).tiles, f.tiles)
           /\ Render(f, id).retain = f.retain
           /\ f.draws => Unwrapped(id) \in DOMAIN Render(f, id).shown
<1>1. CASE ~f.draws
    BY <1>1, StepsReflexive DEF Render, Kept
<1>2. CASE f.draws
    <2> DEFINE map == [f.tiles EXCEPT ![id].fade = "Loaded"]
               u == Unwrapped(id)
               drawn == IF u \in DOMAIN f.shown THEN f.shown ELSE Put(f.shown, u, id)
               g == [f EXCEPT !.shown = IF Unwrapped(id) \in DOMAIN @ THEN @ ELSE Put(@, Unwrapped(id), id),
                              !.tiles[id].fade = "Loaded"]
    <2>1. Render(f, id) = g
        BY <1>2 DEF Render
    <2>2. /\ f \in Frames /\ f.tiles \in TileMaps /\ id \in DOMAIN f.tiles /\ f.tiles[id] \in Tile /\ id \in ID
          /\ f.shown \in ShownMaps
        BY FrameFacts, TileMapFacts DEF FrameOK
    <2>3. /\ map = [k \in DOMAIN f.tiles |-> map[k]]
          /\ \A k \in DOMAIN f.tiles : map[k] = IF k = id THEN [f.tiles[id] EXCEPT !.fade = "Loaded"]
                                                ELSE f.tiles[k]
        OBVIOUS
    <2> HIDE DEF map
    <2>4. /\ \A k \in DOMAIN f.tiles : map[k] \in Tile /\ map[k].status = f.tiles[k].status
        <3>1. \A k \in DOMAIN f.tiles : f.tiles[k] \in Tile
            BY <2>2, TileMapFacts
        <3>2. map[id] \in Tile /\ map[id].status = f.tiles[id].status
            <4>1. "Loaded" \in Fades
                BY DEF Fades
            <4> QED BY <2>2, <2>3, <4>1, FadeChanged
        <3> QED BY <2>3, <3>1, <3>2
    <2>5. map \in TileMaps /\ DOMAIN map = DOMAIN f.tiles
        BY <2>2, <2>3, <2>4, ChangeTiles
    <2>6. /\ drawn \in ShownMaps /\ DOMAIN drawn = DOMAIN f.shown \cup {u}
          /\ \A v \in DOMAIN f.shown : drawn[v] = f.shown[v]
          /\ u \notin DOMAIN f.shown => drawn[u] = id
        <3>1. u \in UnwrappedID
            BY <2>2, IdFacts
        <3>2. DOMAIN f.shown \subseteq UnwrappedID /\ \A v \in DOMAIN f.shown : f.shown[v] \in ID
            BY <2>2, ShownMapFacts
        <3>3. CASE u \in DOMAIN f.shown
            BY <2>2, <3>3
        <3>4. CASE u \notin DOMAIN f.shown
            <4> DEFINE put == [k \in DOMAIN f.shown \cup {u} |-> IF k = u THEN id ELSE f.shown[k]]
            <4>1. drawn = put
                BY <3>4 DEF Put
            <4>2. /\ DOMAIN put = DOMAIN f.shown \cup {u} /\ put = [k \in DOMAIN put |-> put[k]]
                  /\ put[u] = id /\ \A v \in DOMAIN f.shown : put[v] = f.shown[v]
                BY <3>4
            <4> HIDE DEF put, drawn, u
            <4>3. put \in ShownMaps
                BY <2>2, <3>1, <3>2, <4>2, ShownMapFacts
            <4> QED BY <4>1, <4>2, <4>3
        <3> QED BY <3>3, <3>4
    <2>7. g = [f EXCEPT !.shown = drawn, !.tiles = map]
        BY <2>2 DEF Frames, map
    <2> HIDE DEF g, drawn
    <2>8. /\ g \in Frames /\ g.tiles = map /\ g.retain = f.retain /\ g.cache = f.cache
          /\ g.shown = drawn /\ g.checked = f.checked /\ g.draws = f.draws
        BY <2>2, <2>5, <2>6, <2>7 DEF Frames
    <2>9. Kept(f.tiles, map) /\ Kept(map, f.tiles)
        BY <2>4, <2>5 DEF Kept
    <2>10. ShownOK(drawn, map) /\ \A v \in DOMAIN drawn : drawn[v] \in f.retain
        <3>1. ShownOK(f.shown, map) /\ \A v \in DOMAIN f.shown : f.shown[v] \in f.retain
            BY <2>9, ShownKept DEF FrameOK
        <3>2. id \in DOMAIN map /\ IsRenderable(map[id])
            BY <2>2, <2>4, <2>5 DEF HasRenderable, IsRenderable
        <3> QED BY <2>6, <3>1, <3>2 DEF ShownOK
    <2>11. FrameOK(g)
        BY <2>5, <2>8, <2>10 DEF FrameOK
    <2>12. Steps(f, g, {id}, {})
        BY <1>2, <2>5, <2>6, <2>8, <2>9 DEF Steps, Grows
    <2> QED BY <2>1, <2>6, <2>8, <2>9, <2>11, <2>12
<1> QED BY <1>1, <1>2 DEF FrameOK, Frames

(* A tile is checked. *)
LEMMA CheckOK ==
    ASSUME NEW f, FrameOK(f), NEW id \in ID
    PROVE  LET g == [f EXCEPT !.checked = @ \cup {id}]
           IN /\ FrameOK(g) /\ Steps(f, g, {}, {id}) /\ g.checked = f.checked \cup {id}
              /\ g.tiles = f.tiles /\ g.retain = f.retain /\ g.shown = f.shown /\ g.draws = f.draws
<1> DEFINE g == [f EXCEPT !.checked = @ \cup {id}]
<1>1. f \in Frames
    BY DEF FrameOK
<1>2. /\ g \in Frames /\ g.tiles = f.tiles /\ g.cache = f.cache /\ g.retain = f.retain
      /\ g.shown = f.shown /\ g.draws = f.draws /\ g.checked = f.checked \cup {id}
    BY <1>1 DEF Frames
<1> HIDE DEF g
<1>3. FrameOK(g)
    BY <1>2 DEF FrameOK
<1>4. Steps(f, g, {}, {id})
    BY <1>2 DEF Steps, Grows, Kept
<1> QED BY <1>2, <1>3, <1>4 DEF g

(* A tile is created, unless it is out of bounds. *)
LEMMA CreateOK ==
    ASSUME NEW f, FrameOK(f), NEW id \in ID, ~Has(f, id)
    PROVE  LET g == Create(f, id)
           IN /\ FrameOK(g) /\ Kept(f.tiles, g.tiles)
              /\ DOMAIN g.tiles \subseteq DOMAIN f.tiles \cup {id}
              /\ Has(g, id) <=> id.p \notin OutOfBounds
              /\ g.retain = f.retain /\ g.checked = f.checked /\ g.shown = f.shown /\ g.draws = f.draws
              /\ id \notin f.checked => Steps(f, g, {}, {})
<1>1. /\ f \in Frames /\ f.tiles \in TileMaps /\ CacheOK(f.cache) /\ f.cache \in Caches /\ id \notin DOMAIN f.tiles
    BY FrameFacts DEF FrameOK, Has, CacheOK
<1>2. CASE id.p \in OutOfBounds
    <2>1. Create(f, id) = f
        BY <1>2 DEF Create
    <2> QED BY <1>1, <1>2, <2>1, StepsReflexive DEF Has, Kept
<1>3. ASSUME id.p \notin OutOfBounds,
             NEW g, NEW tile \in Tile, NEW c, CacheOK(c),
             Create(f, id) = g,
             g = [f EXCEPT !.tiles = Put(f.tiles, id, tile), !.cache = c]
      PROVE  /\ FrameOK(g) /\ Kept(f.tiles, g.tiles)
             /\ DOMAIN g.tiles \subseteq DOMAIN f.tiles \cup {id} /\ Has(g, id)
             /\ g.retain = f.retain /\ g.checked = f.checked /\ g.shown = f.shown /\ g.draws = f.draws
             /\ id \notin f.checked => Steps(f, g, {}, {})
    <2> DEFINE map == Put(f.tiles, id, tile)
    <2>1. /\ map \in TileMaps /\ DOMAIN map = DOMAIN f.tiles \cup {id}
          /\ \A k \in DOMAIN f.tiles : map[k] = f.tiles[k]
        <3>1. tile \in Tile
            BY <1>3
        <3>2. /\ map \in TileMaps /\ DOMAIN map = DOMAIN f.tiles \cup {id}
              /\ \A k \in DOMAIN f.tiles : k # id => map[k] = f.tiles[k]
            BY <1>1, <3>1, PutTile
        <3> HIDE DEF map
        <3> QED BY <1>1, <3>2
    <2> HIDE DEF map
    <2>2. /\ g \in Frames /\ g.tiles = map /\ g.cache = c /\ g.retain = f.retain
          /\ g.shown = f.shown /\ g.draws = f.draws /\ g.checked = f.checked
        <3>1. c \in Caches
            BY <1>3 DEF CacheOK
        <3> QED BY <1>1, <1>3, <2>1, <3>1 DEF Frames, map
    <2>3. Kept(f.tiles, map)
        BY <2>1 DEF Kept
    <2>4. ShownOK(f.shown, map)
        BY <2>3, ShownKept DEF FrameOK
    <2>5. FrameOK(g)
        BY <1>3, <2>1, <2>2, <2>4 DEF FrameOK
    <2>6. id \notin f.checked => Steps(f, g, {}, {})
        BY <2>1, <2>2, <2>3 DEF Steps, Grows
    <2> QED BY <2>1, <2>2, <2>3, <2>5, <2>6 DEF Has
<1>4. CASE id.p \notin OutOfBounds /\ id \in DOMAIN f.cache.tiles
    <2> DEFINE c == [f.cache EXCEPT !.tiles = Drop(@, {id}), !.keys = Erased(@, id)]
    <2>1. CacheOK(c)
        BY <1>1, CacheWithout
    <2>2. f.cache.tiles[id] \in Tile
        BY <1>1, <1>4, CacheFacts, TileMapFacts
    <2>3. Create(f, id) = [f EXCEPT !.tiles = Put(@, id, f.cache.tiles[id]),
                                    !.cache.tiles = Drop(@, {id}), !.cache.keys = Erased(@, id)]
        BY <1>4 DEF Create
    <2>4. Create(f, id) = [f EXCEPT !.tiles = Put(f.tiles, id, f.cache.tiles[id]), !.cache = c]
        BY <1>1, <2>3 DEF Frames, Caches
    <2> HIDE DEF c
    <2> QED BY <1>3, <1>4, <2>1, <2>2, <2>4
<1>5. CASE id.p \notin OutOfBounds /\ id \notin DOMAIN f.cache.tiles
    <2>1. Create(f, id) = [f EXCEPT !.tiles = Put(f.tiles, id, NewTile)]
        BY <1>5 DEF Create
    <2>2. Create(f, id) = [f EXCEPT !.tiles = Put(f.tiles, id, NewTile), !.cache = f.cache]
        BY <1>1, <2>1 DEF Frames
    <2>3. NewTile \in Tile
        BY DEF NewTile, Tile, Statuses
    <2> HIDE DEF NewTile
    <2> QED BY <1>1, <1>3, <1>5, <2>2, <2>3
<1> QED BY <1>2, <1>4, <1>5

(* The children that can be drawn are. *)
LEMMA SubstitutesFacts ==
    ASSUME NEW f, NEW id \in ID
    PROVE  /\ Substitutes(f, id) \subseteq Children(id) /\ Substitutes(f, id) \subseteq ID
           /\ IsFiniteSet(Substitutes(f, id))
           /\ \A child \in Substitutes(f, id) : HasRenderable(f, child)
<1>1. Substitutes(f, id) \subseteq Children(id) /\ \A child \in Substitutes(f, id) : HasRenderable(f, child)
    BY DEF Substitutes
<1> QED BY <1>1, ChildrenFacts, FS_Subset

(* "s" has been drawn of those that are to be. *)
ChildrenDrawn(f, g, s) ==
    /\ FrameOK(g) /\ Kept(f.tiles, g.tiles) /\ Kept(g.tiles, f.tiles)
    /\ f.draws => \A child \in s : Unwrapped(child) \in DOMAIN g.shown

LEMMA ChildDrawn ==
    ASSUME NEW f, NEW g, NEW S, NEW s \in SUBSET S, NEW child \in S, FrameOK(f), HasRenderable(f, child),
           ChildrenDrawn(f, g, s \ {child}), Steps(f, g, S, {})
    PROVE  LET h == Render(Retain(g, child, FALSE), child)
           IN ChildrenDrawn(f, h, s) /\ Steps(f, h, S, {})
<1> DEFINE k == Retain(g, child, FALSE)
           h == Render(k, child)
<1>1. FrameOK(g) /\ HasRenderable(g, child) /\ child \in DOMAIN g.tiles
    BY DEF ChildrenDrawn, Kept, HasRenderable, Has, IsRenderable
<1>2. FALSE \in BOOLEAN
    OBVIOUS
<1>3. /\ FrameOK(k) /\ Steps(g, k, {}, {}) /\ child \in k.retain
      /\ Kept(g.tiles, k.tiles) /\ Kept(k.tiles, g.tiles) /\ k.shown = g.shown
    BY <1>1, <1>2, RetainOK
<1> HIDE DEF k
<1>4. HasRenderable(k, child)
    BY <1>1, <1>3 DEF Kept, HasRenderable, Has, IsRenderable
<1>5. /\ FrameOK(h) /\ Steps(k, h, {child}, {}) /\ Kept(k.tiles, h.tiles) /\ Kept(h.tiles, k.tiles)
      /\ k.draws => Unwrapped(child) \in DOMAIN h.shown
    BY <1>3, <1>4, RenderOK
<1> HIDE DEF h
<1>6. Steps(f, h, S, {})
    <2>1. Steps(g, k, S, {}) /\ Steps(k, h, S, {})
        BY <1>3, <1>5, StepsWiden
    <2> QED BY <2>1, StepsTransitive
<1>7. Kept(f.tiles, h.tiles) /\ Kept(h.tiles, f.tiles)
    BY <1>3, <1>5 DEF ChildrenDrawn, Kept
<1>8. f.draws => \A other \in s : Unwrapped(other) \in DOMAIN h.shown
    <2> SUFFICES ASSUME f.draws, NEW other \in s PROVE Unwrapped(other) \in DOMAIN h.shown
        OBVIOUS
    <2>1. k.draws
        BY <1>3 DEF Steps, Grows
    <2>2. CASE other = child
        BY <1>5, <2>1, <2>2
    <2>3. CASE other # child
        <3>1. Unwrapped(other) \in DOMAIN g.shown
            BY <2>3 DEF ChildrenDrawn
        <3> QED BY <1>3, <1>5, <3>1 DEF Steps, Grows
    <2> QED BY <2>2, <2>3
<1>9. ChildrenDrawn(f, h, s)
    BY <1>5, <1>7, <1>8 DEF ChildrenDrawn
<1> QED BY <1>6, <1>9 DEF h, k

LEMMA RenderChildrenOK ==
    ASSUME NEW f, FrameOK(f), NEW id \in ID
    PROVE  LET g == RenderChildren(f, id)
           IN ChildrenDrawn(f, g, Substitutes(f, id)) /\ Steps(f, g, Children(id), {})
<1> DEFINE S == Substitutes(f, id)
           Fine(s) == {g \in Frames : ChildrenDrawn(f, g, s) /\ Steps(f, g, S, {})}
           V == Fine({})
           choose == [s \in SUBSET S |-> CHOOSE x \in s : TRUE]
           Op(g, child) == Render(Retain(g, child, FALSE), child)
           step == [x \in V \X S |-> Op(x[1], x[2])]
           Solution(e) == e = [s \in SUBSET S |->
                                 IF s = {} THEN f
                                 ELSE Render(Retain(e[s \ {CHOOSE x \in s : TRUE}], CHOOSE x \in s : TRUE, FALSE),
                                             CHOOSE x \in s : TRUE)]
           e == CHOOSE g : Solution(g)
<1>1. /\ S \subseteq Children(id) /\ S \subseteq ID /\ IsFiniteSet(S)
      /\ \A child \in S : HasRenderable(f, child)
    BY SubstitutesFacts
<1>2. \A s \in SUBSET S : s # {} => (CHOOSE x \in s : TRUE) \in s
    OBVIOUS
<1>3. f \in V
    BY StepsReflexive DEF FrameOK, ChildrenDrawn, Kept
<1>4. \A s \in SUBSET S : \A child \in s : \A g : g \in Fine(s \ {child}) => Op(g, child) \in Fine(s)
    <2> SUFFICES ASSUME NEW s \in SUBSET S, NEW child \in s, NEW g, g \in Fine(s \ {child})
                 PROVE  Op(g, child) \in Fine(s)
        OBVIOUS
    <2>1. child \in S /\ HasRenderable(f, child) /\ ChildrenDrawn(f, g, s \ {child}) /\ Steps(f, g, S, {})
        BY <1>1
    <2> HIDE DEF S
    <2>2. ChildrenDrawn(f, Op(g, child), s) /\ Steps(f, Op(g, child), S, {})
        BY <2>1, ChildDrawn
    <2> HIDE DEF Op
    <2> QED BY <2>2 DEF ChildrenDrawn, FrameOK
<1>5. step \in [V \X S -> V]
    <2> SUFFICES ASSUME NEW g \in V, NEW child \in S PROVE Op(g, child) \in V
        OBVIOUS
    <2>1. {child} \in SUBSET S /\ {child} \ {child} = {}
        OBVIOUS
    <2> HIDE DEF S, Op, Fine
    <2>2. Op(g, child) \in Fine({child})
        BY <1>4, <2>1
    <2> USE DEF Fine
    <2> QED BY <2>2 DEF ChildrenDrawn
<1>6. Picks(choose, S)
    BY <1>2 DEF Picks
<1>7. PICK g : SolvesIn(g, V, S, choose, f, step)
    <2> HIDE DEF V, S, choose, step
    <2>1. FoldIn(V, S, choose, f, step)
        BY <1>1, <1>3, <1>5, <1>6 DEF FoldIn
    <2> QED BY <2>1, FoldSolved
<1>8. \A s \in SUBSET S : g[s] \in V /\
         g[s] = IF s = {} THEN f ELSE Op(g[s \ {CHOOSE x \in s : TRUE}], CHOOSE x \in s : TRUE)
    <2> TAKE s \in SUBSET S
    <2>1. g[s] = IF s = {} THEN f ELSE step[<<g[s \ {choose[s]}], choose[s]>>]
        <3> HIDE DEF choose, step
        <3> QED BY <1>7 DEF SolvesIn, Solves
    <2> DEFINE first == CHOOSE x \in s : TRUE
    <2>2. CASE s # {}
        <3>1. choose[s] = first /\ first \in S /\ s \ {first} \in SUBSET S
            BY <1>2, <2>2
        <3> HIDE DEF first
        <3>2. g[s \ {first}] \in V /\ g[s] \in V
            BY <1>7, <3>1 DEF SolvesIn
        <3>3. step[<<g[s \ {first}], first>>] = Op(g[s \ {first}], first)
            <4> HIDE DEF V, S, Op
            <4> QED BY <3>1, <3>2
        <3> HIDE DEF step, choose, V, S, Op
        <3>4. g[s] = Op(g[s \ {first}], first) /\ g[s] \in V
            BY <2>1, <2>2, <3>1, <3>2, <3>3
        <3> QED BY <2>2, <3>4 DEF first
    <2>3. CASE s = {}
        BY <1>3, <2>1, <2>3
    <2> QED BY <2>2, <2>3
<1>9. Solution(g)
    <2>1. g = [s \in SUBSET S |-> g[s]]
        <3> HIDE DEF S, choose, step, V
        <3> QED BY <1>7 DEF SolvesIn, Solves
    <2> HIDE DEF S, V
    <2> QED BY <1>8, <2>1
<1>10. Solution(e)
    BY <1>9, Zenon
<1>11. RenderChildren(f, id) = e[S]
    BY Zenon DEF RenderChildren, FoldSet, MapThenFoldSet
<1> HIDE DEF e
<1>12. \A s \in SUBSET S :
         e[s] = IF s = {} THEN f ELSE Op(e[s \ {CHOOSE x \in s : TRUE}], CHOOSE x \in s : TRUE)
    BY <1>10
<1> DEFINE after == [s \in SUBSET S |-> Fine(s)]
<1>13. e[{}] \in after[{}]
    BY <1>3, <1>12
<1>14. \A s \in SUBSET S :
          s # {} /\ e[s \ {choose[s]}] \in after[s \ {choose[s]}] => e[s] \in after[s]
    <2> SUFFICES ASSUME NEW s \in SUBSET S, s # {}, NEW first, first = (CHOOSE x \in s : TRUE),
                        e[s \ {first}] \in Fine(s \ {first})
                 PROVE  e[s] \in Fine(s)
        OBVIOUS
    <2>1. first \in s
        BY <1>2
    <2>2. e[s] = Op(e[s \ {first}], first)
        BY <1>12
    <2> HIDE DEF Fine, Op, S
    <2> QED BY <1>4, <2>1, <2>2
<1> HIDE DEF V, choose, S, after, Fine, Op
<1>15. \A s \in SUBSET S : e[s] \in after[s]
    BY <1>1, <1>6, <1>13, <1>14, FoldKeeps
<1>16. e[S] \in Fine(S)
    BY <1>15 DEF after
<1>17. Steps(f, e[S], Children(id), {})
    BY <1>1, <1>16, StepsWiden DEF Fine
<1> QED BY <1>11, <1>16, <1>17 DEF Fine, S

----------------------------------------------------------------------------
(* The tiles above another one. *)
Level(id, i) == ScaledTo(id, id.z - i)
Height(id) == id.z - MinZoom
Above(id) == Parents(id) \cup {id}

LEMMA ScaledToTwice ==
    ASSUME NEW id \in ID, NEW y \in Nat, NEW z \in Nat, z =< y, y =< id.z
    PROVE  ScaledTo(ScaledTo(id, y), z) = ScaledTo(id, z)
<1> DEFINE q == ScaledTo(id, y)
<1>1. /\ q \in ID /\ q.z = y /\ q.w = id.w
      /\ y >= Len(id.p) => q.p = id.p
      /\ y < Len(id.p) => q.p = SubSeq(id.p, 1, y)
    BY ScaledToFacts
<1>2. id.p \in Seq(Branches) /\ Len(id.p) \in Nat
    BY IdFacts
<1> HIDE DEF q
<1>3. (IF z >= Len(q.p) THEN q.p ELSE SubSeq(q.p, 1, z)) = (IF z >= Len(id.p) THEN id.p ELSE SubSeq(id.p, 1, z))
    <2>1. CASE y >= Len(id.p)
        BY <1>1, <2>1
    <2>2. CASE y < Len(id.p)
        <3>1. q.p = SubSeq(id.p, 1, y) /\ Len(q.p) = y
            BY <1>1, <1>2, <2>2
        <3>2. SubSeq(SubSeq(id.p, 1, y), 1, z) = SubSeq(id.p, 1, z)
            BY <1>2, <2>2
        <3>3. z = y => SubSeq(id.p, 1, y) = SubSeq(id.p, 1, z)
            OBVIOUS
        <3>4. CASE z = y
            <4>1. (IF z >= Len(q.p) THEN q.p ELSE SubSeq(q.p, 1, z)) = q.p
                BY <3>1, <3>4
            <4>2. (IF z >= Len(id.p) THEN id.p ELSE SubSeq(id.p, 1, z)) = SubSeq(id.p, 1, z)
                BY <1>2, <2>2, <3>4
            <4> QED BY <3>1, <3>3, <3>4, <4>1, <4>2
        <3>5. CASE z # y
            <4>1. (IF z >= Len(q.p) THEN q.p ELSE SubSeq(q.p, 1, z)) = SubSeq(q.p, 1, z)
                BY <3>1, <3>5
            <4>2. (IF z >= Len(id.p) THEN id.p ELSE SubSeq(id.p, 1, z)) = SubSeq(id.p, 1, z)
                BY <1>2, <2>2, <3>5
            <4> QED BY <3>1, <3>2, <4>1, <4>2
        <3> QED BY <3>4, <3>5
    <2> QED BY <1>2, <2>1, <2>2
<1>4. ScaledTo(q, z) = ScaledTo(id, z)
    BY <1>1, <1>3 DEF ScaledTo
<1> QED BY <1>4 DEF q

LEMMA LevelFacts ==
    ASSUME NEW id \in ID, id.z >= MinZoom
    PROVE  /\ Height(id) \in Nat /\ id.z \in Nat
           /\ \A i \in 1..Height(id) : Level(id, i) \in ID /\ Level(id, i).z = id.z - i
                                       /\ id.z - i \in MinZoom..(id.z - 1)
           /\ \A q \in Parents(id) : q \in ID /\ q.z \in MinZoom..(id.z - 1)
           /\ Parents(id) = {Level(id, i) : i \in 1..Height(id)}
<1>1. id.z \in Nat /\ MinZoom \in Nat
    BY IdFacts, Zooms
<1>2. \A z \in MinZoom..(id.z - 1) : ScaledTo(id, z) \in ID /\ ScaledTo(id, z).z = z
    <2> TAKE z \in MinZoom..(id.z - 1)
    <2>1. z \in Nat /\ z =< id.z
        BY <1>1
    <2> QED BY <2>1, ScaledToFacts
<1>3. \A i \in 1..Height(id) : id.z - i \in MinZoom..(id.z - 1)
    BY <1>1 DEF Height
<1>4. \A z \in MinZoom..(id.z - 1) : id.z - z \in 1..Height(id) /\ id.z - (id.z - z) = z
    BY <1>1 DEF Height
<1>5. Parents(id) = {Level(id, i) : i \in 1..Height(id)}
    <2>1. ASSUME NEW z \in MinZoom..(id.z - 1) PROVE ScaledTo(id, z) \in {Level(id, i) : i \in 1..Height(id)}
        <3>1. id.z - z \in 1..Height(id) /\ id.z - (id.z - z) = z
            BY <1>4
        <3>2. Level(id, id.z - z) = ScaledTo(id, z)
            BY <3>1 DEF Level
        <3> QED BY <3>1, <3>2
    <2>2. ASSUME NEW i \in 1..Height(id) PROVE Level(id, i) \in Parents(id)
        BY <1>3 DEF Level, Parents
    <2> QED BY <2>1, <2>2 DEF Parents
<1> QED BY <1>1, <1>2, <1>3, <1>5 DEF Level, Height, Parents

LEMMA AboveLevel ==
    ASSUME NEW id \in ID, id.z >= MinZoom, NEW k \in 1..Height(id)
    PROVE  Above(Level(id, k)) = {Level(id, i) : i \in k..Height(id)}
<1> DEFINE q == Level(id, k)
<1>1. /\ q \in ID /\ q.z = id.z - k /\ q.z >= MinZoom /\ id.z \in Nat /\ MinZoom \in Nat /\ Height(id) \in Nat
    BY LevelFacts, Zooms
<1> HIDE DEF q
<1>2. \A i \in 1..Height(q) : Level(q, i) = Level(id, k + i)
    <2> TAKE i \in 1..Height(q)
    <2>1. q.z - i = id.z - (k + i) /\ q.z - i \in Nat /\ q.z \in Nat /\ q.z - i =< q.z /\ q.z =< id.z
        BY <1>1 DEF Height
    <2>2. q = ScaledTo(id, q.z)
        BY <1>1 DEF q, Level
    <2>3. ScaledTo(ScaledTo(id, q.z), q.z - i) = ScaledTo(id, q.z - i)
        BY <2>1, ScaledToTwice
    <2> QED BY <2>1, <2>2, <2>3 DEF Level
<1>3. Height(q) = Height(id) - k
    BY <1>1 DEF Height
<1>4. Parents(q) = {Level(q, i) : i \in 1..Height(q)}
    BY <1>1, LevelFacts
<1>5. Parents(q) \subseteq {Level(id, i) : i \in k..Height(id)}
    <2> SUFFICES ASSUME NEW i \in 1..Height(q) PROVE Level(id, k + i) \in {Level(id, j) : j \in k..Height(id)}
        BY <1>2, <1>4
    <2>1. k + i \in k..Height(id)
        BY <1>1, <1>3
    <2> QED BY <2>1
<1>6. \A j \in k..Height(id) : Level(id, j) \in Parents(q) \cup {q}
    <2> TAKE j \in k..Height(id)
    <2>1. CASE j = k
        BY <2>1 DEF q
    <2>2. CASE j # k
        <3>1. j - k \in 1..Height(q) /\ k + (j - k) = j
            BY <1>1, <1>3, <2>2
        <3>2. Level(q, j - k) = Level(id, j)
            BY <1>2, <3>1
        <3> QED BY <1>4, <3>1, <3>2
    <2> QED BY <2>1, <2>2
<1>7. q \in {Level(id, i) : i \in k..Height(id)}
    BY <1>1 DEF q
<1> QED BY <1>5, <1>6, <1>7 DEF Above, q

(* The place of a tile is taken, by it or by another one of the same data. *)
Taken(f, id) == Unwrapped(id) \in DOMAIN f.shown

(* It has been checked, and cannot be drawn. *)
Idle(f, id) == id \in f.checked /\ ~HasRenderable(f, id)

(* A tile is retained that has not even asked the cache. *)
Waits(f) == \E id \in f.retain : f.tiles[id].status = "new"

(* Why a tile that has been checked may be missing. *)
Accounted(f, id) == id \in f.retain \/ (~Has(f, id) /\ (id.p \in OutOfBounds \/ Waits(f)))

LEMMA GrowsKeeps ==
    ASSUME NEW f, FrameOK(f), NEW g, Grows(f, g)
    PROVE  /\ Waits(f) => Waits(g)
           /\ \A id : Taken(f, id) => Taken(g, id)
           /\ \A id : Idle(f, id) => Idle(g, id)
           /\ \A id \in f.checked : Accounted(f, id) => Accounted(g, id)
           /\ \A id \in DOMAIN f.tiles : id \in DOMAIN g.tiles /\ (HasRenderable(g, id) <=> HasRenderable(f, id))
<1>1. \A id \in f.retain : id \in DOMAIN f.tiles /\ id \in g.retain /\ g.tiles[id].status = f.tiles[id].status
    BY DEF FrameOK, Grows, Kept
<1>2. Waits(f) => Waits(g)
    BY <1>1 DEF Waits
<1>3. \A id : Taken(f, id) => Taken(g, id)
    BY DEF Taken, Grows
<1>4. \A id \in DOMAIN f.tiles : id \in DOMAIN g.tiles /\ (HasRenderable(g, id) <=> HasRenderable(f, id))
    BY DEF Grows, Kept, HasRenderable, Has, IsRenderable
<1>5. \A id : Idle(f, id) => Idle(g, id)
    <2> SUFFICES ASSUME NEW id, id \in f.checked, ~HasRenderable(f, id)
                 PROVE  id \in g.checked /\ ~HasRenderable(g, id)
        BY DEF Idle
    <2>1. id \in g.checked
        BY DEF Grows
    <2>2. CASE id \in DOMAIN f.tiles
        BY <1>4, <2>1, <2>2
    <2>3. CASE id \notin DOMAIN f.tiles
        BY <2>1, <2>3 DEF Grows, HasRenderable, Has
    <2> QED BY <2>2, <2>3
<1>6. \A id \in f.checked : Accounted(f, id) => Accounted(g, id)
    BY <1>1, <1>2 DEF Accounted, Grows, Has
<1> QED BY <1>2, <1>3, <1>4, <1>5, <1>6

Attempts == [frame : Frames, tried : BOOLEAN, loaded : BOOLEAN, done : BOOLEAN]

(* One level of the ascent, from "a" to "b". *)
Ascends(a, b, parent) ==
    \/ a.done /\ b = a
    \/ ~a.done /\ parent \in a.frame.checked /\ b.frame = a.frame /\ b.done
    \/ /\ ~a.done /\ parent \notin a.frame.checked
       /\ Steps(a.frame, b.frame, {parent}, {parent})
       /\ b.frame.checked = a.frame.checked \cup {parent}
       /\ \/ /\ ~Has(b.frame, parent) /\ (parent.p \in OutOfBounds \/ ~(a.tried \/ a.loaded))
             /\ b.tried = a.tried /\ b.loaded = a.loaded /\ ~b.done
          \/ /\ parent \in b.frame.retain
             /\ b.done <=> HasRenderable(b.frame, parent)
             /\ b.done /\ b.frame.draws => Taken(b.frame, parent)
             /\ b.tried \/ b.loaded \/ b.frame.tiles[parent].status = "new"

(* The tile has been checked, and created if it was missing. *)
LEMMA SeenOK ==
    ASSUME NEW f, FrameOK(f), NEW id \in ID, id \notin f.checked,
           NEW missing \in BOOLEAN, missing => ~Has(f, id)
    PROVE  LET seen == [f EXCEPT !.checked = @ \cup {id}]
               g == IF missing THEN Create(seen, id) ELSE seen
           IN /\ FrameOK(g) /\ Steps(f, g, {}, {id}) /\ g.checked = f.checked \cup {id}
              /\ g.shown = f.shown
              /\ ~Has(g, id) => id.p \in OutOfBounds \/ (~missing /\ ~Has(f, id))
<1> DEFINE seen == [f EXCEPT !.checked = @ \cup {id}]
           g == IF missing THEN Create(seen, id) ELSE seen
<1>1. /\ FrameOK(seen) /\ Steps(f, seen, {}, {id}) /\ seen.checked = f.checked \cup {id}
      /\ seen.tiles = f.tiles /\ seen.retain = f.retain /\ seen.shown = f.shown /\ seen.draws = f.draws
    BY CheckOK
<1> HIDE DEF seen
<1>2. CASE ~missing
    BY <1>1, <1>2 DEF Has, seen
<1>3. CASE missing
    <2> DEFINE h == Create(seen, id)
    <2>1. ~Has(seen, id) /\ id \notin DOMAIN f.tiles
        BY <1>1, <1>3 DEF Has
    <2>2. /\ FrameOK(h) /\ Kept(seen.tiles, h.tiles) /\ DOMAIN h.tiles \subseteq DOMAIN seen.tiles \cup {id}
          /\ Has(h, id) <=> id.p \notin OutOfBounds
          /\ h.retain = seen.retain /\ h.checked = seen.checked /\ h.shown = seen.shown /\ h.draws = seen.draws
        BY <1>1, <2>1, CreateOK
    <2> HIDE DEF h
    <2>3. Steps(f, h, {}, {id})
        <3>1. \A k \in f.checked \ DOMAIN f.tiles : k \notin DOMAIN h.tiles
            BY <1>1, <2>2
        <3>2. Kept(f.tiles, h.tiles)
            BY <1>1, <2>2
        <3> QED BY <1>1, <2>2, <3>1, <3>2 DEF Steps, Grows
    <2> QED BY <1>1, <1>3, <2>2, <2>3 DEF h, seen
<1> QED BY <1>2, <1>3

LEMMA AscendToOK ==
    ASSUME NEW a \in Attempts, FrameOK(a.frame), NEW parent \in ID
    PROVE  LET b == AscendTo(a, parent)
           IN b \in Attempts /\ FrameOK(b.frame) /\ Ascends(a, b, parent)
<1> DEFINE missing == ~Has(a.frame, parent) /\ (a.tried \/ a.loaded)
           seen == [a.frame EXCEPT !.checked = @ \cup {parent}]
           f == IF missing THEN Create(seen, parent) ELSE seen
           kept == Retain(f, parent, ParentRequired(a))
           tile == f.tiles[parent]
           b == AscendTo(a, parent)
<1> SUFFICES b \in Attempts /\ FrameOK(b.frame) /\ Ascends(a, b, parent)
    OBVIOUS
<1>1. CASE a.done
    <2>1. b = a
        BY <1>1 DEF AscendTo
    <2> QED BY <1>1, <2>1 DEF Ascends
<1>2. CASE ~a.done /\ parent \in a.frame.checked
    <2>1. b = [a EXCEPT !.done = TRUE]
        BY <1>2 DEF AscendTo
    <2>2. b \in Attempts /\ b.frame = a.frame /\ b.done
        BY <2>1 DEF Attempts
    <2> QED BY <1>2, <2>2 DEF Ascends
<1>3. CASE ~a.done /\ parent \notin a.frame.checked
    <2>1. /\ FrameOK(f) /\ Steps(a.frame, f, {}, {parent}) /\ f.checked = a.frame.checked \cup {parent}
          /\ f.shown = a.frame.shown
          /\ ~Has(f, parent) => parent.p \in OutOfBounds \/ (~missing /\ ~Has(a.frame, parent))
        <3>1. missing \in BOOLEAN /\ (missing => ~Has(a.frame, parent))
            OBVIOUS
        <3> HIDE DEF missing
        <3> QED BY <1>3, <3>1, SeenOK
    <2>2. CASE ~Has(f, parent)
        <3>1. b = [a EXCEPT !.frame = f]
            BY <1>3, <2>2 DEF AscendTo
        <3>2. parent.p \in OutOfBounds \/ ~(a.tried \/ a.loaded)
            BY <2>1, <2>2
        <3> HIDE DEF f
        <3>3. b \in Attempts /\ b.frame = f /\ b.tried = a.tried /\ b.loaded = a.loaded /\ ~b.done
            BY <1>3, <2>1, <3>1 DEF Attempts, FrameOK
        <3>4. Steps(a.frame, f, {parent}, {parent})
            BY <2>1, StepsWiden
        <3> HIDE DEF b, missing, seen
        <3> QED BY <1>3, <2>1, <2>2, <3>2, <3>3, <3>4 DEF Ascends
    <2>3. CASE Has(f, parent)
        <3> DEFINE h == IF IsRenderable(tile) THEN Render(kept, parent) ELSE kept
        <3>1. b = [frame |-> h, tried |-> HasTriedCache(tile), loaded |-> IsLoaded(tile), done |-> IsRenderable(tile)]
            BY <1>3, <2>3 DEF AscendTo
        <3>2. ParentRequired(a) \in BOOLEAN /\ parent \in DOMAIN f.tiles
            BY <2>3 DEF ParentRequired, Attempts, Has
        <3> HIDE DEF f
        <3>3. /\ FrameOK(kept) /\ Steps(f, kept, {}, {}) /\ parent \in kept.retain
              /\ Kept(f.tiles, kept.tiles) /\ kept.shown = f.shown
            BY <2>1, <3>2, RetainOK
        <3>4. HasRenderable(kept, parent) <=> IsRenderable(tile)
            BY <3>2, <3>3 DEF HasRenderable, Has, Kept, IsRenderable
        <3> HIDE DEF kept
        <3>5. /\ FrameOK(h) /\ Steps(kept, h, {parent}, {}) /\ parent \in h.retain /\ Kept(kept.tiles, h.tiles)
              /\ IsRenderable(tile) /\ h.draws => Taken(h, parent)
            <4>1. CASE IsRenderable(tile)
                <5>1. h = Render(kept, parent)
                    BY <4>1
                <5>2. /\ FrameOK(Render(kept, parent)) /\ Steps(kept, Render(kept, parent), {parent}, {})
                      /\ Kept(kept.tiles, Render(kept, parent).tiles)
                      /\ Render(kept, parent).retain = kept.retain
                      /\ kept.draws => Unwrapped(parent) \in DOMAIN Render(kept, parent).shown
                    BY <3>3, <3>4, <4>1, RenderOK
                <5> HIDE DEF h
                <5> QED BY <3>3, <5>1, <5>2 DEF Taken, Steps, Grows
            <4>2. CASE ~IsRenderable(tile)
                BY <3>3, <4>2, StepsReflexive DEF Kept
            <4> QED BY <4>1, <4>2
        <3> HIDE DEF h
        <3>6. parent \in DOMAIN h.tiles /\ h.tiles[parent].status = tile.status
            BY <3>2, <3>3, <3>5 DEF Kept
        <3>7. Steps(a.frame, h, {parent}, {parent})
            <4>1. /\ Steps(a.frame, f, {parent}, {parent}) /\ Steps(f, kept, {parent}, {parent})
                  /\ Steps(kept, h, {parent}, {parent})
                BY <2>1, <3>3, <3>5, StepsWiden
            <4> QED BY <4>1, StepsTransitive
        <3>8. h.checked = a.frame.checked \cup {parent}
            BY <2>1, <3>3, <3>5 DEF Steps, Grows
        <3>9. b \in Attempts /\ b.frame = h /\ b.tried = HasTriedCache(tile) /\ b.done = IsRenderable(tile)
            BY <3>1, <3>5 DEF Attempts, FrameOK, HasTriedCache, IsLoaded, IsRenderable
        <3>10. HasRenderable(h, parent) <=> b.done
            BY <3>6, <3>9 DEF HasRenderable, Has, IsRenderable
        <3>11. b.tried \/ b.loaded \/ h.tiles[parent].status = "new"
            BY <3>6, <3>9 DEF HasTriedCache
        <3>12. b.done /\ h.draws => Taken(h, parent)
            BY <3>5, <3>9
        <3> HIDE DEF b, tile
        <3> QED BY <1>3, <3>5, <3>7, <3>8, <3>9, <3>10, <3>11, <3>12 DEF Ascends
    <2> QED BY <2>2, <2>3
<1> QED BY <1>1, <1>2, <1>3

LEMMA AscentFold ==
    ASSUME NEW s \in Seq(ID), NEW base \in Attempts, FrameOK(base.frame)
    PROVE  \E d : /\ d[0] = base /\ d[Len(s)] = FoldLeft(AscendTo, base, s)
                  /\ \A k \in 1..Len(s) : d[k] = AscendTo(d[k - 1], s[k])
<1> DEFINE V == {a \in Attempts : FrameOK(a.frame)}
           step == [x \in V \X ID |-> AscendTo(x[1], x[2])]
           Solution(f) == f = [t \in SUBSET (DOMAIN s) |->
                                 IF t = {} THEN base ELSE AscendTo(f[t \ {Max(t)}], s[Max(t)])]
           c == CHOOSE f : Solution(f)
<1>1. step \in [V \X ID -> V]
    <2> SUFFICES ASSUME NEW a \in V, NEW id \in ID PROVE AscendTo(a, id) \in V
        OBVIOUS
    <2> QED BY AscendToOK
<1>2. PICK f : SolvesLeft(f, V, ID, s, base, step)
    <2>1. base \in V
        OBVIOUS
    <2> HIDE DEF step, V
    <2> QED BY <1>1, <2>1, FoldLeftSolved
<1>3. \A t \in SUBSET (DOMAIN s) : t # {} =>
        step[<<f[t \ {Max(t)}], s[Max(t)]>>] = AscendTo(f[t \ {Max(t)}], s[Max(t)])
    <2> HIDE DEF V
    <2> QED BY <1>2 DEF SolvesLeft
<1> HIDE DEF V
<1>4. Solution(f)
    <2> HIDE DEF step
    <2> QED BY <1>2, <1>3 DEF SolvesLeft
<1>5. Solution(c)
    BY <1>4, Zenon
<1>6. FoldLeft(AscendTo, base, s) = c[DOMAIN s]
    BY Zenon DEF FoldLeft, MapThenFoldSet
<1> HIDE DEF c
<1>7. \A t \in SUBSET (DOMAIN s) : c[t] = IF t = {} THEN base ELSE AscendTo(c[t \ {Max(t)}], s[Max(t)])
    BY <1>5
<1> DEFINE d == [k \in 0..Len(s) |-> c[1..k]]
<1>8. Len(s) \in Nat /\ DOMAIN s = 1..Len(s)
    OBVIOUS
<1>9. \A k \in 1..Len(s) : d[k] = AscendTo(d[k - 1], s[k])
    <2> TAKE k \in 1..Len(s)
    <2>1. 1..k \in SUBSET (DOMAIN s) /\ k - 1 \in 0..Len(s) /\ k \in 0..Len(s) /\ 1..k # {}
          /\ Max(1..k) = k /\ (1..k) \ {k} = 1..(k - 1)
        BY <1>8, Segments
    <2>2. c[1..k] = AscendTo(c[1..(k - 1)], s[k])
        BY <1>7, <2>1
    <2> QED BY <2>1, <2>2
<1>10. d[0] = base /\ d[Len(s)] = c[DOMAIN s]
    <2>1. c[{}] = base
        BY <1>7
    <2>2. 0 \in 0..Len(s) /\ Len(s) \in 0..Len(s)
        BY <1>8
    <2> QED BY <1>8, <2>1, <2>2, Segments
<1> QED BY <1>6, <1>9, <1>10

(* A tile that has been checked has its place taken from above, or there is nothing to draw in it. *)
Resolved(f, id) == (\E parent \in Above(id) : Taken(f, parent)) \/ (\A parent \in Above(id) : Idle(f, parent))

CheckedOK(f, zoom) ==
    \A id \in f.checked : id.z \in MinZoom..(zoom - 1) /\ Accounted(f, id) /\ (f.draws => Resolved(f, id))

(* After "k" levels. *)
Passed(f, id, k) == \A i \in 1..k : Idle(f, Level(id, i))

Stopped(f, g, id, k) ==
    \E j \in 1..k : /\ Level(id, j) \in f.checked \/ (g.draws => Taken(g, Level(id, j)))
                    /\ Passed(g, id, j - 1)
                    /\ g.checked \subseteq f.checked \cup {Level(id, i) : i \in 1..j}

Ascent(f, id, k, a) ==
    /\ a \in Attempts /\ FrameOK(a.frame)
    /\ Steps(f, a.frame, Parents(id), {Level(id, i) : i \in 1..k})
    /\ \A q \in a.frame.checked : Accounted(a.frame, q)
    /\ ~a.done => a.tried \/ a.loaded \/ Waits(a.frame)
    /\ ~a.done => Passed(a.frame, id, k)
    /\ a.done => Stopped(f, a.frame, id, k)

LEMMA AscentGoesOn ==
    ASSUME NEW f, NEW id \in ID, id.z >= MinZoom, NEW k \in 1..Height(id), NEW a, Ascent(f, id, k - 1, a)
    PROVE  Ascent(f, id, k, AscendTo(a, Level(id, k)))
<1> DEFINE parent == Level(id, k)
           b == AscendTo(a, parent)
           seen == {Level(id, i) : i \in 1..k}
<1>1. /\ a \in Attempts /\ FrameOK(a.frame)
      /\ Steps(f, a.frame, Parents(id), {Level(id, i) : i \in 1..(k - 1)})
      /\ \A q \in a.frame.checked : Accounted(a.frame, q)
      /\ ~a.done => a.tried \/ a.loaded \/ Waits(a.frame)
      /\ ~a.done => Passed(a.frame, id, k - 1)
      /\ a.done => Stopped(f, a.frame, id, k - 1)
    BY DEF Ascent
<1>2. /\ Height(id) \in Nat /\ id.z \in Nat
      /\ \A i \in 1..Height(id) : Level(id, i) \in ID /\ Level(id, i).z = id.z - i
      /\ Parents(id) = {Level(id, i) : i \in 1..Height(id)}
    BY LevelFacts
<1>3. parent \in ID /\ parent \in Parents(id) /\ parent \in seen
    BY <1>2
<1>4. b \in Attempts /\ FrameOK(b.frame) /\ Ascends(a, b, parent)
    BY <1>1, <1>3, AscendToOK
<1>5. {Level(id, i) : i \in 1..(k - 1)} \subseteq seen
    BY <1>2
<1>6. Steps(f, a.frame, Parents(id), seen)
    <2> HIDE DEF seen
    <2> QED BY <1>1, <1>5, StepsWiden
<1> SUFFICES Ascent(f, id, k, b)
    OBVIOUS
<1> HIDE DEF b, seen
<1>7. CASE a.done /\ b = a
    <2>1. Stopped(f, a.frame, id, k)
        BY <1>1, <1>2, <1>7 DEF Stopped
    <2> QED BY <1>1, <1>6, <1>7, <2>1 DEF Ascent, seen
<1>8. CASE ~a.done /\ parent \in a.frame.checked /\ b.frame = a.frame /\ b.done
    <2>1. parent \in f.checked
        <3>1. \A i \in 1..(k - 1) : Level(id, i) # parent
            BY <1>2
        <3>2. a.frame.checked \subseteq f.checked \cup {Level(id, i) : i \in 1..(k - 1)}
            BY <1>1 DEF Steps
        <3> QED BY <1>8, <3>1, <3>2
    <2>2. Stopped(f, b.frame, id, k)
        <3>1. k \in 1..k /\ k - 1 \in Int
            BY <1>2
        <3>2. a.frame.checked \subseteq f.checked \cup seen
            BY <1>6 DEF Steps
        <3> QED BY <1>1, <1>8, <2>1, <3>1, <3>2 DEF Stopped, seen
    <2> QED BY <1>1, <1>4, <1>6, <1>8, <2>2 DEF Ascent, seen
<1>9. CASE /\ ~a.done /\ parent \notin a.frame.checked
           /\ Steps(a.frame, b.frame, {parent}, {parent})
           /\ b.frame.checked = a.frame.checked \cup {parent}
           /\ \/ /\ ~Has(b.frame, parent) /\ (parent.p \in OutOfBounds \/ ~(a.tried \/ a.loaded))
                 /\ b.tried = a.tried /\ b.loaded = a.loaded /\ ~b.done
              \/ /\ parent \in b.frame.retain
                 /\ b.done <=> HasRenderable(b.frame, parent)
                 /\ b.done /\ b.frame.draws => Taken(b.frame, parent)
                 /\ b.tried \/ b.loaded \/ b.frame.tiles[parent].status = "new"
    <2>1. Steps(f, b.frame, Parents(id), seen)
        <3>1. Steps(a.frame, b.frame, Parents(id), seen)
            BY <1>3, <1>9, StepsWiden
        <3> QED BY <1>6, <3>1, StepsTransitive
    <2>2. /\ Waits(a.frame) => Waits(b.frame)
          /\ \A q : Idle(a.frame, q) => Idle(b.frame, q)
          /\ \A q \in a.frame.checked : Accounted(a.frame, q) => Accounted(b.frame, q)
        BY <1>1, <1>9, GrowsKeeps DEF Steps
    <2>3. Passed(b.frame, id, k - 1)
        BY <1>1, <1>9, <2>2 DEF Passed
    <2>4. Accounted(b.frame, parent)
        <3>1. ~(a.tried \/ a.loaded) => Waits(b.frame)
            BY <1>1, <1>9, <2>2
        <3> QED BY <1>9, <3>1 DEF Accounted
    <2>5. \A q \in b.frame.checked : Accounted(b.frame, q)
        BY <1>1, <1>9, <2>2, <2>4
    <2>6. ~b.done => b.tried \/ b.loaded \/ Waits(b.frame)
        <3>1. CASE b.tried = a.tried /\ b.loaded = a.loaded
            BY <1>1, <1>9, <2>2, <3>1
        <3>2. CASE parent \in b.frame.retain /\ (b.tried \/ b.loaded \/ b.frame.tiles[parent].status = "new")
            BY <3>2 DEF Waits
        <3> QED BY <1>9, <3>1, <3>2
    <2>7. ~b.done => Passed(b.frame, id, k)
        <3> SUFFICES ASSUME ~b.done PROVE Passed(b.frame, id, k)
            OBVIOUS
        <3>1. ~HasRenderable(b.frame, parent)
            BY <1>9 DEF HasRenderable
        <3>2. Idle(b.frame, parent)
            BY <1>9, <3>1 DEF Idle
        <3>3. \A i \in 1..k : i = k \/ i \in 1..(k - 1)
            BY <1>2
        <3> QED BY <2>3, <3>2, <3>3 DEF Passed
    <2>8. b.done => Stopped(f, b.frame, id, k)
        <3> SUFFICES ASSUME b.done PROVE Stopped(f, b.frame, id, k)
            OBVIOUS
        <3>1. b.frame.draws => Taken(b.frame, parent)
            BY <1>9
        <3>2. b.frame.checked \subseteq f.checked \cup seen
            BY <2>1 DEF Steps
        <3>3. k \in 1..k
            BY <1>2
        <3> QED BY <2>3, <3>1, <3>2, <3>3 DEF Stopped, seen
    <2> QED BY <1>4, <2>1, <2>5, <2>6, <2>7, <2>8 DEF Ascent, seen
<1> QED BY <1>4, <1>7, <1>8, <1>9 DEF Ascends

LEMMA AscentEnds ==
    ASSUME NEW f, NEW id \in ID, id.z >= MinZoom, FrameOK(f), id \in f.retain, CheckedOK(f, id.z)
    PROVE  \E a : Ascent(f, id, Height(id), a) /\ RenderParents(f, id) = a.frame
<1> DEFINE n == Height(id)
           levels == [i \in 1..(id.z - MinZoom) |-> ScaledTo(id, id.z - i)]
           start == [frame |-> f, tried |-> HasTriedCache(f.tiles[id]),
                     loaded |-> IsLoaded(f.tiles[id]), done |-> FALSE]
<1>1. /\ n \in Nat /\ \A i \in 1..n : Level(id, i) \in ID
    BY LevelFacts
<1>2. levels \in Seq(ID) /\ Len(levels) = n /\ \A i \in 1..n : levels[i] = Level(id, i)
    <2>1. levels = [i \in 1..n |-> Level(id, i)]
        BY DEF Level, Height
    <2> DEFINE s == [i \in 1..n |-> Level(id, i)]
    <2>2. s \in Seq(ID) /\ Len(s) = n /\ \A i \in 1..n : s[i] = Level(id, i)
        BY <1>1
    <2> HIDE DEF levels, s
    <2> QED BY <2>1, <2>2 DEF s
<1>3. Ascent(f, id, 0, start)
    <2>1. start \in Attempts
        BY DEF FrameOK, Attempts, HasTriedCache, IsLoaded
    <2>2. \A q \in f.checked : Accounted(f, q)
        BY DEF CheckedOK
    <2>3. start.tried \/ start.loaded \/ Waits(f)
        BY DEF Waits, HasTriedCache
    <2>4. Passed(f, id, 0)
        BY DEF Passed
    <2>5. /\ start.frame = f /\ ~start.done
        OBVIOUS
    <2>6. Steps(f, f, Parents(id), {Level(id, i) : i \in 1..0})
        BY StepsReflexive
    <2> HIDE DEF start
    <2> QED BY <2>1, <2>2, <2>3, <2>4, <2>5, <2>6 DEF Ascent
<1> HIDE DEF levels, start
<1>4. PICK d : /\ d[0] = start /\ d[n] = FoldLeft(AscendTo, start, levels)
               /\ \A k \in 1..n : d[k] = AscendTo(d[k - 1], levels[k])
    <2>1. \E d : /\ d[0] = start /\ d[Len(levels)] = FoldLeft(AscendTo, start, levels)
                 /\ \A k \in 1..Len(levels) : d[k] = AscendTo(d[k - 1], levels[k])
        <3>1. levels \in Seq(ID) /\ start \in Attempts /\ FrameOK(start.frame)
            BY <1>2, <1>3 DEF Ascent
        <3> QED BY <3>1, AscentFold
    <2>2. Len(levels) = n
        BY <1>2
    <2> HIDE DEF n
    <2> QED BY <2>1, <2>2
<1> DEFINE after == [k \in 0..n |-> {a \in Attempts : Ascent(f, id, k, a)}]
<1>5. d[0] \in after[0]
    BY <1>1, <1>3, <1>4 DEF Ascent
<1>6. \A k \in 1..n : d[k - 1] \in after[k - 1] => d[k] \in after[k]
    <2> SUFFICES ASSUME NEW k \in 1..n, Ascent(f, id, k - 1, d[k - 1]) PROVE d[k] \in after[k]
        <3>1. \A k \in 1..n : k - 1 \in 0..n
            BY <1>1
        <3> HIDE DEF n
        <3> QED BY <3>1
    <2>1. d[k] = AscendTo(d[k - 1], Level(id, k))
        BY <1>2, <1>4
    <2>2. Ascent(f, id, k, d[k])
        BY <2>1, AscentGoesOn
    <2>3. k \in 0..n
        BY <1>1
    <2> QED BY <2>2, <2>3 DEF Ascent
<1> HIDE DEF after, n
<1>7. d[n] \in after[n]
    BY <1>1, <1>5, <1>6, SegmentsKeep
<1>8. Ascent(f, id, n, d[n])
    BY <1>1, <1>7 DEF after
<1>9. RenderParents(f, id) = d[n].frame
    BY <1>4 DEF RenderParents, start, levels
<1> QED BY <1>8, <1>9 DEF n

(* The ascent leaves every tile that is checked resolved, and those above the ideal one too. *)
LEMMA RenderParentsOK ==
    ASSUME NEW f, NEW id \in ID, id.z >= MinZoom, FrameOK(f), id \in f.retain, CheckedOK(f, id.z)
    PROVE  LET g == RenderParents(f, id)
           IN /\ FrameOK(g) /\ Steps(f, g, Parents(id), Parents(id)) /\ CheckedOK(g, id.z)
              /\ g.draws => (\E q \in Parents(id) : Taken(g, q)) \/ (\A q \in Parents(id) : Idle(g, q))
<1> DEFINE n == Height(id)
<1>1. PICK a : Ascent(f, id, n, a) /\ RenderParents(f, id) = a.frame
    BY AscentEnds
<1> DEFINE g == a.frame
<1>2. /\ n \in Nat /\ id.z \in Nat
      /\ \A i \in 1..n : Level(id, i) \in ID /\ Level(id, i).z = id.z - i /\ id.z - i \in MinZoom..(id.z - 1)
      /\ Parents(id) = {Level(id, i) : i \in 1..n}
    BY LevelFacts
<1>3. /\ FrameOK(g) /\ Steps(f, g, Parents(id), Parents(id))
      /\ \A q \in g.checked : Accounted(g, q)
      /\ ~a.done => Passed(g, id, n)
      /\ a.done => Stopped(f, g, id, n)
    BY <1>1, <1>2 DEF Ascent
<1> HIDE DEF g
<1>4. /\ \A q : Taken(f, q) => Taken(g, q)
      /\ \A q : Idle(f, q) => Idle(g, q)
      /\ f.draws = g.draws
    BY <1>3, GrowsKeeps DEF Steps, Grows
<1>5. \A q \in g.checked : q.z \in MinZoom..(id.z - 1)
    <2>1. \A q \in f.checked : q.z \in MinZoom..(id.z - 1)
        BY DEF CheckedOK
    <2>2. g.checked \subseteq f.checked \cup Parents(id)
        BY <1>3 DEF Steps
    <2> QED BY <1>2, <2>1, <2>2
<1>6. ASSUME g.draws
      PROVE  /\ (\E q \in Parents(id) : Taken(g, q)) \/ (\A q \in Parents(id) : Idle(g, q))
             /\ \A q \in g.checked : Resolved(g, q)
    <2>1. \A q \in f.checked : Resolved(g, q)
        BY <1>4, <1>6 DEF CheckedOK, Resolved
    <2>2. \A k \in 1..n : Above(Level(id, k)) = {Level(id, i) : i \in k..n}
        BY AboveLevel
    <2>3. CASE ~a.done
        <3>1. \A i \in 1..n : Idle(g, Level(id, i))
            BY <1>3, <2>3 DEF Passed
        <3>2. \A k \in 1..n : Resolved(g, Level(id, k))
            <4> TAKE k \in 1..n
            <4>1. \A i \in k..n : i \in 1..n
                BY <1>2
            <4> QED BY <2>2, <3>1, <4>1 DEF Resolved
        <3>3. g.checked \subseteq f.checked \cup Parents(id)
            BY <1>3 DEF Steps
        <3> QED BY <1>2, <2>1, <3>1, <3>2, <3>3
    <2>4. CASE a.done
        <3>1. PICK j \in 1..n : /\ Level(id, j) \in f.checked \/ (g.draws => Taken(g, Level(id, j)))
                                /\ Passed(g, id, j - 1)
                                /\ g.checked \subseteq f.checked \cup {Level(id, i) : i \in 1..j}
            BY <1>3, <2>4 DEF Stopped
        <3>2. Level(id, j) \in Above(Level(id, j))
            BY DEF Above
        <3>3. Resolved(g, Level(id, j))
            BY <1>6, <2>1, <3>1, <3>2 DEF Resolved
        <3>4. CASE \E p \in Above(Level(id, j)) : Taken(g, p)
            <4>1. PICK m \in j..n : Taken(g, Level(id, m))
                BY <2>2, <3>4
            <4>2. m \in 1..n
                BY <1>2
            <4>3. \A k \in 1..j : Resolved(g, Level(id, k))
                <5> TAKE k \in 1..j
                <5>1. k \in 1..n /\ m \in k..n
                    BY <1>2
                <5> QED BY <2>2, <4>1, <5>1 DEF Resolved
            <4> QED BY <1>2, <2>1, <3>1, <4>1, <4>2, <4>3
        <3>5. CASE \A p \in Above(Level(id, j)) : Idle(g, p)
            <4>1. \A i \in 1..n : Idle(g, Level(id, i))
                <5> TAKE i \in 1..n
                <5>1. CASE i \in 1..(j - 1)
                    BY <3>1, <5>1 DEF Passed
                <5>2. CASE i \in j..n
                    BY <2>2, <3>5, <5>2
                <5> QED BY <1>2, <5>1, <5>2
            <4>2. \A k \in 1..j : Resolved(g, Level(id, k))
                <5> TAKE k \in 1..j
                <5>1. k \in 1..n /\ \A i \in k..n : i \in 1..n
                    BY <1>2
                <5> QED BY <2>2, <4>1, <5>1 DEF Resolved
            <4> QED BY <1>2, <2>1, <3>1, <4>1, <4>2
        <3> QED BY <3>3, <3>4, <3>5 DEF Resolved
    <2> QED BY <2>3, <2>4
<1>7. CheckedOK(g, id.z)
    BY <1>3, <1>5, <1>6 DEF CheckedOK
<1> QED BY <1>1, <1>3, <1>6, <1>7 DEF g

LEMMA ChildrenPlaces ==
    ASSUME NEW id \in ID
    PROVE  /\ \A child \in Children(id) : child.z = id.z + 1
           /\ id.z >= MaxZoom => \E child \in ID : /\ Children(id) = {child}
                                                   /\ Unwrapped(child) = Unwrapped(id)
<1>1. /\ id.z \in Nat /\ id.w \in Int /\ id.p \in Seq(Branches) /\ Len(id.p) \in Nat
      /\ Len(id.p) =< id.z /\ MaxZoom \in Nat
    BY IdFacts, Zooms
<1>2. CASE id.z >= MaxZoom
    <2> DEFINE child == ScaledTo(id, id.z + 1)
    <2>1. Children(id) = {child}
        BY <1>1, <1>2 DEF Children
    <2>2. child \in ID /\ child.z = id.z + 1 /\ child.w = id.w /\ (id.z + 1 >= Len(id.p) => child.p = id.p)
        <3>1. id.z + 1 \in Nat /\ id.z + 1 > MaxZoom
            BY <1>1, <1>2
        <3> QED BY <3>1, ScaledToFacts
    <2>3. id.z + 1 >= Len(id.p)
        BY <1>1
    <2>4. Unwrapped(child) = Unwrapped(id)
        BY <2>2, <2>3 DEF Unwrapped
    <2> HIDE DEF child
    <2> QED BY <2>1, <2>2, <2>4
<1>3. CASE ~(id.z >= MaxZoom)
    <2>1. Children(id) = {Id(id.z + 1, id.w, Append(id.p, b)) : b \in Branches}
        BY <1>1, <1>3 DEF Children
    <2>2. \A b \in Branches : Id(id.z + 1, id.w, Append(id.p, b)).z = id.z + 1
        BY DEF Id
    <2> QED BY <1>3, <2>1, <2>2
<1> QED BY <1>2, <1>3

Near(id) == Above(id) \cup Children(id)

(* A pass over the ideal tiles of a zoom. *)
Pass(f, zoom) ==
    /\ FrameOK(f) /\ CheckedOK(f, zoom)
    /\ \A u \in DOMAIN f.shown : f.shown[u].z \in MinZoom..(zoom + 1)

(* This ideal tile has been seen to. *)
Done(f, id) ==
    id.p \notin OutOfBounds =>
        /\ id \in f.retain
        /\ f.draws => IF HasRenderable(f, id) THEN Taken(f, id)
                      ELSE \/ \A child \in Children(id) : Taken(f, child)
                           \/ \E q \in Parents(id) : Taken(f, q)
                           \/ \A q \in Parents(id) : Idle(f, q)

LEMMA DoneStays ==
    ASSUME NEW f, FrameOK(f), NEW g, Grows(f, g), NEW id, Done(f, id)
    PROVE  Done(g, id)
<1> SUFFICES ASSUME id.p \notin OutOfBounds PROVE Done(g, id)
    BY DEF Done
<1>1. /\ \A q : Taken(f, q) => Taken(g, q)
      /\ \A q : Idle(f, q) => Idle(g, q)
      /\ \A q \in DOMAIN f.tiles : HasRenderable(g, q) <=> HasRenderable(f, q)
    BY GrowsKeeps
<1>2. id \in f.retain /\ id \in g.retain /\ id \in DOMAIN f.tiles /\ g.draws = f.draws
    BY DEF Done, Grows, FrameOK
<1> QED BY <1>1, <1>2 DEF Done

LEMMA CheckedStays ==
    ASSUME NEW f, FrameOK(f), NEW zoom, CheckedOK(f, zoom), NEW g, NEW drawn, Steps(f, g, drawn, {})
    PROVE  CheckedOK(g, zoom)
<1>1. /\ \A q : Taken(f, q) => Taken(g, q)
      /\ \A q : Idle(f, q) => Idle(g, q)
      /\ \A q \in f.checked : Accounted(f, q) => Accounted(g, q)
    BY GrowsKeeps DEF Steps
<1>2. g.checked \subseteq f.checked /\ g.draws = f.draws
    BY DEF Steps, Grows
<1>3. \A q : Resolved(f, q) => Resolved(g, q)
    BY <1>1 DEF Resolved
<1> QED BY <1>1, <1>2, <1>3 DEF CheckedOK

LEMMA PassGoesOn ==
    ASSUME NEW f, NEW id \in ID, id.z >= MinZoom, Pass(f, id.z),
           NEW g, FrameOK(g), CheckedOK(g, id.z), Steps(f, g, Near(id), Parents(id))
    PROVE  Pass(g, id.z)
<1>1. id.z \in Nat /\ MinZoom \in Nat
    BY IdFacts, Zooms
<1>2. \A q \in Near(id) : q.z \in MinZoom..(id.z + 1)
    <2>1. \A q \in Parents(id) : q.z \in MinZoom..(id.z - 1)
        BY LevelFacts
    <2>2. \A q \in Children(id) : q.z = id.z + 1
        BY ChildrenPlaces
    <2> QED BY <1>1, <2>1, <2>2 DEF Near, Above
<1>3. \A u \in DOMAIN g.shown : g.shown[u].z \in MinZoom..(id.z + 1)
    BY <1>2 DEF Pass, Steps, Grows
<1> QED BY <1>3 DEF Pass

(* An ideal tile is drawn itself if it can be, unless its place has been taken. *)
Fresh(f, g, id) ==
    id.p \notin OutOfBounds /\ g.draws /\ HasRenderable(g, id) /\ ~Taken(f, id) => g.shown[Unwrapped(id)] = id

LEMMA UpdateIdealOK ==
    ASSUME NEW frame, NEW id \in ID, id.z >= MinZoom, Pass(frame, id.z)
    PROVE  LET g == UpdateIdeal(frame, id)
           IN /\ Pass(g, id.z) /\ Steps(frame, g, Near(id), Parents(id))
              /\ Done(g, id) /\ Fresh(frame, g, id)
<1> DEFINE f == IF Has(frame, id) THEN frame ELSE Create(frame, id)
           kept == Retain(f, id, TRUE)
           g == UpdateIdeal(frame, id)
<1>1. FrameOK(frame) /\ CheckedOK(frame, id.z) /\ id.z \in Nat /\ MinZoom \in Nat
    BY IdFacts, Zooms DEF Pass
<1>2. id \notin frame.checked
    BY <1>1 DEF CheckedOK
<1>3. FrameOK(f) /\ Steps(frame, f, {}, {}) /\ (~Has(f, id) => id.p \in OutOfBounds)
    <2>1. CASE Has(frame, id)
        BY <1>1, <2>1, StepsReflexive
    <2>2. CASE ~Has(frame, id)
        <3>1. f = Create(frame, id)
            BY <2>2
        <3> HIDE DEF f
        <3> QED BY <1>1, <1>2, <2>2, <3>1, CreateOK
    <2> QED BY <2>1, <2>2
<1> SUFFICES /\ Pass(g, id.z) /\ Steps(frame, g, Near(id), Parents(id))
             /\ Done(g, id) /\ Fresh(frame, g, id)
    OBVIOUS
<1>4. ASSUME NEW h, FrameOK(h), Steps(frame, h, Near(id), {})
      PROVE  Pass(h, id.z) /\ Steps(frame, h, Near(id), Parents(id))
    <2>1. CheckedOK(h, id.z)
        BY <1>1, <1>4, CheckedStays
    <2>2. Steps(frame, h, Near(id), Parents(id))
        BY <1>4, StepsWiden
    <2> QED BY <1>4, <2>1, <2>2, PassGoesOn
<1>5. CASE ~Has(f, id)
    <2>1. g = f
        BY <1>5 DEF UpdateIdeal, HasRenderable
    <2> HIDE DEF f, g
    <2>2. Steps(frame, f, Near(id), {})
        BY <1>3, StepsWiden
    <2>3. Done(g, id) /\ Fresh(frame, g, id)
        BY <1>3, <1>5, <2>1 DEF Done, Fresh
    <2> QED BY <1>3, <1>4, <2>1, <2>2, <2>3
<1>6. CASE Has(f, id)
    <2>1. id \in DOMAIN f.tiles /\ TRUE \in BOOLEAN
        BY <1>6 DEF Has
    <2>2. CASE HasRenderable(f, id)
        <3>1. g = Render(kept, id)
            BY <1>6, <2>2 DEF UpdateIdeal
        <3> HIDE DEF f
        <3>2. FrameOK(kept) /\ Steps(f, kept, {}, {}) /\ id \in kept.retain /\ Kept(f.tiles, kept.tiles)
            BY <1>3, <2>1, RetainOK
        <3>3. HasRenderable(kept, id)
            BY <2>1, <2>2, <3>2 DEF HasRenderable, Has, Kept, IsRenderable
        <3> HIDE DEF kept, g
        <3>4. /\ FrameOK(g) /\ Steps(kept, g, {id}, {}) /\ Kept(kept.tiles, g.tiles)
              /\ g.retain = kept.retain
              /\ kept.draws => Unwrapped(id) \in DOMAIN g.shown
            BY <3>1, <3>2, <3>3, RenderOK
        <3>5. Steps(frame, g, Near(id), {})
            <4>1. /\ Steps(frame, f, Near(id), {}) /\ Steps(f, kept, Near(id), {})
                  /\ Steps(kept, g, Near(id), {})
                BY <1>3, <3>2, <3>4, StepsWiden DEF Near, Above
            <4> QED BY <4>1, StepsTransitive
        <3>6. Done(g, id)
            <4>1. id \in g.retain
                BY <3>2, <3>4
            <4>2. g.draws => Taken(g, id)
                BY <3>4 DEF Taken, Steps, Grows
            <4>3. HasRenderable(g, id)
                BY <3>3, <3>4 DEF HasRenderable, Has, IsRenderable, Kept
            <4> QED BY <4>1, <4>2, <4>3 DEF Done
        <3>7. Fresh(frame, g, id)
            <4>1. DOMAIN kept.shown \subseteq DOMAIN frame.shown
                BY <1>3, <3>2 DEF Steps
            <4>2. \A u \in DOMAIN g.shown \ DOMAIN kept.shown : g.shown[u] = id
                BY <3>4 DEF Steps
            <4>3. g.draws => Unwrapped(id) \in DOMAIN g.shown
                BY <3>4 DEF Steps, Grows
            <4> QED BY <4>1, <4>2, <4>3 DEF Fresh, Taken
        <3> QED BY <1>4, <3>4, <3>5, <3>6, <3>7
    <2>3. CASE ~HasRenderable(f, id)
        <3> DEFINE subs == Substitutes(kept, id)
                   h == RenderChildren(kept, id)
        <3>1. g = IF subs = Children(id) THEN h ELSE RenderParents(h, id)
            BY <1>6, <2>3 DEF UpdateIdeal
        <3> HIDE DEF f
        <3>2. FrameOK(kept) /\ Steps(f, kept, {}, {}) /\ id \in kept.retain /\ Kept(kept.tiles, f.tiles)
            BY <1>3, <2>1, RetainOK
        <3>3. ~HasRenderable(kept, id) /\ id \in DOMAIN kept.tiles
            BY <2>3, <3>2 DEF HasRenderable, Has, Kept, IsRenderable, FrameOK
        <3> HIDE DEF kept, g
        <3>4. ChildrenDrawn(kept, h, subs) /\ Steps(kept, h, Children(id), {})
            BY <3>2, RenderChildrenOK
        <3> HIDE DEF h, subs
        <3>5. FrameOK(h) /\ id \in h.retain /\ ~HasRenderable(h, id) /\ id \in DOMAIN h.tiles /\ h.draws = kept.draws
            BY <3>2, <3>3, <3>4 DEF ChildrenDrawn, HasRenderable, Has, IsRenderable, Kept, Steps, Grows
        <3>6. Steps(frame, h, Near(id), {})
            <4>1. /\ Steps(frame, f, Near(id), {}) /\ Steps(f, kept, Near(id), {})
                  /\ Steps(kept, h, Near(id), {})
                BY <1>3, <3>2, <3>4, StepsWiden DEF Near
            <4> QED BY <4>1, StepsTransitive
        <3>7. CASE subs = Children(id)
            <4>1. h.draws => \A child \in Children(id) : Taken(h, child)
                BY <3>4, <3>5, <3>7 DEF ChildrenDrawn, Taken
            <4>2. Done(h, id) /\ Fresh(frame, h, id)
                BY <3>5, <4>1 DEF Done, Fresh
            <4> QED BY <1>4, <3>1, <3>5, <3>6, <3>7, <4>2
        <3>8. CASE subs # Children(id)
            <4>1. CheckedOK(h, id.z)
                BY <1>4, <3>5, <3>6 DEF Pass
            <4>2. /\ FrameOK(g) /\ Steps(h, g, Parents(id), Parents(id)) /\ CheckedOK(g, id.z)
                  /\ g.draws => (\E q \in Parents(id) : Taken(g, q)) \/ (\A q \in Parents(id) : Idle(g, q))
                BY <3>1, <3>5, <3>8, <4>1, RenderParentsOK
            <4>3. Steps(frame, g, Near(id), Parents(id))
                <5>1. Steps(frame, h, Near(id), Parents(id)) /\ Steps(h, g, Near(id), Parents(id))
                    BY <3>6, <4>2, StepsWiden DEF Near, Above
                <5> QED BY <5>1, StepsTransitive
            <4>4. Pass(g, id.z)
                BY <4>2, <4>3, PassGoesOn
            <4>5. id \in g.retain /\ ~HasRenderable(g, id)
                BY <3>5, <4>2, GrowsKeeps DEF Steps, Grows
            <4>6. Done(g, id) /\ Fresh(frame, g, id)
                BY <4>2, <4>5 DEF Done, Fresh
            <4> QED BY <4>3, <4>4, <4>6
        <3> QED BY <3>7, <3>8
    <2> QED BY <2>2, <2>3
<1> QED BY <1>5, <1>6

LEMMA NearPlaces ==
    ASSUME NEW id \in ID, id.z >= MinZoom, NEW q \in Near(id)
    PROVE  Len(q.p) # Depth(id.z) \/ Unwrapped(q) = Unwrapped(id)
<1>1. /\ id.z \in Nat /\ MinZoom \in Nat /\ MaxZoom \in Nat /\ id.p \in Seq(Branches) /\ Len(id.p) = Depth(id.z)
    BY IdFacts, Zooms
<1>2. CASE q \in Parents(id)
    <2>1. PICK z \in MinZoom..(id.z - 1) : q = ScaledTo(id, z)
        BY <1>2 DEF Parents
    <2>2. z \in Nat /\ z < id.z
        BY <1>1
    <2>3. q \in ID /\ q.z = z /\ q.w = id.w /\ (z >= Len(id.p) => q.p = id.p)
        <3>1. z =< id.z
            BY <1>1, <2>2
        <3> QED BY <2>1, <2>2, <3>1, ScaledToFacts
    <2>4. Len(q.p) = Depth(z)
        BY <2>3, IdFacts
    <2>5. CASE z >= Len(id.p)
        BY <2>3, <2>5 DEF Unwrapped
    <2>6. CASE z < Len(id.p)
        BY <1>1, <2>2, <2>4, <2>6 DEF Depth
    <2>7. Len(id.p) \in Nat
        BY <1>1
    <2> QED BY <2>2, <2>5, <2>6, <2>7
<1>3. CASE q \in Children(id)
    <2>1. CASE id.z >= MaxZoom
        BY <1>3, <2>1, ChildrenPlaces
    <2>2. CASE id.z < MaxZoom
        <3>1. q \in ID /\ q.z = id.z + 1
            BY <1>3, ChildrenFacts, ChildrenPlaces
        <3>2. Len(q.p) = Depth(id.z + 1)
            BY <3>1, IdFacts
        <3> QED BY <1>1, <2>2, <3>2 DEF Depth
    <2> QED BY <1>1, <2>1, <2>2
<1> QED BY <1>2, <1>3 DEF Near, Above

(* The tiles of the source at a zoom. *)
IdsAt(zoom) == {id \in ID : id.z = zoom /\ id.z >= MinZoom}

(* The frames of a pass, one for each ideal tile. *)
PassOver(d, base, ids) ==
    /\ d[0] = base /\ d[Len(ids)] = FoldLeft(UpdateIdeal, base, ids)
    /\ \A k \in 1..Len(ids) : d[k] = UpdateIdeal(d[k - 1], ids[k])

LEMMA UpdatedFold ==
    ASSUME NEW zoom, NEW ids \in Seq(IdsAt(zoom)),
           NEW base, Pass(base, zoom)
    PROVE  \E d : PassOver(d, base, ids)
<1> DEFINE V == {f \in Frames : Pass(f, zoom)}
           X == IdsAt(zoom)
           step == [x \in V \X X |-> UpdateIdeal(x[1], x[2])]
           Solution(f) == f = [t \in SUBSET (DOMAIN ids) |->
                                 IF t = {} THEN base ELSE UpdateIdeal(f[t \ {Max(t)}], ids[Max(t)])]
           c == CHOOSE f : Solution(f)
<1>1. step \in [V \X X -> V]
    <2> SUFFICES ASSUME NEW f \in V, NEW id \in X PROVE UpdateIdeal(f, id) \in V
        OBVIOUS
    <2>1. Pass(UpdateIdeal(f, id), zoom)
        BY UpdateIdealOK DEF IdsAt
    <2> QED BY <2>1 DEF Pass, FrameOK
<1>2. PICK f : SolvesLeft(f, V, X, ids, base, step)
    <2>1. base \in V
        BY DEF Pass, FrameOK
    <2> HIDE DEF step, V
    <2> QED BY <1>1, <2>1, FoldLeftSolved
<1>3. \A t \in SUBSET (DOMAIN ids) : t # {} =>
        step[<<f[t \ {Max(t)}], ids[Max(t)]>>] = UpdateIdeal(f[t \ {Max(t)}], ids[Max(t)])
    <2> HIDE DEF V, X
    <2> QED BY <1>2 DEF SolvesLeft
<1> HIDE DEF V, X
<1>4. Solution(f)
    <2> HIDE DEF step
    <2> QED BY <1>2, <1>3 DEF SolvesLeft
<1>5. Solution(c)
    BY <1>4, Zenon
<1>6. FoldLeft(UpdateIdeal, base, ids) = c[DOMAIN ids]
    BY Zenon DEF FoldLeft, MapThenFoldSet
<1> HIDE DEF c
<1>7. \A t \in SUBSET (DOMAIN ids) : c[t] = IF t = {} THEN base ELSE UpdateIdeal(c[t \ {Max(t)}], ids[Max(t)])
    BY <1>5
<1> DEFINE d == [k \in 0..Len(ids) |-> c[1..k]]
<1>8. Len(ids) \in Nat /\ DOMAIN ids = 1..Len(ids)
    OBVIOUS
<1>9. \A k \in 1..Len(ids) : d[k] = UpdateIdeal(d[k - 1], ids[k])
    <2> TAKE k \in 1..Len(ids)
    <2>1. 1..k \in SUBSET (DOMAIN ids) /\ k - 1 \in 0..Len(ids) /\ k \in 0..Len(ids) /\ 1..k # {}
          /\ Max(1..k) = k /\ (1..k) \ {k} = 1..(k - 1)
        BY <1>8, Segments
    <2>2. c[1..k] = UpdateIdeal(c[1..(k - 1)], ids[k])
        BY <1>7, <2>1
    <2> QED BY <2>1, <2>2
<1>10. d[0] = base /\ d[Len(ids)] = c[DOMAIN ids]
    <2>1. c[{}] = base
        BY <1>7
    <2>2. 0 \in 0..Len(ids) /\ Len(ids) \in 0..Len(ids)
        BY <1>8
    <2> QED BY <1>8, <2>1, <2>2, Segments
<1>11. PassOver(d, base, ids)
    <2> HIDE DEF d
    <2> QED BY <1>6, <1>9, <1>10 DEF PassOver
<1> QED BY <1>11

(* What the pass has brought about after "k" of the ideal tiles. *)
Exact(f, id) ==
    id.p \notin OutOfBounds /\ f.draws /\ HasRenderable(f, id) => Taken(f, id) /\ f.shown[Unwrapped(id)] = id

Apart(ids) == \A i, j \in DOMAIN ids : i # j => Unwrapped(ids[i]) # Unwrapped(ids[j])

Covers(base, f, zoom, ids, k) ==
    /\ Pass(f, zoom) /\ f.draws = base.draws /\ Kept(base.tiles, f.tiles) /\ base.retain \subseteq f.retain
    /\ \A u \in DOMAIN f.shown :
         base.draws /\ (Len(u.p) # Depth(zoom) \/ \E i \in 1..k : u = Unwrapped(ids[i]))
    /\ \A i \in 1..k : Done(f, ids[i]) /\ Exact(f, ids[i])

LEMMA CoversNext ==
    ASSUME NEW base, NEW f, NEW zoom,
           NEW ids \in Seq(IdsAt(zoom)), Apart(ids),
           NEW k \in 1..Len(ids), Covers(base, f, zoom, ids, k - 1)
    PROVE  Covers(base, UpdateIdeal(f, ids[k]), zoom, ids, k)
<1> DEFINE id == ids[k]
           g == UpdateIdeal(f, id)
<1>1. /\ id \in ID /\ id.z = zoom /\ id.z >= MinZoom /\ Len(ids) \in Nat /\ DOMAIN ids = 1..Len(ids)
      /\ Pass(f, zoom) /\ FrameOK(f) /\ \A i \in 1..Len(ids) : ids[i].z = zoom
    BY DEF Covers, Pass, IdsAt
<1> SUFFICES Covers(base, g, zoom, ids, k)
    OBVIOUS
<1>2. /\ Pass(g, zoom) /\ Steps(f, g, Near(id), Parents(id)) /\ Done(g, id) /\ Fresh(f, g, id)
    BY <1>1, UpdateIdealOK
<1> HIDE DEF g
<1>3. Grows(f, g)
    BY <1>2 DEF Steps
<1>4. /\ \A q : Taken(f, q) => Taken(g, q)
      /\ \A q \in DOMAIN f.tiles : HasRenderable(g, q) <=> HasRenderable(f, q)
    BY <1>1, <1>3, GrowsKeeps
<1>5. \A i \in 1..k : i = k \/ i \in 1..(k - 1)
    BY <1>1
<1>6. /\ g.draws = base.draws /\ Kept(base.tiles, g.tiles) /\ base.retain \subseteq g.retain
    BY <1>3 DEF Covers, Grows, Kept
<1>7. ASSUME NEW u \in DOMAIN g.shown
      PROVE  base.draws /\ (Len(u.p) # Depth(zoom) \/ \E i \in 1..k : u = Unwrapped(ids[i]))
    <2>1. CASE u \in DOMAIN f.shown
        <3>1. base.draws /\ (Len(u.p) # Depth(zoom) \/ \E i \in 1..(k - 1) : u = Unwrapped(ids[i]))
            BY <2>1 DEF Covers
        <3>2. \A i \in 1..(k - 1) : i \in 1..k
            BY <1>1
        <3> QED BY <3>1, <3>2
    <2>2. CASE u \notin DOMAIN f.shown
        <3>1. f.draws /\ g.shown[u] \in Near(id)
            BY <1>2, <2>2 DEF Steps
        <3>2. g.shown[u] \in ID /\ Unwrapped(g.shown[u]) = u
            BY <1>2, FrameFacts DEF Pass
        <3>3. Len(g.shown[u].p) # Depth(zoom) \/ u = Unwrapped(id)
            BY <1>1, <3>1, <3>2, NearPlaces
        <3>4. u.p = g.shown[u].p
            BY <3>2, IdFacts
        <3>5. f.draws = base.draws /\ k \in 1..k
            BY <1>1 DEF Covers
        <3> QED BY <3>1, <3>3, <3>4, <3>5
    <2> QED BY <2>1, <2>2
<1>8. ASSUME NEW i \in 1..(k - 1) PROVE Done(g, ids[i]) /\ Exact(g, ids[i])
    <2>1. Done(f, ids[i]) /\ Exact(f, ids[i])
        BY DEF Covers
    <2>2. Done(g, ids[i])
        BY <1>1, <1>3, <2>1, DoneStays
    <2>3. Exact(g, ids[i])
        <3> SUFFICES ASSUME ids[i].p \notin OutOfBounds, g.draws, HasRenderable(g, ids[i])
                     PROVE  Taken(g, ids[i]) /\ g.shown[Unwrapped(ids[i])] = ids[i]
            BY DEF Exact
        <3>1. ids[i] \in DOMAIN f.tiles /\ f.draws
            BY <1>1, <1>3, <2>1 DEF Done, FrameOK, Grows
        <3>2. Taken(f, ids[i]) /\ f.shown[Unwrapped(ids[i])] = ids[i]
            BY <1>4, <2>1, <3>1 DEF Exact
        <3> QED BY <1>3, <1>4, <3>2 DEF Grows, Taken
    <2> QED BY <2>2, <2>3
<1>9. Exact(g, id)
    <2> SUFFICES ASSUME id.p \notin OutOfBounds, g.draws, HasRenderable(g, id)
                 PROVE  Taken(g, id) /\ g.shown[Unwrapped(id)] = id
        BY DEF Exact
    <2>1. Taken(g, id)
        BY <1>2 DEF Done
    <2>2. ~Taken(f, id)
        <3>1. Unwrapped(id).p = id.p /\ Len(id.p) = Depth(zoom)
            BY <1>1, IdFacts
        <3>2. \A i \in 1..(k - 1) : Unwrapped(id) # Unwrapped(ids[i])
            BY <1>1 DEF Apart
        <3> HIDE DEF id
        <3> QED BY <3>1, <3>2 DEF Taken, Covers
    <2> QED BY <1>2, <2>1, <2>2 DEF Fresh
<1> QED BY <1>2, <1>5, <1>6, <1>7, <1>8, <1>9 DEF Covers

LEMMA UpdatedOK ==
    ASSUME NEW frame, FrameOK(frame), DOMAIN frame.shown = {}, NEW zoom,
           NEW ids \in Seq(IdsAt(zoom)), Apart(ids),
           NEW draws \in BOOLEAN
    PROVE  LET g == Updated(frame, ids, draws)
           IN /\ Pass(g, zoom) /\ g.draws = draws /\ Kept(frame.tiles, g.tiles)
              /\ ~draws => DOMAIN g.shown = {}
              /\ \A i \in DOMAIN ids : Done(g, ids[i]) /\ Exact(g, ids[i])
<1> DEFINE base == [frame EXCEPT !.checked = {}, !.draws = draws]
           n == Len(ids)
<1>1. /\ base \in Frames /\ base.tiles = frame.tiles /\ base.cache = frame.cache /\ base.shown = frame.shown
      /\ base.retain = frame.retain /\ base.checked = {} /\ base.draws = draws
    BY DEF FrameOK, Frames
<1> HIDE DEF base
<1>2. Pass(base, zoom)
    BY <1>1 DEF Pass, FrameOK, CheckedOK
<1>3. n \in Nat /\ DOMAIN ids = 1..n
    OBVIOUS
<1>4. Covers(base, base, zoom, ids, 0)
    BY <1>1, <1>2 DEF Covers, Kept
<1>5. PICK d : PassOver(d, base, ids)
    BY <1>2, UpdatedFold
<1> DEFINE after == [k \in 0..n |-> {f \in Frames : Covers(base, f, zoom, ids, k)}]
<1>6. d[0] \in after[0]
    BY <1>1, <1>3, <1>4, <1>5 DEF PassOver
<1>7. \A k \in 1..n : d[k - 1] \in after[k - 1] => d[k] \in after[k]
    <2> SUFFICES ASSUME NEW k \in 1..n, Covers(base, d[k - 1], zoom, ids, k - 1) PROVE d[k] \in after[k]
        <3>1. \A k \in 1..n : k - 1 \in 0..n
            BY <1>3
        <3> HIDE DEF n
        <3> QED BY <3>1
    <2>1. d[k] = UpdateIdeal(d[k - 1], ids[k])
        BY <1>5 DEF PassOver
    <2>2. Covers(base, d[k], zoom, ids, k)
        BY <2>1, CoversNext
    <2>3. k \in 0..n /\ d[k] \in Frames
        BY <1>3, <2>2 DEF Covers, Pass, FrameOK
    <2> QED BY <2>2, <2>3
<1> HIDE DEF after, n
<1>8. d[n] \in after[n]
    BY <1>3, <1>6, <1>7, SegmentsKeep
<1>9. Covers(base, Updated(frame, ids, draws), zoom, ids, n)
    BY <1>3, <1>5, <1>8 DEF after, Updated, base, PassOver
<1> QED BY <1>1, <1>3, <1>9 DEF Covers

----------------------------------------------------------------------------
(* The ideal tiles of a camera. *)
Leaves == [w : Int, p : [1..MaxZoom -> Branches]]
Roots(z) == {a \in UnwrappedID : Len(a.p) = z}

LEMMA AncestorFacts ==
    ASSUME NEW leaf \in Leaves, NEW z \in 0..MaxZoom
    PROVE  Ancestor(leaf, z) \in Roots(z)
<1>1. MaxZoom \in Nat
    BY Zooms
<1>2. leaf.w \in Int /\ leaf.p \in [1..MaxZoom -> Branches]
    BY DEF Leaves
<1>3. leaf.p \in Seq(Branches) /\ Len(leaf.p) = MaxZoom
    BY <1>1, <1>2
<1>4. SubSeq(leaf.p, 1, z) \in Seq(Branches) /\ Len(SubSeq(leaf.p, 1, z)) = z
    BY <1>1, <1>3
<1> QED BY <1>2, <1>4 DEF Ancestor, Roots, UnwrappedID

Distinct(s) == \A i, j \in DOMAIN s : i # j => s[i] # s[j]

LEMMA AppendDistinct ==
    ASSUME NEW S, NEW s \in Seq(S), Distinct(s), NEW x \in S, x \notin ToSet(s)
    PROVE  Append(s, x) \in Seq(S) /\ Distinct(Append(s, x))
<1>1. /\ Append(s, x) \in Seq(S) /\ Len(s) \in Nat /\ DOMAIN s = 1..Len(s)
      /\ DOMAIN Append(s, x) = 1..(Len(s) + 1)
      /\ \A i \in 1..(Len(s) + 1) : Append(s, x)[i] = IF i = Len(s) + 1 THEN x ELSE s[i]
    OBVIOUS
<1>2. \A i \in 1..Len(s) : s[i] # x
    BY <1>1, ToSetFacts DEF In
<1>3. \A i \in 1..(Len(s) + 1) : i = Len(s) + 1 \/ i \in 1..Len(s)
    BY <1>1
<1>4. Distinct(Append(s, x))
    BY <1>1, <1>2, <1>3 DEF Distinct
<1> QED BY <1>1, <1>4

LEMMA CoverFacts ==
    ASSUME NEW v, ViewOK(v), NEW z \in 0..MaxZoom
    PROVE  Cover(v, z) \in Seq(Roots(z)) /\ Distinct(Cover(v, z))
<1> DEFINE s == v.leaves
           A == Roots(z)
           V == Seq(A)
           Next1(cover, leaf) == IF Ancestor(leaf, z) \in ToSet(cover) THEN cover
                                 ELSE Append(cover, Ancestor(leaf, z))
           step == [x \in V \X Leaves |-> Next1(x[1], x[2])]
           Solution(f) == f = [t \in SUBSET (DOMAIN s) |->
                                 IF t = {} THEN <<>>
                                 ELSE IF Ancestor(s[Max(t)], z) \in ToSet(f[t \ {Max(t)}]) THEN f[t \ {Max(t)}]
                                      ELSE Append(f[t \ {Max(t)}], Ancestor(s[Max(t)], z))]
           c == CHOOSE f : Solution(f)
<1>0. s \in Seq(Leaves) /\ Len(s) \in Nat /\ DOMAIN s = 1..Len(s) /\ \A i \in 1..Len(s) : s[i] \in Leaves
    <2>1. s \in Seq(Leaves)
        BY DEF ViewOK, Leaves
    <2> HIDE DEF s
    <2> QED BY <2>1
<1> HIDE DEF s
<1>1. step \in [V \X Leaves -> V]
    <2> SUFFICES ASSUME NEW cover \in V, NEW leaf \in Leaves PROVE Next1(cover, leaf) \in V
        OBVIOUS
    <2> QED BY AncestorFacts
<1>2. PICK f : SolvesLeft(f, V, Leaves, s, <<>>, step)
    <2>1. <<>> \in V
        OBVIOUS
    <2> HIDE DEF step, V
    <2> QED BY <1>0, <1>1, <2>1, FoldLeftSolved
<1>3. \A t \in SUBSET (DOMAIN s) : t # {} =>
        step[<<f[t \ {Max(t)}], s[Max(t)]>>] = Next1(f[t \ {Max(t)}], s[Max(t)])
    <2> HIDE DEF V, Next1
    <2> QED BY <1>2 DEF SolvesLeft
<1>4. Solution(f)
    <2> HIDE DEF step, V
    <2> QED BY <1>2, <1>3 DEF SolvesLeft
<1>5. Solution(c)
    BY <1>4, Zenon
<1>6. Cover(v, z) = c[DOMAIN s]
    BY Zenon DEF Cover, FoldLeft, MapThenFoldSet, s
<1> HIDE DEF c
<1>7. \A t \in SUBSET (DOMAIN s) :
        c[t] = IF t = {} THEN <<>> ELSE Next1(c[t \ {Max(t)}], s[Max(t)])
    BY <1>5
<1> HIDE DEF Next1
<1> DEFINE d == [k \in 0..Len(s) |-> c[1..k]]
<1>8. \A k \in 1..Len(s) : d[k] = Next1(d[k - 1], s[k])
    <2> TAKE k \in 1..Len(s)
    <2>1. 1..k \in SUBSET (DOMAIN s) /\ k - 1 \in 0..Len(s) /\ k \in 0..Len(s) /\ 1..k # {}
          /\ Max(1..k) = k /\ (1..k) \ {k} = 1..(k - 1)
        BY <1>0, Segments
    <2>2. c[1..k] = Next1(c[1..(k - 1)], s[k])
        BY <1>7, <2>1
    <2> QED BY <2>1, <2>2
<1>9. d[0] = <<>> /\ d[Len(s)] = c[DOMAIN s]
    <2>1. c[{}] = <<>>
        BY <1>7
    <2>2. 0 \in 0..Len(s) /\ Len(s) \in 0..Len(s)
        BY <1>0
    <2> QED BY <1>0, <2>1, <2>2, Segments
<1> DEFINE after == [k \in 0..Len(s) |-> {cover \in V : Distinct(cover)}]
<1> HIDE DEF d
<1>10. d[0] \in after[0]
    <2>1. <<>> \in V /\ Distinct(<<>>)
        BY DEF Distinct
    <2> QED BY <1>0, <1>9, <2>1
<1>11. \A k \in 1..Len(s) : d[k - 1] \in after[k - 1] => d[k] \in after[k]
    <2>1. \A k \in 1..Len(s) : k \in 0..Len(s) /\ k - 1 \in 0..Len(s)
        BY <1>0
    <2> SUFFICES ASSUME NEW k \in 1..Len(s), d[k - 1] \in V, Distinct(d[k - 1])
                 PROVE  d[k] \in V /\ Distinct(d[k])
        BY <2>1
    <2>2. Ancestor(s[k], z) \in A
        BY <1>0, AncestorFacts
    <2> DEFINE cover == d[k - 1]
               a == Ancestor(s[k], z)
    <2>3. d[k] = IF a \in ToSet(cover) THEN cover ELSE Append(cover, a)
        BY <1>8 DEF Next1
    <2> HIDE DEF cover, a, A
    <2>4. a \notin ToSet(cover) => Append(cover, a) \in V /\ Distinct(Append(cover, a))
        BY <2>2, AppendDistinct DEF cover, a
    <2> QED BY <2>3, <2>4 DEF cover
<1> HIDE DEF after
<1>12. d[Len(s)] \in after[Len(s)]
    BY <1>0, <1>10, <1>11, SegmentsKeep
<1>13. d[Len(s)] \in V /\ Distinct(d[Len(s)])
    BY <1>0, <1>12 DEF after
<1> QED BY <1>6, <1>9, <1>13

(* The places of a cover at a zoom. *)
Placed(cover, zoom) == [i \in DOMAIN cover |-> Id(zoom, cover[i].w, cover[i].p)]

LEMMA PlacedFacts ==
    ASSUME NEW zoom \in Nat, zoom >= MinZoom, NEW cover \in Seq(Roots(Depth(zoom))), Distinct(cover)
    PROVE  Placed(cover, zoom) \in Seq(IdsAt(zoom)) /\ Apart(Placed(cover, zoom))
<1> DEFINE ids == Placed(cover, zoom)
<1>1. /\ Len(cover) \in Nat /\ DOMAIN cover = 1..Len(cover)
      /\ \A i \in 1..Len(cover) : cover[i] \in Roots(Depth(zoom))
    OBVIOUS
<1>2. \A i \in 1..Len(cover) : /\ Id(zoom, cover[i].w, cover[i].p) \in IdsAt(zoom)
                               /\ Unwrapped(Id(zoom, cover[i].w, cover[i].p)) = cover[i]
    <2> TAKE i \in 1..Len(cover)
    <2> DEFINE a == cover[i]
    <2>1. a.w \in Int /\ a.p \in Seq(Branches) /\ Len(a.p) = Depth(zoom) /\ a = [w |-> a.w, p |-> a.p]
        BY <1>1 DEF Roots, UnwrappedID
    <2> HIDE DEF a
    <2>2. Id(zoom, a.w, a.p) \in ID /\ Id(zoom, a.w, a.p).z = zoom /\ Id(zoom, a.w, a.p).w = a.w
          /\ Id(zoom, a.w, a.p).p = a.p
        BY <2>1, IdMade
    <2>3. Unwrapped(Id(zoom, a.w, a.p)) = a
        BY <2>1, <2>2 DEF Unwrapped
    <2> QED BY <2>2, <2>3 DEF IdsAt, a
<1>3. ids \in Seq(IdsAt(zoom)) /\ DOMAIN ids = 1..Len(cover)
      /\ \A i \in 1..Len(cover) : ids[i] = Id(zoom, cover[i].w, cover[i].p)
    BY <1>1, <1>2 DEF Placed
<1> HIDE DEF ids
<1>4. Apart(ids)
    BY <1>1, <1>2, <1>3 DEF Apart, Distinct
<1> QED BY <1>3, <1>4 DEF ids

LEMMA MinOfTwo ==
    ASSUME NEW a \in Nat, NEW b \in Nat
    PROVE  Min({a, b}) = IF a =< b THEN a ELSE b
<1>1. Min({a, b}) \in {a, b} /\ \A y \in {a, b} : Min({a, b}) =< y
    BY LeastNatural
<1> QED BY <1>1

LEMMA MaxOfTwo ==
    ASSUME NEW a \in Int, NEW b \in Int
    PROVE  Max({a, b}) = IF a >= b THEN a ELSE b
<1> DEFINE m == IF a >= b THEN a ELSE b
<1>1. \A x : (x \in {a, b} /\ \A y \in {a, b} : x >= y) <=> x = m
    OBVIOUS
<1> QED BY <1>1 DEF Max

LEMMA IdealFacts ==
    ASSUME NEW v, ViewOK(v)
    PROVE  /\ IdealIds(v) \in Seq(IdsAt(v.zoom)) /\ Apart(IdealIds(v))
           /\ \E zoom \in Nat : PrefetchIds(v) \in Seq(IdsAt(zoom)) /\ Apart(PrefetchIds(v))
<1>1. v.zoom \in Nat /\ MinZoom \in Nat /\ MaxZoom \in Nat
    BY Zooms DEF ViewOK
<1>2. IdealZoom(v) = Depth(v.zoom) /\ Depth(v.zoom) \in 0..MaxZoom
    BY <1>1, MinOfTwo DEF IdealZoom, Depth
<1>3. \A zoom : <<>> \in Seq(IdsAt(zoom)) /\ Apart(<<>>)
    BY DEF Apart
<1>4. IdealIds(v) \in Seq(IdsAt(v.zoom)) /\ Apart(IdealIds(v))
    <2>1. CASE v.zoom < MinZoom
        BY <1>3, <2>1 DEF IdealIds
    <2>2. CASE ~(v.zoom < MinZoom)
        <3> DEFINE cover == Cover(v, IdealZoom(v))
        <3>1. cover \in Seq(Roots(Depth(v.zoom))) /\ Distinct(cover)
            BY <1>2, CoverFacts
        <3>2. IdealIds(v) = Placed(cover, v.zoom)
            BY <2>2 DEF IdealIds, Placed
        <3>3. v.zoom >= MinZoom
            BY <1>1, <2>2
        <3> HIDE DEF cover
        <3> QED BY <1>1, <3>1, <3>2, <3>3, PlacedFacts
    <2> QED BY <2>1, <2>2
<1>5. \E zoom \in Nat : PrefetchIds(v) \in Seq(IdsAt(zoom)) /\ Apart(PrefetchIds(v))
    <2>1. CASE v.zoom < MinZoom \/ PanZoom(v) >= IdealZoom(v)
        BY <1>1, <1>3, <2>1 DEF PrefetchIds
    <2>2. CASE ~(v.zoom < MinZoom \/ PanZoom(v) >= IdealZoom(v))
        <3>1. PanZoom(v) \in Nat /\ PanZoom(v) >= MinZoom
            <4>1. PrefetchDelta \in Nat /\ MinZoom =< MaxZoom
                BY TilePyramidAssumption
            <4>2. CASE PrefetchDelta = 0
                BY <1>1, <4>1, <4>2 DEF PanZoom
            <4>3. CASE PrefetchDelta # 0
                <5> DEFINE less == v.zoom - Min({PrefetchDelta, v.zoom})
                <5>1. less \in Int
                    BY <1>1, <4>1, MinOfTwo
                <5> HIDE DEF less
                <5>2. Max({less, MinZoom}) = IF less >= MinZoom THEN less ELSE MinZoom
                    BY <1>1, <5>1, MaxOfTwo
                <5> QED BY <1>1, <4>3, <5>1, <5>2 DEF PanZoom, less
            <4> QED BY <4>2, <4>3
        <3>2. PanZoom(v) < IdealZoom(v)
            BY <1>1, <1>2, <2>2, <3>1
        <3>3. Depth(PanZoom(v)) = PanZoom(v) /\ PanZoom(v) \in 0..MaxZoom
            BY <1>1, <1>2, <3>1, <3>2 DEF Depth
        <3> DEFINE cover == Cover(v, PanZoom(v))
        <3>4. cover \in Seq(Roots(Depth(PanZoom(v)))) /\ Distinct(cover)
            BY <3>3, CoverFacts
        <3>5. PrefetchIds(v) = Placed(cover, PanZoom(v))
            BY <2>2 DEF PrefetchIds, Placed
        <3> HIDE DEF cover
        <3> QED BY <3>1, <3>4, <3>5, PlacedFacts
    <2> QED BY <2>1, <2>2
<1> QED BY <1>4, <1>5

----------------------------------------------------------------------------
(* The tiles move to another copy of the world. *)
LEMMA MovedFacts ==
    ASSUME NEW id \in ID, NEW by \in Int
    PROVE  /\ Moved(id, by) \in ID /\ Moved(Moved(id, by), 0 - by) = id
           /\ Unwrapped(Moved(id, by)) = Moved(Unwrapped(id), by)
<1>1. id \in [z : Nat, w : Int, p : Seq(Branches)] /\ Len(id.p) = Depth(id.z)
    BY DEF ID
<1> DEFINE j == Moved(id, by)
<1>2. /\ j \in [z : Nat, w : Int, p : Seq(Branches)] /\ j.z = id.z /\ j.p = id.p /\ j.w = id.w + by
    BY <1>1 DEF Moved
<1> HIDE DEF j
<1>3. j \in ID
    BY <1>1, <1>2 DEF ID
<1> DEFINE k == Moved(j, 0 - by)
<1>4. /\ k \in [z : Nat, w : Int, p : Seq(Branches)] /\ k.z = j.z /\ k.p = j.p /\ k.w = j.w + (0 - by)
    BY <1>2 DEF Moved
<1> HIDE DEF k
<1>5. k = id
    <2>1. k.w = id.w
        BY <1>1, <1>2, <1>4
    <2> QED BY <1>1, <1>2, <1>4, <2>1
<1>6. Unwrapped(j) = Moved(Unwrapped(id), by)
    BY <1>2 DEF Unwrapped, Moved
<1> QED BY <1>3, <1>5, <1>6 DEF j, k

LEMMA PlaceMoved ==
    ASSUME NEW u \in UnwrappedID, NEW by \in Int
    PROVE  Moved(u, by) \in UnwrappedID /\ Moved(Moved(u, by), 0 - by) = u
<1> DEFINE t == Moved(u, by)
<1>1. t \in [w : Int, p : Seq(Branches)] /\ t.p = u.p /\ t.w = u.w + by
    BY DEF Moved, UnwrappedID
<1> HIDE DEF t
<1> DEFINE k == Moved(t, 0 - by)
<1>2. k \in [w : Int, p : Seq(Branches)] /\ k.p = t.p /\ k.w = t.w + (0 - by)
    BY <1>1 DEF Moved
<1> HIDE DEF k
<1>3. k.w = u.w
    BY <1>1, <1>2 DEF UnwrappedID
<1>4. k = u
    BY <1>1, <1>2, <1>3 DEF UnwrappedID
<1> QED BY <1>1, <1>4 DEF t, k, UnwrappedID

LEMMA WrapFacts ==
    ASSUME NEW map \in TileMaps, NEW by \in Int
    PROVE  /\ WrapJumped(map, by) \in TileMaps
           /\ DOMAIN WrapJumped(map, by) = {Moved(j, by) : j \in DOMAIN map}
           /\ \A j \in DOMAIN map : WrapJumped(map, by)[Moved(j, by)] = map[j]
<1> DEFINE D == {Moved(j, by) : j \in DOMAIN map}
           new == [id \in D |-> map[Moved(id, 0 - by)]]
<1>1. DOMAIN map \subseteq ID /\ IsFiniteSet(DOMAIN map) /\ \A j \in DOMAIN map : map[j] \in Tile
    BY TileMapFacts
<1>2. \A j \in DOMAIN map : Moved(j, by) \in ID /\ Moved(Moved(j, by), 0 - by) = j
    BY <1>1, MovedFacts
<1>3. D \subseteq ID
    BY <1>2
<1>4. IsFiniteSet(D)
    <2> DEFINE F(j) == Moved(j, by)
    <2>1. PICK f : f = [j \in DOMAIN map |-> F(j)]
        OBVIOUS
    <2>2. f \in Surjection(DOMAIN map, D)
        BY <2>1 DEF Surjection
    <2> QED BY <1>1, <2>2, FS_Surjection
<1>5. DOMAIN new = D /\ new = [id \in DOMAIN new |-> new[id]]
    OBVIOUS
<1>6. \A j \in DOMAIN map : new[Moved(j, by)] = map[j]
    BY <1>2
<1>7. \A id \in D : new[id] \in Tile
    BY <1>1, <1>6
<1> HIDE DEF new, D
<1>8. new \in TileMaps
    BY <1>3, <1>4, <1>5, <1>7, TileMapFacts
<1> QED BY <1>5, <1>6, <1>8 DEF new, D, WrapJumped

(* What has been drawn moves with them. *)
LEMMA DrawnMoved ==
    ASSUME NEW map \in TileMaps, NEW drawn, ShownOK(drawn, map), NEW by \in Int
    PROVE  ShownOK([u \in {Moved(t, by) : t \in DOMAIN drawn} |-> Moved(drawn[Moved(u, 0 - by)], by)],
                   WrapJumped(map, by))
<1> DEFINE D == {Moved(t, by) : t \in DOMAIN drawn}
           new == [u \in D |-> Moved(drawn[Moved(u, 0 - by)], by)]
           moved == WrapJumped(map, by)
<1>1. /\ DOMAIN drawn \subseteq UnwrappedID
      /\ \A u \in DOMAIN drawn : /\ drawn[u] \in ID /\ drawn[u] \in DOMAIN map /\ IsRenderable(map[drawn[u]])
                                 /\ Unwrapped(drawn[u]) = u
    BY ShownMapFacts DEF ShownOK
<1>2. /\ DOMAIN moved = {Moved(j, by) : j \in DOMAIN map}
      /\ \A j \in DOMAIN map : moved[Moved(j, by)] = map[j]
    BY WrapFacts
<1> HIDE DEF moved
<1>3. DOMAIN new = D /\ new = [u \in DOMAIN new |-> new[u]]
    OBVIOUS
<1>4. ASSUME NEW t \in DOMAIN drawn
      PROVE  /\ Moved(t, by) \in UnwrappedID /\ new[Moved(t, by)] \in ID
             /\ new[Moved(t, by)] \in DOMAIN moved /\ IsRenderable(moved[new[Moved(t, by)]])
             /\ Unwrapped(new[Moved(t, by)]) = Moved(t, by)
    <2>1. Moved(t, by) \in D /\ Moved(t, by) \in UnwrappedID /\ Moved(Moved(t, by), 0 - by) = t
        BY <1>1, PlaceMoved
    <2>2. new[Moved(t, by)] = Moved(drawn[t], by)
        BY <2>1
    <2>3. /\ Moved(drawn[t], by) \in ID
          /\ Unwrapped(Moved(drawn[t], by)) = Moved(Unwrapped(drawn[t]), by)
        BY <1>1, MovedFacts
    <2> HIDE DEF new
    <2> QED BY <1>1, <1>2, <2>1, <2>2, <2>3
<1>5. \A u \in D : /\ u \in UnwrappedID /\ new[u] \in ID /\ new[u] \in DOMAIN moved
                   /\ IsRenderable(moved[new[u]]) /\ Unwrapped(new[u]) = u
    <2> SUFFICES ASSUME NEW t \in DOMAIN drawn, NEW u, u = Moved(t, by)
                 PROVE  /\ u \in UnwrappedID /\ new[u] \in ID /\ new[u] \in DOMAIN moved
                        /\ IsRenderable(moved[new[u]]) /\ Unwrapped(new[u]) = u
        BY Zenon
    <2> HIDE DEF new
    <2> QED BY <1>4
<1> HIDE DEF new, D
<1>6. new \in ShownMaps
    BY <1>3, <1>5, ShownMapFacts
<1>7. ShownOK(new, moved)
    BY <1>3, <1>5, <1>6 DEF ShownOK
<1> QED BY <1>7 DEF new, D, moved

(* Tiles fade out. *)
LEMMA FadedOK ==
    ASSUME NEW f, FrameOK(f), NEW previous, ShownOK(previous, f.tiles)
    PROVE  LET g == Faded(f, previous)
           IN /\ FrameOK(g) /\ Kept(f.tiles, g.tiles) /\ Kept(g.tiles, f.tiles)
              /\ f.retain \subseteq g.retain /\ g.cache = f.cache
              /\ DOMAIN f.shown \subseteq DOMAIN g.shown
              /\ \A u \in DOMAIN f.shown : g.shown[u] = f.shown[u]
<1> DEFINE marked == {previous[u] : u \in DOMAIN previous \ DOMAIN f.shown}
           now == [id \in DOMAIN f.tiles |->
                     IF id \in marked THEN MarkRenderedPreviously(f.tiles[id]) ELSE f.tiles[id]]
           fading == {u \in DOMAIN previous \ DOMAIN f.shown : HoldForFade(now[previous[u]])}
           held == {previous[u] : u \in fading}
           map == [id \in DOMAIN now |->
                     IF id \in held \ f.retain THEN [now[id] EXCEPT !.required = FALSE] ELSE now[id]]
           drawn == [u \in DOMAIN f.shown \cup fading |-> IF u \in fading THEN previous[u] ELSE f.shown[u]]
           g == Faded(f, previous)
<1>1. /\ f \in Frames /\ f.tiles \in TileMaps /\ f.shown \in ShownMaps /\ DOMAIN f.tiles \subseteq ID
      /\ \A id \in DOMAIN f.tiles : f.tiles[id] \in Tile
      /\ f.retain \subseteq DOMAIN f.tiles /\ ShownOK(f.shown, f.tiles)
      /\ \A u \in DOMAIN f.shown : f.shown[u] \in f.retain
    BY FrameFacts DEF FrameOK
<1>2. \A id \in DOMAIN f.tiles : now[id] \in Tile /\ now[id].status = f.tiles[id].status
    <2> TAKE id \in DOMAIN f.tiles
    <2>1. /\ MarkRenderedPreviously(f.tiles[id]) \in Tile
          /\ MarkRenderedPreviously(f.tiles[id]).status = f.tiles[id].status
        <3> DEFINE fade == IF f.tiles[id].fade = "Loaded" THEN "NeedsFirstPlacement" ELSE f.tiles[id].fade
        <3>1. fade \in Fades /\ f.tiles[id] \in Tile
            BY <1>1 DEF Tile, Fades
        <3>2. MarkRenderedPreviously(f.tiles[id]) = [f.tiles[id] EXCEPT !.fade = fade]
            BY DEF MarkRenderedPreviously
        <3> HIDE DEF fade
        <3> QED BY <3>1, <3>2, FadeChanged
    <2>2. now[id] = IF id \in marked THEN MarkRenderedPreviously(f.tiles[id]) ELSE f.tiles[id]
        OBVIOUS
    <2> HIDE DEF now, marked
    <2> QED BY <1>1, <2>1, <2>2
<1>3. /\ fading \subseteq DOMAIN previous /\ fading \cap DOMAIN f.shown = {} /\ DOMAIN now = DOMAIN f.tiles
    OBVIOUS
<1> HIDE DEF now, fading
<1>4. /\ previous \in ShownMaps
      /\ \A u \in fading : /\ u \in UnwrappedID /\ previous[u] \in ID /\ previous[u] \in DOMAIN f.tiles
                           /\ IsRenderable(f.tiles[previous[u]]) /\ Unwrapped(previous[u]) = u
    BY <1>3, ShownMapFacts DEF ShownOK
<1>5. held \subseteq DOMAIN f.tiles
    BY <1>4
<1>6. /\ map = [id \in DOMAIN f.tiles |-> map[id]]
      /\ \A id \in DOMAIN f.tiles : map[id] \in Tile /\ map[id].status = f.tiles[id].status
    <2>1. \A id \in DOMAIN f.tiles : map[id] = IF id \in held \ f.retain
                                               THEN [now[id] EXCEPT !.required = FALSE] ELSE now[id]
        BY <1>3
    <2>2. map = [id \in DOMAIN f.tiles |-> map[id]]
        BY <1>3
    <2>3. \A id \in DOMAIN f.tiles : /\ [now[id] EXCEPT !.required = FALSE] \in Tile
                                     /\ [now[id] EXCEPT !.required = FALSE].status = f.tiles[id].status
        <3> TAKE id \in DOMAIN f.tiles
        <3>1. FALSE \in BOOLEAN
            OBVIOUS
        <3> QED BY <1>2, <3>1, RequiredChanged
    <2> HIDE DEF map, held
    <2> QED BY <1>2, <2>1, <2>2, <2>3
<1> HIDE DEF map
<1>7. map \in TileMaps /\ DOMAIN map = DOMAIN f.tiles
    BY <1>1, <1>6, ChangeTiles
<1>8. /\ DOMAIN drawn = DOMAIN f.shown \cup fading /\ drawn = [u \in DOMAIN drawn |-> drawn[u]]
      /\ \A u \in fading : drawn[u] = previous[u]
      /\ \A u \in DOMAIN f.shown : drawn[u] = f.shown[u]
    BY <1>3
<1> HIDE DEF drawn
<1>9. Kept(f.tiles, map) /\ Kept(map, f.tiles)
    BY <1>6, <1>7 DEF Kept
<1>10. ShownOK(drawn, map)
    <2>1. drawn \in ShownMaps
        <3>1. DOMAIN drawn \subseteq UnwrappedID /\ \A u \in DOMAIN drawn : drawn[u] \in ID
            BY <1>1, <1>4, <1>8, ShownMapFacts
        <3> QED BY <1>8, <3>1, ShownMapFacts
    <2>2. ASSUME NEW u \in DOMAIN drawn
          PROVE  drawn[u] \in DOMAIN map /\ IsRenderable(map[drawn[u]]) /\ Unwrapped(drawn[u]) = u
        <3>1. CASE u \in fading
            BY <1>4, <1>6, <1>7, <1>8, <3>1 DEF IsRenderable
        <3>2. CASE u \in DOMAIN f.shown
            BY <1>1, <1>6, <1>7, <1>8, <3>2 DEF IsRenderable, ShownOK
        <3> QED BY <1>8, <3>1, <3>2
    <2> QED BY <2>1, <2>2 DEF ShownOK
<1>11. g = [f EXCEPT !.tiles = map, !.retain = @ \cup held, !.shown = drawn]
    BY Zenon DEF Faded, map, drawn, held, fading, now
<1>12. /\ g \in Frames /\ g.tiles = map /\ g.retain = f.retain \cup held /\ g.shown = drawn
       /\ g.cache = f.cache
    <2>1. map \in TileMaps /\ f.retain \cup held \in SUBSET ID /\ drawn \in ShownMaps
        BY <1>1, <1>5, <1>7, <1>10 DEF ShownOK
    <2> HIDE DEF g, held
    <2> QED BY <1>1, <1>11, <2>1 DEF Frames
<1> SUFFICES /\ FrameOK(g) /\ Kept(f.tiles, g.tiles) /\ Kept(g.tiles, f.tiles)
             /\ f.retain \subseteq g.retain /\ g.cache = f.cache
             /\ DOMAIN f.shown \subseteq DOMAIN g.shown
             /\ \A u \in DOMAIN f.shown : g.shown[u] = f.shown[u]
    OBVIOUS
<1> HIDE DEF g
<1>13. \A u \in DOMAIN drawn : drawn[u] \in f.retain \cup held
    BY <1>1, <1>8
<1>14. f.retain \cup held \subseteq DOMAIN map
    BY <1>1, <1>5, <1>7
<1> HIDE DEF held
<1>15. FrameOK(g)
    BY <1>10, <1>12, <1>13, <1>14 DEF FrameOK
<1> QED BY <1>8, <1>9, <1>12, <1>15

----------------------------------------------------------------------------
(* What a frame leaves. *)
DrawnIn(drawn, id) == Unwrapped(id) \in DOMAIN drawn /\ drawn[Unwrapped(id)] = id

LEMMA SameTile ==
    ASSUME NEW a \in ID, NEW b \in ID, a.z = b.z, Unwrapped(a) = Unwrapped(b)
    PROVE  a = b
<1>1. a = [z |-> a.z, w |-> a.w, p |-> a.p] /\ b = [z |-> b.z, w |-> b.w, p |-> b.p]
      /\ Unwrapped(a).p = a.p /\ Unwrapped(a).w = a.w /\ Unwrapped(b).p = b.p /\ Unwrapped(b).w = b.w
    BY IdFacts
<1> QED BY <1>1

(* Whatever has taken the place of an ideal tile, or of one above or below it, shows its data. *)
LEMMA TakenByKin ==
    ASSUME NEW zoom, NEW f, Pass(f, zoom), NEW id \in IdsAt(zoom), Taken(f, id)
    PROVE  \/ \E q \in Above(id) : DrawnIn(f.shown, q)
           \/ \A child \in Children(id) : DrawnIn(f.shown, child)
<1> DEFINE u == Unwrapped(id)
           o == f.shown[u]
<1>1. /\ u \in DOMAIN f.shown /\ o \in ID /\ Unwrapped(o) = u /\ o.z \in MinZoom..(zoom + 1)
    BY FrameFacts DEF Taken, Pass
<1>2. /\ id \in ID /\ id.z = zoom /\ zoom \in Nat /\ MinZoom \in Nat /\ MaxZoom \in Nat /\ MinZoom =< zoom
      /\ id.p \in Seq(Branches) /\ Len(id.p) = Depth(zoom)
    BY IdFacts, Zooms DEF IdsAt
<1>3. o.p = id.p /\ o.w = id.w /\ Len(id.p) = Depth(o.z) /\ o.z \in Nat
    BY <1>1, <1>2, IdFacts
<1> HIDE DEF o
<1>4. DrawnIn(f.shown, o)
    BY <1>1 DEF DrawnIn, o
<1>5. CASE o.z = zoom
    <2>1. o = id
        BY <1>1, <1>2, <1>5, SameTile
    <2> QED BY <1>4, <2>1 DEF Above
<1>6. CASE o.z < zoom
    <2>1. o.z >= MaxZoom
        BY <1>2, <1>3, <1>6 DEF Depth
    <2> DEFINE q == ScaledTo(id, o.z)
    <2>2. o.z >= Len(id.p) /\ o.z =< id.z
        BY <1>2, <1>3, <1>6, <2>1 DEF Depth
    <2>3. q \in ID /\ q.z = o.z /\ q.w = id.w /\ q.p = id.p
        BY <1>2, <1>3, <2>2, ScaledToFacts
    <2>4. q \in Parents(id)
        <3>1. o.z \in MinZoom..(id.z - 1)
            BY <1>1, <1>2, <1>6
        <3> QED BY <3>1 DEF Parents
    <2> HIDE DEF q
    <2>5. o = q
        <3>1. Unwrapped(q) = u
            BY <2>3 DEF Unwrapped
        <3> QED BY <1>1, <2>3, <3>1, SameTile
    <2> QED BY <1>4, <2>4, <2>5 DEF Above
<1>7. CASE o.z = zoom + 1
    <2>1. zoom >= MaxZoom
        BY <1>2, <1>3, <1>7 DEF Depth
    <2>2. PICK child \in ID : Children(id) = {child} /\ Unwrapped(child) = u
        BY <1>2, <2>1, ChildrenPlaces
    <2>3. child.z = zoom + 1
        BY <1>2, <2>2, ChildrenPlaces
    <2>4. o = child
        BY <1>1, <1>7, <2>2, <2>3, SameTile
    <2> QED BY <1>4, <2>2, <2>4
<1> QED BY <1>1, <1>2, <1>5, <1>6, <1>7

LEMMA ParentTaken ==
    ASSUME NEW zoom, NEW f, Pass(f, zoom), NEW id \in IdsAt(zoom), NEW q \in Parents(id), Taken(f, q)
    PROVE  \/ \E parent \in Above(id) : DrawnIn(f.shown, parent)
           \/ \A child \in Children(id) : DrawnIn(f.shown, child)
<1>1. /\ id \in ID /\ id.z = zoom /\ zoom \in Nat /\ MinZoom \in Nat /\ MaxZoom \in Nat /\ MinZoom =< zoom
      /\ id.p \in Seq(Branches) /\ Len(id.p) = Depth(zoom) /\ Len(id.p) \in Nat
    BY IdFacts, Zooms DEF IdsAt
<1>2. PICK z \in MinZoom..(id.z - 1) : q = ScaledTo(id, z)
    BY DEF Parents
<1>3. z \in Nat /\ z =< id.z /\ z < zoom
    BY <1>1
<1>4. q \in ID /\ q.z = z /\ q.w = id.w /\ (z >= Len(id.p) => q.p = id.p)
    BY <1>1, <1>2, <1>3, ScaledToFacts
<1>5. CASE z >= Len(id.p)
    <2>1. Unwrapped(q) = Unwrapped(id)
        BY <1>4, <1>5 DEF Unwrapped
    <2>2. Taken(f, id)
        BY <2>1 DEF Taken
    <2> QED BY <2>2, TakenByKin
<1>6. CASE z < Len(id.p)
    <2> DEFINE o == f.shown[Unwrapped(q)]
    <2>1. Unwrapped(q) \in DOMAIN f.shown /\ o \in ID /\ Unwrapped(o) = Unwrapped(q)
        BY FrameFacts DEF Taken, Pass
    <2>2. Len(o.p) = Depth(o.z) /\ Len(q.p) = Depth(q.z) /\ o.p = q.p /\ o.z \in Nat
        BY <1>4, <2>1, IdFacts
    <2> HIDE DEF o
    <2>3. z < MaxZoom
        BY <1>1, <1>3, <1>6 DEF Depth
    <2>4. o.z = q.z
        BY <1>1, <1>3, <1>4, <2>2, <2>3 DEF Depth
    <2>5. o = q
        BY <1>4, <2>1, <2>4, SameTile
    <2> QED BY <2>1, <2>5 DEF DrawnIn, Above, o
<1> QED BY <1>1, <1>3, <1>5, <1>6

LEMMA ChildrenTaken ==
    ASSUME NEW zoom, NEW f, Pass(f, zoom), NEW id \in IdsAt(zoom),
           \A child \in Children(id) : Taken(f, child)
    PROVE  \/ \E parent \in Above(id) : DrawnIn(f.shown, parent)
           \/ \A child \in Children(id) : DrawnIn(f.shown, child)
<1>1. /\ id \in ID /\ id.z = zoom /\ zoom \in Nat /\ MinZoom \in Nat /\ MaxZoom \in Nat
    BY IdFacts, Zooms DEF IdsAt
<1>2. CASE zoom >= MaxZoom
    <2>1. PICK child \in ID : Children(id) = {child} /\ Unwrapped(child) = Unwrapped(id)
        BY <1>1, <1>2, ChildrenPlaces
    <2>2. Taken(f, id)
        BY <2>1 DEF Taken
    <2> QED BY <2>2, TakenByKin
<1>3. CASE ~(zoom >= MaxZoom)
    <2>1. ASSUME NEW child \in Children(id) PROVE DrawnIn(f.shown, child)
        <3> DEFINE o == f.shown[Unwrapped(child)]
        <3>1. child \in ID /\ child.z = zoom + 1
            BY <1>1, ChildrenFacts, ChildrenPlaces
        <3>2. /\ Unwrapped(child) \in DOMAIN f.shown /\ o \in ID /\ Unwrapped(o) = Unwrapped(child)
              /\ o.z \in MinZoom..(zoom + 1)
            BY FrameFacts DEF Taken, Pass
        <3>3. Len(o.p) = Depth(o.z) /\ Len(child.p) = Depth(zoom + 1) /\ o.p = child.p /\ o.z \in Nat
            BY <3>1, <3>2, IdFacts
        <3> HIDE DEF o
        <3>4. o.z = zoom + 1
            BY <1>1, <1>3, <3>2, <3>3 DEF Depth
        <3>5. o = child
            BY <3>1, <3>2, <3>4, SameTile
        <3> QED BY <3>2, <3>5 DEF DrawnIn, o
    <2> QED BY <2>1
<1> QED BY <1>2, <1>3

(* The pyramid "a" is what is left of the frame "f". *)
LeftOf(f, a) ==
    /\ a.tiles \in TileMaps /\ CacheOK(a.cache) /\ ShownOK(a.shown, a.tiles)
    /\ Kept(a.tiles, f.tiles) /\ f.retain \subseteq DOMAIN a.tiles
    /\ DOMAIN f.shown \subseteq DOMAIN a.shown /\ \A u \in DOMAIN f.shown : a.shown[u] = f.shown[u]

(* The frame in which the ideal tiles have been seen to. *)
Finished(f, v) ==
    /\ Pass(f, v.zoom) /\ f.draws
    /\ \A id \in ToSet(IdealIds(v)) : Done(f, id) /\ Exact(f, id)

LEMMA FramedOK ==
    ASSUME PyramidInv, NEW v \in Views, NEW relayout \in BOOLEAN
    PROVE  \E f : /\ Finished(f, v) /\ FrameOK(Framed(v, relayout))
                  /\ Kept(f.tiles, Framed(v, relayout).tiles) /\ Kept(Framed(v, relayout).tiles, f.tiles)
                  /\ f.retain \subseteq Framed(v, relayout).retain
                  /\ DOMAIN f.shown \subseteq DOMAIN Framed(v, relayout).shown
                  /\ \A u \in DOMAIN f.shown : Framed(v, relayout).shown[u] = f.shown[u]
<1> DEFINE jump == v.world - world
           start == [tiles |-> WrapJumped(tiles, jump),
                     cache |-> IF relayout THEN Cleared(cache) ELSE cache,
                     shown |-> Nothing, retain |-> {}, checked |-> {}, draws |-> FALSE]
           previous == [u \in {Moved(t, jump) : t \in DOMAIN shown} |->
                          Moved(shown[Moved(u, 0 - jump)], jump)]
           prefetched == IF PanIds(v) = <<>> THEN start ELSE Updated(start, PanIds(v), FALSE)
           f == Updated(prefetched, IdealIds(v), TRUE)
<1>1. /\ ViewOK(v) /\ jump \in Int /\ tiles \in TileMaps /\ CacheOK(cache) /\ ShownOK(shown, tiles)
    <2>1. ViewOK(v)
        BY Zooms
    <2>2. v.world \in Int /\ world \in Int
        BY <2>1 DEF ViewOK, PyramidInv
    <2> QED BY <2>1, <2>2 DEF PyramidInv
<1> HIDE DEF jump
<1>2. WrapJumped(tiles, jump) \in TileMaps /\ ShownOK(previous, WrapJumped(tiles, jump))
    BY <1>1, WrapFacts, DrawnMoved
<1>3. FrameOK(start) /\ start.tiles = WrapJumped(tiles, jump) /\ DOMAIN start.shown = {}
    <2>1. Nothing \in ShownMaps /\ DOMAIN Nothing = {}
        <3>1. DOMAIN Nothing = {} /\ Nothing = [id \in DOMAIN Nothing |-> Nothing[id]]
            BY DEF Nothing
        <3> QED BY <3>1, ShownMapFacts
    <2> HIDE DEF Nothing
    <2> DEFINE c == IF relayout THEN Cleared(cache) ELSE cache
    <2>2. CacheOK(c) /\ c \in Caches
        <3>1. CacheOK(c)
            BY <1>1, ClearedOK
        <3> QED BY <3>1 DEF CacheOK
    <2> HIDE DEF c
    <2>3. /\ start \in Frames /\ start.tiles = WrapJumped(tiles, jump) /\ start.cache = c
          /\ start.shown = Nothing /\ start.retain = {}
        <3>1. start = [tiles |-> WrapJumped(tiles, jump), cache |-> c, shown |-> Nothing,
                       retain |-> {}, checked |-> {}, draws |-> FALSE]
            BY DEF c
        <3> HIDE DEF start
        <3> QED BY <1>2, <2>1, <2>2, <3>1 DEF Frames
    <2> HIDE DEF start
    <2>4. ShownOK(start.shown, start.tiles)
        BY <2>1, <2>3 DEF ShownOK
    <2> QED BY <2>1, <2>2, <2>3, <2>4 DEF FrameOK
<1> HIDE DEF start, previous
<1>4. FrameOK(prefetched) /\ Kept(start.tiles, prefetched.tiles) /\ DOMAIN prefetched.shown = {}
    <2>1. CASE PanIds(v) = <<>>
        BY <1>3, <2>1 DEF Kept
    <2>2. CASE PanIds(v) # <<>>
        <3>1. PanIds(v) = PrefetchIds(v)
            BY <2>2 DEF PanIds
        <3>2. PICK zoom \in Nat : PrefetchIds(v) \in Seq(IdsAt(zoom)) /\ Apart(PrefetchIds(v))
            BY <1>1, IdealFacts
        <3> DEFINE g == Updated(start, PrefetchIds(v), FALSE)
        <3>3. FALSE \in BOOLEAN
            OBVIOUS
        <3>4. Pass(g, zoom) /\ Kept(start.tiles, g.tiles) /\ DOMAIN g.shown = {}
            BY <1>3, <3>2, <3>3, UpdatedOK
        <3>5. prefetched = g
            BY <2>2, <3>1
        <3> HIDE DEF g, prefetched
        <3> QED BY <3>4, <3>5 DEF Pass
    <2> QED BY <2>1, <2>2
<1> HIDE DEF prefetched
<1>5. Finished(f, v) /\ Kept(prefetched.tiles, f.tiles)
    <2>1. TRUE \in BOOLEAN
        OBVIOUS
    <2>2. IdealIds(v) \in Seq(IdsAt(v.zoom)) /\ Apart(IdealIds(v))
        BY <1>1, IdealFacts
    <2>3. /\ Pass(f, v.zoom) /\ f.draws = TRUE /\ Kept(prefetched.tiles, f.tiles)
          /\ \A i \in DOMAIN IdealIds(v) : Done(f, IdealIds(v)[i]) /\ Exact(f, IdealIds(v)[i])
        BY <1>4, <2>1, <2>2, UpdatedOK
    <2> HIDE DEF f
    <2>4. ToSet(IdealIds(v)) = {IdealIds(v)[i] : i \in DOMAIN IdealIds(v)}
        BY DEF ToSet
    <2> QED BY <2>3, <2>4 DEF Finished
<1>6. Framed(v, relayout) = Faded(f, previous)
    BY Zenon DEF Framed, f, previous, prefetched, start, jump
<1> HIDE DEF f
<1>7. ShownOK(previous, f.tiles)
    <2>1. ShownOK(previous, prefetched.tiles)
        BY <1>2, <1>3, <1>4, ShownKept
    <2> QED BY <1>5, <2>1, ShownKept
<1>8. FrameOK(f)
    BY <1>5 DEF Finished, Pass
<1> QED BY <1>5, <1>6, <1>7, <1>8, FadedOK

LEMMA AfterUpdateOK ==
    ASSUME PyramidInv, NEW v \in Views, NEW relayout \in BOOLEAN
    PROVE  \E f : Finished(f, v) /\ LeftOf(f, AfterUpdate(v, relayout))
<1> DEFINE frame == Framed(v, relayout)
           sized == Resized(frame.cache, v.cacheSize)
           stale == [id \in DOMAIN frame.tiles \ frame.retain |-> frame.tiles[id]]
           a == AfterUpdate(v, relayout)
<1>1. PICK f : /\ Finished(f, v) /\ FrameOK(frame)
               /\ Kept(f.tiles, frame.tiles) /\ Kept(frame.tiles, f.tiles)
               /\ f.retain \subseteq frame.retain
               /\ DOMAIN f.shown \subseteq DOMAIN frame.shown
               /\ \A u \in DOMAIN f.shown : frame.shown[u] = f.shown[u]
    BY FramedOK
<1>2. a = [tiles |-> Drop(frame.tiles, DOMAIN stale), shown |-> frame.shown,
           cache |-> IF relayout THEN sized ELSE AllAdded(sized, Optional(stale))]
    BY Zenon DEF AfterUpdate, Stowed
<1> HIDE DEF a, frame
<1>3. /\ frame.tiles \in TileMaps /\ DOMAIN frame.tiles \subseteq ID /\ frame.retain \subseteq DOMAIN frame.tiles
      /\ \A id \in DOMAIN frame.tiles : frame.tiles[id] \in Tile
      /\ CacheOK(frame.cache) /\ ShownOK(frame.shown, frame.tiles)
      /\ \A u \in DOMAIN frame.shown : frame.shown[u] \in frame.retain
    BY <1>1, FrameFacts DEF FrameOK
<1>4. stale \in TileMaps /\ DOMAIN stale = DOMAIN frame.tiles \ frame.retain
    <2>1. stale = Drop(frame.tiles, frame.retain)
        BY DEF Drop
    <2> HIDE DEF stale
    <2> QED BY <1>3, <2>1, DropTiles
<1> HIDE DEF stale
<1>5. /\ a.tiles \in TileMaps /\ DOMAIN a.tiles = frame.retain
      /\ \A id \in frame.retain : a.tiles[id] = frame.tiles[id]
    <2> DEFINE left == Drop(frame.tiles, DOMAIN stale)
    <2>1. /\ left \in TileMaps /\ DOMAIN left = DOMAIN frame.tiles \ DOMAIN stale
          /\ \A id \in DOMAIN frame.tiles \ DOMAIN stale : left[id] = frame.tiles[id]
        BY <1>3, DropTiles
    <2>2. a.tiles = left
        BY <1>2
    <2> HIDE DEF left
    <2> QED BY <1>3, <1>4, <2>1, <2>2
<1>6. CacheOK(a.cache)
    <2>1. v.cacheSize \in Nat
        BY Zooms DEF ViewOK
    <2>2. CacheOK(sized)
        BY <1>3, <2>1, ResizedOK
    <2>3. Optional(stale) \in TileMaps
        <3> DEFINE new == [id \in DOMAIN stale |-> [stale[id] EXCEPT !.required = FALSE]]
        <3>1. \A id \in DOMAIN stale : [stale[id] EXCEPT !.required = FALSE] \in Tile
            <4> TAKE id \in DOMAIN stale
            <4>1. stale[id] \in Tile /\ FALSE \in BOOLEAN
                BY <1>4, TileMapFacts
            <4> QED BY <4>1, RequiredChanged
        <3>2. new = [id \in DOMAIN stale |-> new[id]] /\ \A id \in DOMAIN stale : new[id] \in Tile
            BY <3>1
        <3> HIDE DEF new
        <3>3. new \in TileMaps
            BY <1>4, <3>2, ChangeTiles
        <3> QED BY <3>3 DEF Optional, new
    <2>4. CacheOK(AllAdded(sized, Optional(stale)))
        BY <2>2, <2>3, AllAddedOK
    <2>5. a.cache = IF relayout THEN sized ELSE AllAdded(sized, Optional(stale))
        BY <1>2
    <2> HIDE DEF sized
    <2> QED BY <2>2, <2>4, <2>5
<1>7. a.shown = frame.shown
    BY <1>2
<1>8. ShownOK(a.shown, a.tiles)
    BY <1>3, <1>5, <1>7 DEF ShownOK
<1>9. Kept(a.tiles, f.tiles) /\ f.retain \subseteq DOMAIN a.tiles
    BY <1>1, <1>3, <1>5 DEF Kept
<1>10. LeftOf(f, a)
    BY <1>1, <1>5, <1>6, <1>7, <1>8, <1>9 DEF LeftOf
<1> QED BY <1>1, <1>10 DEF a

----------------------------------------------------------------------------
(* What is there, and what is drawn, in every state. *)
LEMMA NothingFacts ==
    Nothing \in TileMaps /\ Nothing \in ShownMaps /\ DOMAIN Nothing = {}
<1>1. DOMAIN Nothing = {} /\ Nothing = [id \in DOMAIN Nothing |-> Nothing[id]]
    BY DEF Nothing
<1> QED BY <1>1, TileMapFacts, ShownMapFacts, FS_EmptySet

LEMMA NothingShown == \A map : ShownOK(Nothing, map)
BY NothingFacts DEF ShownOK

LEMMA InitInv ==
    ASSUME Init
    PROVE  PyramidInv
<1>1. tiles = Nothing /\ shown = Nothing /\ cache = [tiles |-> Nothing, keys |-> <<>>, size |-> 0]
    BY DEF Init
<1>2. CacheOK(cache)
    <2>1. <<>> \in Seq(ID) /\ 0 \in Nat
        OBVIOUS
    <2> QED BY <1>1, <2>1, NothingFacts, CacheMade
<1>3. mode \in {"Continuous", "Static"} /\ world \in Int /\ view \in Views \cup {NoView}
    BY DEF Init
<1> QED BY <1>1, <1>2, <1>3, NothingFacts, NothingShown DEF PyramidInv

(* The tiles in use change, but what is drawn is renderable still. *)
LEMMA TilesChanged ==
    ASSUME PyramidInv, tiles' \in TileMaps, Kept(tiles, tiles'),
           UNCHANGED <<mode, cache, shown, view, world>>
    PROVE  PyramidInv'
<1>1. ShownOK(shown, tiles')
    BY ShownKept DEF PyramidInv
<1> QED BY <1>1 DEF PyramidInv

LEMMA UpdateFadingKept ==
    ASSUME PyramidInv, UpdateFadingTiles
    PROVE  tiles' \in TileMaps /\ Kept(tiles, tiles') /\ Kept(tiles', tiles)
<1>1. tiles \in TileMaps /\ \A id \in DOMAIN tiles : tiles[id] \in Tile
    BY TileMapFacts DEF PyramidInv
<1>2. \A id \in DOMAIN tiles : tiles'[id] \in Tile /\ tiles'[id].status = tiles[id].status
    <2> TAKE id \in DOMAIN tiles
    <2> DEFINE next == IF tiles[id].fade = "NeedsFirstPlacement" THEN "NeedsSecondPlacement" ELSE "CanRemove"
    <2>1. tiles'[id] = tiles[id] \/ tiles'[id] = [tiles[id] EXCEPT !.fade = next]
        BY DEF UpdateFadingTiles
    <2>2. next \in Fades
        BY DEF Fades
    <2> HIDE DEF next
    <2>3. [tiles[id] EXCEPT !.fade = next] \in Tile /\ [tiles[id] EXCEPT !.fade = next].status = tiles[id].status
        BY <1>1, <2>2, FadeChanged
    <2> QED BY <1>1, <2>1, <2>3
<1>3. tiles' = [id \in DOMAIN tiles |-> tiles'[id]]
    BY DEF UpdateFadingTiles
<1>4. tiles' \in TileMaps /\ DOMAIN tiles' = DOMAIN tiles
    BY <1>1, <1>2, <1>3, ChangeTiles
<1> QED BY <1>2, <1>4 DEF Kept

(* A tile that is renderable stays so; and none becomes so by an error. *)
LEMMA StatusKept ==
    ASSUME PyramidInv, NEW id \in DOMAIN tiles,
           TriedCache(id) \/ LaidOut(id) \/ Failed(id) \/ Unparsed(id)
    PROVE  /\ tiles' \in TileMaps /\ DOMAIN tiles' = DOMAIN tiles
           /\ \A k \in DOMAIN tiles : k # id => tiles'[k] = tiles[k]
           /\ IsRenderable(tiles[id]) => IsRenderable(tiles'[id])
           /\ Failed(id) \/ Unparsed(id) => (IsRenderable(tiles'[id]) => IsRenderable(tiles[id]))
           /\ UNCHANGED <<mode, cache, shown, view, world>>
<1> DEFINE next(s) == /\ s \in Statuses /\ Becomes(id, s)
                      /\ tiles[id].status = "renderable" => s = "renderable"
                      /\ Failed(id) \/ Unparsed(id) =>
                             (s = "renderable" => tiles[id].status = "renderable")
<1>1. /\ tiles \in TileMaps /\ \A k \in DOMAIN tiles : tiles[k] \in Tile
      /\ tiles[id].status \in Statuses
    <2>1. tiles \in TileMaps /\ \A k \in DOMAIN tiles : tiles[k] \in Tile
        BY TileMapFacts DEF PyramidInv
    <2> QED BY <2>1 DEF Tile
<1>2. PICK status : next(status)
    <2>1. CASE Failed(id)
        <3> DEFINE s == IF tiles[id].status = "tried" THEN "failed" ELSE tiles[id].status
        <3>1. s \in Statuses /\ (tiles[id].status = "renderable" <=> s = "renderable")
            BY <1>1 DEF Statuses
        <3>2. Becomes(id, s)
            BY <2>1 DEF Failed
        <3> HIDE DEF s
        <3> QED BY <3>1, <3>2
    <2>2. CASE Unparsed(id)
        <3>1. Becomes(id, "unparsable") /\ tiles[id].status # "renderable"
            BY <2>2 DEF Unparsed, Loadable
        <3> QED BY <3>1 DEF Statuses
    <2>3. CASE TriedCache(id) /\ ~Failed(id) /\ ~Unparsed(id)
        <3>1. Becomes(id, "tried") /\ tiles[id].status # "renderable"
            BY <2>3 DEF TriedCache
        <3> QED BY <2>3, <3>1 DEF Statuses
    <2>4. CASE LaidOut(id) /\ ~Failed(id) /\ ~Unparsed(id)
        <3>1. Becomes(id, "renderable")
            BY <2>4 DEF LaidOut
        <3> QED BY <2>4, <3>1 DEF Statuses
    <2> QED BY <2>1, <2>2, <2>3, <2>4
<1>3. /\ [tiles[id] EXCEPT !.status = status] \in Tile
      /\ [tiles[id] EXCEPT !.status = status].status = status
    BY <1>1, <1>2, StatusChanged
<1>4. tiles' = [tiles EXCEPT ![id] = [tiles[id] EXCEPT !.status = status]]
    BY <1>2 DEF Becomes
<1>5. /\ \A k \in DOMAIN tiles : k # id => tiles'[k] = tiles[k]
      /\ tiles'[id] = [tiles[id] EXCEPT !.status = status]
      /\ tiles' = [k \in DOMAIN tiles |-> tiles'[k]]
    BY <1>4
<1>6. \A k \in DOMAIN tiles : tiles'[k] \in Tile
    BY <1>1, <1>3, <1>5
<1>7. tiles' \in TileMaps /\ DOMAIN tiles' = DOMAIN tiles
    BY <1>1, <1>5, <1>6, ChangeTiles
<1>8. tiles'[id].status = status
    BY <1>3, <1>5
<1>9. UNCHANGED <<mode, cache, shown, view, world>>
    BY <1>2 DEF Becomes
<1> QED BY <1>2, <1>5, <1>7, <1>8, <1>9 DEF IsRenderable

LEMMA StatusInv ==
    ASSUME PyramidInv, NEW id \in DOMAIN tiles,
           TriedCache(id) \/ LaidOut(id) \/ Failed(id) \/ Unparsed(id)
    PROVE  PyramidInv'
<1>1. /\ tiles' \in TileMaps /\ DOMAIN tiles' = DOMAIN tiles
      /\ \A k \in DOMAIN tiles : k # id => tiles'[k] = tiles[k]
      /\ IsRenderable(tiles[id]) => IsRenderable(tiles'[id])
      /\ UNCHANGED <<mode, cache, shown, view, world>>
    BY StatusKept
<1>2. ShownOK(shown, tiles')
    BY <1>1 DEF PyramidInv, ShownOK
<1> QED BY <1>1, <1>2 DEF PyramidInv

LEMMA CacheCleared ==
    ASSUME PyramidInv, cache' = Cleared(cache), UNCHANGED <<mode, tiles, shown, view, world>>
    PROVE  PyramidInv'
<1>1. CacheOK(cache')
    BY ClearedOK DEF PyramidInv
<1> QED BY <1>1 DEF PyramidInv

LEMMA AfterUpdateInv ==
    ASSUME PyramidInv, NEW v \in Views, NEW relayout \in BOOLEAN,
           tiles' = AfterUpdate(v, relayout).tiles, shown' = AfterUpdate(v, relayout).shown,
           cache' = AfterUpdate(v, relayout).cache, view' = v, world' = v.world, mode' = mode
    PROVE  PyramidInv'
<1> DEFINE a == AfterUpdate(v, relayout)
<1>1. PICK f : LeftOf(f, a)
    BY AfterUpdateOK
<1>2. v.world \in Int
    BY Zooms DEF ViewOK
<1>3. tiles' = a.tiles /\ shown' = a.shown /\ cache' = a.cache
    OBVIOUS
<1> HIDE DEF a
<1>4. tiles' \in TileMaps /\ CacheOK(cache') /\ ShownOK(shown', tiles')
    BY <1>1, <1>3 DEF LeftOf
<1> QED BY <1>2, <1>4 DEF PyramidInv

LEMMA NextInv ==
    ASSUME PyramidInv, Next
    PROVE  PyramidInv'
<1>1. ASSUME NEW v \in Views, NEW relayout \in BOOLEAN, Update(v, relayout) PROVE PyramidInv'
    <2>1. /\ tiles' = AfterUpdate(v, relayout).tiles /\ shown' = AfterUpdate(v, relayout).shown
          /\ cache' = AfterUpdate(v, relayout).cache /\ view' = v /\ world' = v.world /\ mode' = mode
        BY <1>1, Zenon DEF Update
    <2> QED BY <2>1, AfterUpdateInv
<1>2. ASSUME NEW relayout \in BOOLEAN, Hide(relayout) PROVE PyramidInv'
    <2>1. /\ tiles' = Nothing /\ shown' = Nothing /\ view' = NoView /\ UNCHANGED <<mode, world>>
          /\ cache' = IF relayout THEN Cleared(cache) ELSE AllAdded(cache, tiles)
        BY <1>2 DEF Hide
    <2>2. tiles \in TileMaps /\ CacheOK(cache)
        BY DEF PyramidInv
    <2>3. CacheOK(cache')
        BY <2>1, <2>2, ClearedOK, AllAddedOK
    <2> QED BY <2>1, <2>3, NothingFacts, NothingShown DEF PyramidInv
<1>3. CASE ReduceMemoryUse
    BY <1>3, CacheCleared DEF ReduceMemoryUse
<1>4. CASE ClearAll
    <2>1. /\ tiles' = Nothing /\ shown' = Nothing /\ view' = NoView /\ UNCHANGED <<mode, world>>
          /\ cache' = Cleared(cache)
        BY <1>4 DEF ClearAll
    <2>2. CacheOK(cache')
        BY <2>1, ClearedOK DEF PyramidInv
    <2> QED BY <2>1, <2>2, NothingFacts, NothingShown DEF PyramidInv
<1>5. CASE UpdateFadingTiles
    <2>1. UNCHANGED <<mode, cache, shown, view, world>>
        BY <1>5 DEF UpdateFadingTiles
    <2> QED BY <1>5, <2>1, UpdateFadingKept, TilesChanged
<1>6. ASSUME NEW id \in DOMAIN tiles, SetTriedCache(id) \/ OnLayout(id) \/ OnError(id) \/ SetError(id)
      PROVE  PyramidInv'
    BY <1>6, StatusInv DEF SetTriedCache, OnLayout, OnError, SetError
<1> QED BY <1>1, <1>2, <1>3, <1>4, <1>5, <1>6 DEF Next

LEMMA PyramidStutter ==
    ASSUME PyramidInv, UNCHANGED vars
    PROVE  PyramidInv'
BY DEF PyramidInv, vars

LEMMA InvRetains ==
    ASSUME PyramidInv
    PROVE  RenderTilesRetained
BY DEF PyramidInv, ShownOK, CacheOK, RenderTilesRetained, HasRenderable, Has

(* The tiles in use, the cache and what is drawn stay well-formed: every tile that is drawn is  *)
(* in use and renderable, as is every tile of the cache, which has a key for each.              *)
THEOREM PyramidInvariant == Spec => []PyramidInv
<1>1. PyramidInv /\ [Next]_vars => PyramidInv'
    BY NextInv, PyramidStutter
<1> QED BY <1>1, InitInv, PTL DEF Spec

(* Every tile of a TilePyramid that is drawn is in use and renderable, and every tile of the   *)
(* TileCache is renderable and can be purged.                                                  *)
THEOREM TilesAreRetained == Spec => []RenderTilesRetained
BY PyramidInvariant, InvRetains, PTL

----------------------------------------------------------------------------
(* The places of the ideal tiles show what there is. *)
Standing(map, id) == \E parent \in Above(id) : HasRenderable([tiles |-> map], parent)

Filled(drawn, id) ==
    (\E parent \in Above(id) : DrawnIn(drawn, parent)) \/ \A child \in Children(id) : DrawnIn(drawn, child)

Covering(map, drawn, v) ==
    \A id \in ToSet(IdealIds(v)) : InBounds(id) /\ Standing(map, id) => Filled(drawn, id)

LEMMA IdealIn ==
    ASSUME NEW v \in Views, NEW id \in ToSet(IdealIds(v))
    PROVE  id \in IdsAt(v.zoom) /\ id \in ID
<1>1. IdealIds(v) \in Seq(IdsAt(v.zoom))
    BY Zooms, IdealFacts
<1>2. PICK i \in DOMAIN IdealIds(v) : id = IdealIds(v)[i]
    BY DEF ToSet
<1>3. DOMAIN IdealIds(v) = 1..Len(IdealIds(v))
    BY <1>1
<1>4. id \in IdsAt(v.zoom)
    BY <1>1, <1>2, <1>3
<1> QED BY <1>4 DEF IdsAt

(* What is drawn by the frame is drawn after it. *)
LEMMA FilledStays ==
    ASSUME NEW f, NEW a, LeftOf(f, a), NEW id, Filled(f.shown, id)
    PROVE  Filled(a.shown, id)
<1>1. \A k : DrawnIn(f.shown, k) => DrawnIn(a.shown, k)
    BY DEF LeftOf, DrawnIn
<1> QED BY <1>1 DEF Filled

LEMMA StandingBefore ==
    ASSUME NEW f, NEW a, LeftOf(f, a), NEW id, HasRenderable([tiles |-> a.tiles], id)
    PROVE  HasRenderable(f, id)
BY DEF LeftOf, Kept, HasRenderable, Has, IsRenderable

LEMMA TakenFills ==
    ASSUME NEW zoom, NEW f, Pass(f, zoom), NEW id \in IdsAt(zoom),
           \/ \E parent \in Above(id) : Taken(f, parent)
           \/ \A child \in Children(id) : Taken(f, child)
    PROVE  Filled(f.shown, id)
<1>1. CASE Taken(f, id)
    BY <1>1, TakenByKin DEF Filled
<1>2. CASE \E parent \in Parents(id) : Taken(f, parent)
    BY <1>2, ParentTaken DEF Filled
<1>3. CASE \A child \in Children(id) : Taken(f, child)
    BY <1>3, ChildrenTaken DEF Filled
<1> QED BY <1>1, <1>2, <1>3 DEF Above

LEMMA FrameCovers ==
    ASSUME NEW v \in Views, NEW f, Finished(f, v), NEW a, LeftOf(f, a)
    PROVE  Covering(a.tiles, a.shown, v)
<1> SUFFICES ASSUME NEW id \in ToSet(IdealIds(v)), InBounds(id), Standing(a.tiles, id)
             PROVE  Filled(a.shown, id)
    BY DEF Covering
<1>1. Pass(f, v.zoom) /\ f.draws /\ Done(f, id) /\ id \in IdsAt(v.zoom)
    BY IdealIn DEF Finished
<1>2. PICK parent \in Above(id) : HasRenderable(f, parent)
    BY StandingBefore DEF Standing
<1>3. Filled(f.shown, id)
    <2>1. IF HasRenderable(f, id) THEN Taken(f, id)
          ELSE \/ \A child \in Children(id) : Taken(f, child)
               \/ \E q \in Parents(id) : Taken(f, q)
               \/ \A q \in Parents(id) : Idle(f, q)
        BY <1>1 DEF Done, InBounds
    <2>2. CASE HasRenderable(f, id)
        BY <1>1, <2>1, <2>2, TakenFills DEF Above
    <2>3. CASE ~HasRenderable(f, id)
        <3>1. ~(\A q \in Parents(id) : Idle(f, q))
            BY <1>2, <2>3 DEF Above, Idle
        <3> QED BY <1>1, <2>1, <2>3, <3>1, TakenFills DEF Above
    <2> QED BY <2>2, <2>3
<1> QED BY <1>3, FilledStays

(* Covered, as a state of the tiles, of what is drawn, and of the camera. *)
LEMMA CoveredMeans ==
    Covered <=> (mode = "Continuous" /\ view # NoView /\ news # "invalidated" => Covering(tiles, shown, view))
BY DEF Covered, Covering, Standing, Filled, Above, Drawn, DrawnIn

LEMMA CoveringStays ==
    ASSUME NEW map, NEW new, Kept(new, map), NEW drawn, NEW v, Covering(map, drawn, v)
    PROVE  Covering(new, drawn, v)
<1>1. \A id : Standing(new, id) => Standing(map, id)
    BY DEF Standing, Kept, HasRenderable, Has, IsRenderable
<1> QED BY <1>1 DEF Covering

LEMMA NextCovered ==
    ASSUME PyramidInv, Covered, Next
    PROVE  Covered'
<1> SUFFICES ASSUME mode' = "Continuous", view' # NoView, news' # "invalidated"
             PROVE  Covering(tiles', shown', view')
    BY DEF Covered, Covering, Standing, Filled, Above, Drawn, DrawnIn, InBounds
<1>1. ASSUME NEW v \in Views, NEW relayout \in BOOLEAN, Update(v, relayout)
      PROVE  Covering(tiles', shown', view')
    <2> DEFINE a == AfterUpdate(v, relayout)
    <2>1. tiles' = a.tiles /\ shown' = a.shown /\ view' = v
        BY <1>1, Zenon DEF Update
    <2>2. PICK f : Finished(f, v) /\ LeftOf(f, a)
        BY AfterUpdateOK
    <2> HIDE DEF a
    <2> QED BY <2>1, <2>2, FrameCovers
<1>2. ASSUME NEW relayout \in BOOLEAN, Hide(relayout) PROVE FALSE
    BY <1>2 DEF Hide
<1>3. ~ReduceMemoryUse /\ ~ClearAll
    BY DEF ReduceMemoryUse, ClearAll
<1>4. CASE UpdateFadingTiles
    <2>1. UNCHANGED <<mode, shown, view, news>>
        BY <1>4 DEF UpdateFadingTiles
    <2>2. Covering(tiles, shown, view)
        BY <2>1, CoveredMeans
    <2> QED BY <1>4, <2>1, <2>2, UpdateFadingKept, CoveringStays
<1>5. ASSUME NEW id \in DOMAIN tiles, SetTriedCache(id) \/ OnLayout(id) \/ OnError(id) \/ SetError(id)
      PROVE  Covering(tiles', shown', view')
    <2>1. (Failed(id) \/ Unparsed(id)) /\ news # "invalidated"
        BY <1>5 DEF SetTriedCache, OnLayout, OnError, SetError, OnTileChanged, OnTileError
    <2>2. /\ DOMAIN tiles' = DOMAIN tiles /\ (IsRenderable(tiles'[id]) => IsRenderable(tiles[id]))
          /\ \A k \in DOMAIN tiles : k # id => tiles'[k] = tiles[k]
          /\ UNCHANGED <<mode, cache, shown, view, world>>
        BY <2>1, StatusKept
    <2>3. Covering(tiles, shown, view)
        BY <2>1, <2>2, CoveredMeans
    <2>4. \A k : HasRenderable([tiles |-> tiles'], k) => HasRenderable([tiles |-> tiles], k)
        BY <2>2 DEF HasRenderable, Has
    <2>5. \A k : Standing(tiles', k) => Standing(tiles, k)
        BY <2>4 DEF Standing
    <2> QED BY <2>2, <2>3, <2>5 DEF Covering
<1> QED BY <1>1, <1>2, <1>3, <1>4, <1>5 DEF Next

LEMMA InitCovered == Init => Covered
BY DEF Init, Covered

LEMMA CoveredStutter == Covered /\ UNCHANGED vars => Covered'
BY DEF Covered, vars, Drawn, HasRenderable, Has, InBounds

(* A Continuous map that has drawn its last frame shows, in place of every ideal tile, the tile *)
(* or one above it if any of them is renderable, or all the tiles below it.                     *)
THEOREM IdealTilesAreCovered == Spec => []Covered
<1>1. PyramidInv /\ Covered /\ [Next]_vars => Covered'
    BY NextCovered, CoveredStutter
<1> QED BY <1>1, InitCovered, PyramidInvariant, PTL DEF Spec

----------------------------------------------------------------------------
(* What is outside of the bounds at one zoom is outside at the next. *)
LEMMA ParentInBounds ==
    ASSUME NEW zoom, NEW id \in IdsAt(zoom), InBounds(id), NEW q \in Parents(id)
    PROVE  q.p \notin OutOfBounds
<1>1. /\ id \in ID /\ id.z = zoom /\ zoom \in Nat /\ MinZoom \in Nat /\ MaxZoom \in Nat /\ MinZoom =< zoom
      /\ MinZoom =< MaxZoom /\ id.p \in Seq(Branches) /\ Len(id.p) = Depth(zoom) /\ Len(id.p) \in Nat
    BY IdFacts, Zooms DEF IdsAt
<1>2. PICK z \in MinZoom..(id.z - 1) : q = ScaledTo(id, z)
    BY DEF Parents
<1>3. z \in Nat /\ z =< id.z /\ z >= MinZoom
    BY <1>1
<1>4. (z >= Len(id.p) => q.p = id.p) /\ (z < Len(id.p) => q.p = SubSeq(id.p, 1, z))
    BY <1>1, <1>2, <1>3, ScaledToFacts
<1>5. CASE z >= Len(id.p)
    BY <1>4, <1>5 DEF InBounds
<1>6. CASE z < Len(id.p)
    <2>1. Len(id.p) \in MinZoom..MaxZoom /\ z \in MinZoom..Len(id.p)
        BY <1>1, <1>3, <1>6 DEF Depth
    <2>2. id.p \in [1..Len(id.p) -> Branches]
        BY <1>1
    <2>3. \A n \in MinZoom..MaxZoom : \A p \in [1..n -> Branches], k \in MinZoom..n :
            SubSeq(p, 1, k) \in OutOfBounds => p \in OutOfBounds
        BY TilePyramidAssumption
    <2>4. SubSeq(id.p, 1, z) \in OutOfBounds => id.p \in OutOfBounds
        BY <2>1, <2>2, <2>3
    <2> QED BY <1>4, <1>6, <2>4 DEF InBounds
<1> QED BY <1>1, <1>3, <1>5, <1>6

UnparsableIn(map, id) == id \in DOMAIN map /\ map[id].status = "unparsable"

(* Everything there is has an answer: each ideal tile is drawn, or cannot be parsed. *)
LEMMA FrameComplete ==
    ASSUME NEW v \in Views, NEW f, Finished(f, v), NEW a, LeftOf(f, a), PyramidLoaded(a),
           NEW id \in ToSet(IdealIds(v)), InBounds(id)
    PROVE  \/ DrawnIn(a.shown, id)
           \/ /\ UnparsableIn(a.tiles, id)
              /\ \/ \A child \in Children(id) : DrawnIn(a.shown, child)
                 \/ \E parent \in Parents(id) : DrawnIn(a.shown, parent)
                 \/ \A parent \in Parents(id) : UnparsableIn(a.tiles, parent)
<1>1. Pass(f, v.zoom) /\ f.draws /\ Done(f, id) /\ Exact(f, id) /\ id \in IdsAt(v.zoom)
    BY IdealIn DEF Finished
<1>2. FrameOK(f) /\ CheckedOK(f, v.zoom)
    BY <1>1 DEF Pass
<1>3. \A q \in f.retain : /\ q \in DOMAIN f.tiles /\ q \in DOMAIN a.tiles
                          /\ a.tiles[q].status = f.tiles[q].status
                          /\ a.tiles[q].status \in {"unparsable", "renderable"}
    BY <1>2 DEF FrameOK, LeftOf, Kept, PyramidLoaded, IsComplete
<1>4. id \in f.retain
    BY <1>1 DEF Done, InBounds
<1>5. CASE HasRenderable(f, id)
    <2>1. Taken(f, id) /\ f.shown[Unwrapped(id)] = id
        BY <1>1, <1>5 DEF Done, Exact, InBounds
    <2> QED BY <2>1 DEF Taken, DrawnIn, LeftOf
<1>6. CASE ~HasRenderable(f, id)
    <2>1. UnparsableIn(a.tiles, id)
        BY <1>3, <1>4, <1>6 DEF UnparsableIn, HasRenderable, Has, IsRenderable
    <2>2. \/ \A child \in Children(id) : Taken(f, child)
          \/ \E q \in Parents(id) : Taken(f, q)
          \/ \A q \in Parents(id) : Idle(f, q)
        BY <1>1, <1>6 DEF Done, InBounds
    <2>3. CASE (\A child \in Children(id) : Taken(f, child)) \/ (\E q \in Parents(id) : Taken(f, q))
        <3>1. Filled(f.shown, id)
            BY <1>1, <2>3, TakenFills DEF Above
        <3>2. Filled(a.shown, id)
            BY <3>1, FilledStays
        <3> QED BY <2>1, <3>2 DEF Filled, Above
    <2>4. CASE \A q \in Parents(id) : Idle(f, q)
        <3>1. ASSUME NEW q \in Parents(id) PROVE UnparsableIn(a.tiles, q)
            <4>1. q \in f.checked /\ ~HasRenderable(f, q)
                BY <2>4 DEF Idle
            <4>2. Accounted(f, q) /\ q.p \notin OutOfBounds
                BY <1>1, <1>2, <4>1, ParentInBounds DEF CheckedOK
            <4>3. ~Waits(f)
                BY <1>3 DEF Waits
            <4>4. q \in f.retain
                BY <4>2, <4>3 DEF Accounted
            <4> QED BY <1>3, <4>1, <4>4 DEF UnparsableIn, HasRenderable, Has, IsRenderable
        <3> QED BY <2>1, <3>1
    <2> QED BY <2>2, <2>3, <2>4
<1> QED BY <1>5, <1>6

----------------------------------------------------------------------------
(* The map: what the frontend is told is what there was when it was told. *)
ToldInv ==
    /\ mode = "Static" => camera \in Views
    /\ updateParameters.source => updateParameters.camera \in Views
    /\ updateParameters.loaded => updateParameters.source /\ StyleLoaded

MapInv == PyramidInv /\ ToldInv

LEMMA MapInitInv ==
    ASSUME MapInit
    PROVE  MapInv
<1>1. PyramidInv
    BY InitInv DEF MapInit
<1>2. ToldInv
    BY DEF MapInit, Init, ToldInv
<1> QED BY <1>1, <1>2 DEF MapInv

(* The style, its source and its sprite are not taken back. *)
LEMMA UpdateTold ==
    ASSUME ToldInv, UNCHANGED mode, mode = "Static", camera' \in Views, StyleLoaded => StyleLoaded',
           NEW loaded \in BOOLEAN, OnUpdateWith(loaded) \/ UNCHANGED updateParameters
    PROVE  ToldInv'
<1>1. CASE UNCHANGED updateParameters
    BY <1>1 DEF ToldInv
<1>2. CASE updateParameters' = [source |-> source', loaded |-> loaded /\ StyleLoaded', camera |-> camera']
    <2>1. /\ updateParameters'.source = source' /\ updateParameters'.camera = camera'
          /\ updateParameters'.loaded = (loaded /\ StyleLoaded')
        BY <1>2
    <2>2. StyleLoaded' => source'
        BY DEF StyleLoaded
    <2> QED BY <2>1, <2>2 DEF ToldInv
<1> QED BY <1>1, <1>2 DEF OnUpdateWith

LEMMA RenderFrameInv ==
    ASSUME MapInv, RenderFrame
    PROVE  PyramidInv'
<1> DEFINE a == AfterUpdate(updateParameters.camera, FALSE)
<1>1. CASE updateParameters.source
    <2>1. /\ tiles' = a.tiles /\ shown' = a.shown /\ cache' = a.cache /\ mode' = mode
          /\ view' = updateParameters.camera /\ world' = updateParameters.camera.world
        BY <1>1, Zenon DEF RenderFrame
    <2>2. updateParameters.camera \in Views /\ FALSE \in BOOLEAN /\ PyramidInv
        BY <1>1 DEF MapInv, ToldInv
    <2> HIDE DEF RenderFrame, MapInv
    <2> QED BY <2>1, <2>2, AfterUpdateInv
<1>2. CASE ~updateParameters.source
    <2>1. tiles' = tiles /\ shown' = shown /\ cache' = cache /\ UNCHANGED <<view, world, mode>>
        BY <1>2 DEF RenderFrame
    <2> QED BY <2>1 DEF MapInv, PyramidInv
<1> QED BY <1>1, <1>2

LEMMA StaticNextInv ==
    ASSUME MapInv, StaticNext
    PROVE  MapInv'
<1>1. PyramidInv /\ ToldInv /\ mode = "Static" /\ camera \in Views
    BY DEF MapInv, ToldInv, StaticNext
<1>2. ASSUME UnchangedPyramid PROVE PyramidInv' /\ UNCHANGED mode
    BY <1>1, <1>2 DEF UnchangedPyramid, PyramidInv
<1>3. TRUE \in BOOLEAN /\ Annotations \in BOOLEAN
    BY MapAssumption
<1>4. ASSUME NEW v \in Views, RenderStill(v) \/ JumpTo(v) PROVE MapInv'
    <2>1. UnchangedPyramid /\ camera' = v /\ (StyleLoaded => StyleLoaded')
        BY <1>4 DEF RenderStill, JumpTo, StyleLoaded, SpriteLoaded
    <2>2. OnUpdateWith(TRUE) \/ UNCHANGED updateParameters
        BY <1>4 DEF RenderStill, JumpTo, OnUpdate
    <2> QED BY <1>1, <1>2, <1>3, <2>1, <2>2, UpdateTold DEF MapInv
<1>5. CASE StyleFails \/ SourceFails
    <2>1. UnchangedPyramid /\ UNCHANGED <<camera, updateParameters>> /\ (StyleLoaded => StyleLoaded')
        BY <1>5 DEF StyleFails, SourceFails, StyleLoaded, SpriteLoaded
    <2> QED BY <1>1, <1>2, <1>3, <2>1, UpdateTold DEF MapInv
<1>6. CASE StyleArrives
    <2>1. UnchangedPyramid /\ UNCHANGED camera /\ OnUpdateWith(Annotations) /\ ~StyleLoaded
        BY <1>6 DEF StyleArrives, StyleLoaded
    <2> QED BY <1>1, <1>2, <1>3, <2>1, UpdateTold DEF MapInv
<1>7. CASE SourceArrives \/ SpriteFails \/ SpriteArrives
    <2>1. UnchangedPyramid /\ UNCHANGED camera /\ (StyleLoaded => StyleLoaded')
        BY <1>7 DEF SourceArrives, SpriteFails, SpriteArrives, StyleLoaded, SpriteLoaded
    <2>2. OnUpdateWith(TRUE)
        BY <1>7, Zenon DEF SourceArrives, SpriteFails, SpriteArrives, OnUpdate
    <2> QED BY <1>1, <1>2, <1>3, <2>1, <2>2, UpdateTold DEF MapInv
<1>8. ASSUME NEW id \in DOMAIN tiles, TileChanges(id) \/ TileFails(id) PROVE MapInv'
    <2>1. TriedCache(id) \/ LaidOut(id) \/ Failed(id) \/ Unparsed(id)
        BY <1>8 DEF TileChanges, TileFails
    <2>2. PyramidInv' /\ UNCHANGED mode
        BY <1>1, <2>1, StatusInv, StatusKept
    <2>3. UNCHANGED camera /\ (StyleLoaded => StyleLoaded')
        BY <1>8 DEF TileChanges, TileFails, StyleLoaded, SpriteLoaded
    <2>4. OnUpdateWith(TRUE) \/ UNCHANGED updateParameters
        BY <1>8 DEF TileChanges, TileFails, OnUpdate
    <2> QED BY <1>1, <1>3, <2>2, <2>3, <2>4, UpdateTold DEF MapInv
<1>9. CASE PurgeCache
    <2>1. cache' = Cleared(cache) /\ UNCHANGED <<mode, tiles, shown, view, world>>
        BY <1>9 DEF PurgeCache
    <2>2. UNCHANGED camera /\ (StyleLoaded => StyleLoaded') /\ OnUpdateWith(TRUE)
        BY <1>9 DEF PurgeCache, StyleLoaded, SpriteLoaded, OnUpdate
    <2> QED BY <1>1, <1>3, <2>1, <2>2, CacheCleared, UpdateTold DEF MapInv
<1>10. CASE RenderFrame
    <2>1. UNCHANGED <<mode, camera, updateParameters>> /\ (StyleLoaded => StyleLoaded')
        BY <1>10 DEF RenderFrame, StyleLoaded, SpriteLoaded
    <2> QED BY <1>1, <1>3, <1>10, <2>1, RenderFrameInv, UpdateTold DEF MapInv
<1> QED BY <1>4, <1>5, <1>6, <1>7, <1>8, <1>9, <1>10 DEF StaticNext

LEMMA MapNextInv ==
    ASSUME MapInv, [MapNext]_allVars
    PROVE  MapInv'
<1>1. CASE ContinuousNext
    <2>1. PyramidInv' /\ mode' = mode
        <3>1. PyramidInv /\ Next
            BY <1>1 DEF MapInv, ContinuousNext
        <3>2. PyramidInv'
            BY <3>1, NextInv
        <3>3. mode' = mode
            BY <3>1 DEF Next, Update, Hide, ReduceMemoryUse, ClearAll, UpdateFadingTiles, SetTriedCache,
                        OnLayout, OnError, SetError, TriedCache, LaidOut, Unparsed, Failed, Becomes
        <3> QED BY <3>2, <3>3
    <2>2. UNCHANGED mapVars
        BY <1>1 DEF ContinuousNext
    <2>3. ToldInv'
        BY <2>1, <2>2 DEF MapInv, ToldInv, mapVars, StyleLoaded, SpriteLoaded
    <2> QED BY <2>1, <2>3 DEF MapInv
<1>2. CASE StaticNext
    BY <1>2, StaticNextInv
<1>3. CASE UNCHANGED allVars
    <2>1. UNCHANGED vars /\ UNCHANGED mapVars
        BY <1>3 DEF allVars
    <2>2. PyramidInv'
        BY <2>1, PyramidStutter DEF MapInv
    <2>3. ToldInv'
        BY <2>1 DEF MapInv, ToldInv, vars, mapVars, StyleLoaded, SpriteLoaded
    <2> QED BY <2>2, <2>3 DEF MapInv
<1> QED BY <1>1, <1>2, <1>3 DEF MapNext

(* The same of the tiles of a Map; and what its frontend has been told last of the style, the    *)
(* source and the camera is true still, but for a camera that has moved.                         *)
THEOREM MapInvariant == MapSpec => []MapInv
BY MapInitInv, MapNextInv, PTL DEF MapSpec

(* Every tile of a Map that is drawn is in use and renderable, and every tile of the TileCache  *)
(* is renderable and can be purged, whether the map is Continuous or renders still images.      *)
THEOREM MapTilesAreRetained == MapSpec => []RenderTilesRetained
<1>1. MapInv => RenderTilesRetained
    BY InvRetains DEF MapInv
<1> QED BY <1>1, MapInvariant, PTL

LEMMA ModeKept ==
    ASSUME [MapNext]_allVars
    PROVE  mode' = mode
<1>1. CASE ContinuousNext
    BY <1>1 DEF ContinuousNext, Next, Update, Hide, ReduceMemoryUse, ClearAll, UpdateFadingTiles,
                SetTriedCache, OnLayout, OnError, SetError, TriedCache, LaidOut, Unparsed, Failed, Becomes
<1>2. CASE StaticNext
    <2>1. ASSUME NEW v \in Views, RenderStill(v) \/ JumpTo(v) PROVE mode' = mode
        BY <2>1 DEF RenderStill, JumpTo, UnchangedPyramid
    <2>2. CASE StyleFails \/ StyleArrives \/ SourceFails \/ SourceArrives \/ SpriteFails \/ SpriteArrives
        BY <2>2 DEF StyleFails, StyleArrives, SourceFails, SourceArrives, SpriteFails, SpriteArrives,
                    UnchangedPyramid
    <2>3. ASSUME NEW id \in DOMAIN tiles, TileChanges(id) \/ TileFails(id) PROVE mode' = mode
        BY <2>3 DEF TileChanges, TileFails, TriedCache, LaidOut, Unparsed, Failed, Becomes
    <2>4. CASE PurgeCache \/ RenderFrame
        BY <2>4 DEF PurgeCache, RenderFrame
    <2> QED BY <1>2, <2>1, <2>2, <2>3, <2>4 DEF StaticNext
<1>3. CASE UNCHANGED allVars
    BY <1>3 DEF allVars, vars
<1> QED BY <1>1, <1>2, <1>3 DEF MapNext

(* The same of a Map whose mode is Continuous. *)
THEOREM MapTilesAreCovered == MapSpec => []Covered
<1>1. MapInit => Covered
    BY InitCovered DEF MapInit
<1>2. ASSUME MapInv, Covered, [MapNext]_allVars PROVE Covered'
    <2>1. CASE ContinuousNext
        BY <1>2, <2>1, NextCovered DEF ContinuousNext, MapInv
    <2>2. CASE StaticNext
        BY <1>2, <2>2, ModeKept DEF StaticNext, Covered
    <2>3. CASE UNCHANGED allVars
        BY <1>2, <2>3, CoveredStutter DEF allVars
    <2> QED BY <1>2, <2>1, <2>2, <2>3 DEF MapNext
<1>3. MapInv /\ Covered /\ [MapNext]_allVars => Covered'
    BY <1>2
<1> QED BY <1>1, <1>3, MapInvariant, PTL DEF MapSpec

----------------------------------------------------------------------------
(* An image is only delivered by a frame. *)
LEMMA OnlyFramesDeliver ==
    ASSUME [MapNext]_allVars, Delivered
    PROVE  RenderFrame
<1>1. request /\ ~request' /\ news = "invalidated" /\ news' = "none"
    BY DEF Delivered
<1>2. ~ContinuousNext /\ ~UNCHANGED allVars
    BY <1>1 DEF ContinuousNext, allVars, mapVars
<1>3. \A v \in Views : ~RenderStill(v) /\ ~JumpTo(v)
    BY <1>1 DEF RenderStill, JumpTo
<1>4. ~StyleFails /\ ~StyleArrives /\ ~SourceFails /\ ~SourceArrives /\ ~SpriteArrives
    BY <1>1 DEF StyleFails, StyleArrives, SourceFails, SourceArrives, SpriteArrives
<1>5. ~SpriteFails /\ ~PurgeCache
    BY <1>1 DEF SpriteFails, PurgeCache, OnUpdate, OnUpdateWith
<1>6. \A id \in DOMAIN tiles : ~TileChanges(id) /\ ~TileFails(id)
    BY <1>1 DEF TileChanges, TileFails
<1> QED BY <1>2, <1>3, <1>4, <1>5, <1>6 DEF MapNext, StaticNext

(* An image that is delivered is drawn from a style, a source and a sprite that have been        *)
(* answered, for the camera the frontend was told last, and every ideal tile is drawn or cannot  *)
(* be parsed, like all that could have been drawn in its place.                                  *)
THEOREM ImagesAreComplete == MapSpec => StillIsComplete
<1> DEFINE Whole == Delivered => StyleLoaded /\ view' = updateParameters.camera /\ Complete(view)'
<1>1. ASSUME MapInv, [MapNext]_allVars PROVE Whole
    <2> SUFFICES ASSUME Delivered
                 PROVE  StyleLoaded /\ view' = updateParameters.camera /\ Complete(view)'
        OBVIOUS
    <2> DEFINE v == updateParameters.camera
               a == AfterUpdate(v, FALSE)
    <2>1. RenderFrame /\ request /\ ~request'
        BY <1>1, OnlyFramesDeliver DEF Delivered
    <2>2. updateParameters.loaded /\ updateParameters.source
        BY <1>1, <2>1 DEF RenderFrame, MapInv, ToldInv
    <2>3. /\ tiles' = a.tiles /\ shown' = a.shown /\ view' = v /\ PyramidLoaded(a)
        BY <2>1, <2>2 DEF RenderFrame
    <2>4. v \in Views /\ StyleLoaded /\ PyramidInv
        BY <1>1, <2>2 DEF MapInv, ToldInv
    <2>5. PICK f : Finished(f, v) /\ LeftOf(f, a)
        <3>1. FALSE \in BOOLEAN
            OBVIOUS
        <3> QED BY <2>4, <3>1, AfterUpdateOK
    <2> HIDE DEF a
    <2>6. \A id \in ToSet(IdealIds(v)) : InBounds(id) =>
              \/ DrawnIn(shown', id)
              \/ /\ UnparsableIn(tiles', id)
                 /\ \/ \A child \in Children(id) : DrawnIn(shown', child)
                    \/ \E parent \in Parents(id) : DrawnIn(shown', parent)
                    \/ \A parent \in Parents(id) : UnparsableIn(tiles', parent)
        BY <2>3, <2>4, <2>5, FrameComplete
    <2>7. Complete(view)'
        BY <2>3, <2>6 DEF Complete, Drawn, DrawnIn, IsUnparsable, UnparsableIn, InBounds
    <2> QED BY <2>3, <2>4, <2>7
<1>2. MapInv /\ [MapNext]_allVars => [Whole]_allVars
    BY <1>1
<1> QED BY <1>2, MapInvariant, PTL DEF MapSpec, StillIsComplete
=====
