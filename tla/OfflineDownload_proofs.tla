----------------------- MODULE OfflineDownload_proofs -----------------------
(***************************************************************************)
(* Proofs about OfflineDownload, for any style, sources, tiles, files and   *)
(* limits, any size of a batch and any number of failures.                  *)
(***************************************************************************)
EXTENDS OfflineDownload, SequenceFacts

(* A resource that is being ensured, and one that is or will be. *)
Out(d, x) == In(d.work, x) \/ x \in d.fetching
Listed(d, x) == Out(d, x) \/ In(d.remaining, x)

Unlisted(d) == d.work = <<>> /\ d.fetching = {} /\ d.remaining = <<>>

(* x is a tile of a TileJSON that is being ensured. *)
Awaited(d, x) == \E s \in Readable : x \in ToSet(SourceTiles[s]) /\ Out(d, s)

(* The lists of the download: no resource is listed twice; the style comes before everything   *)
(* else, and a TileJSON before its tiles; a download that is not active has nothing to do; if   *)
(* there are more requests than slots they are for TileJSONs; and the count is called precise   *)
(* when the style is there and no TileJSON that can be converted is awaited.                    *)
Once(d) ==
    \A x : /\ OnceAtMost(d.work, x) /\ OnceAtMost(d.remaining, x)
           /\ In(d.work, x) => x \notin d.fetching
           /\ Out(d, x) => ~In(d.remaining, x)

StyleFirst(d) ==
    /\ Out(d, Style) =>
          /\ \/ d.work = <<Style>> /\ d.fetching = {}
             \/ d.work = <<>> /\ d.fetching = {Style}
          /\ d.remaining = <<>> /\ d.completed = 0 /\ d.required = 1
    /\ ~In(d.remaining, Style)

SourceFirst(d) ==
    \A x : /\ Awaited(d, x) => ~Listed(d, x)
           /\ x \in ToSet(Sources) => ~In(d.remaining, x)

Metered(d) == Outstanding(d) =< MaxConcurrent \/ \A x : Out(d, x) => x \in ToSet(Sources)

MissingKnown(d) ==
    /\ Out(d, Style) => ~d.precise
    /\ \A s \in Readable : Out(d, s) => s \in d.missing
    /\ d.active /\ d.precise => d.missing = {}

Sound(d) ==
    /\ d \in DownloadType /\ IsFiniteSet(d.fetching)
    /\ Once(d) /\ StyleFirst(d) /\ SourceFirst(d)
    /\ ~d.active => Unlisted(d)
    /\ Metered(d) /\ MissingKnown(d)

(* What the database knows. *)
Database ==
    /\ buffer \in Seq(Resources)
    /\ stored \subseteq Resources /\ marked \subseteq stored /\ IsFiniteSet(marked)
    /\ tileCount \in Nat \cup {Unknown} /\ tileLimit \in TileLimits
    /\ sessions \in 0..MaxSessions /\ failures \in 0..MaxFailures

(* The count that is required is that of the resources that are counted, wait in the buffer b  *)
(* or are listed; a batch that is lost (f failures) is never made up for.                      *)
Tally(d, b) == d.completed + Len(b) + (Outstanding(d) + Len(d.remaining))
Balanced(d, b, f) == IF f = 0 THEN d.required = Tally(d, b) ELSE d.required > Tally(d, b)

(* Where resource x is, if not among those of the region, m. *)
Whereabouts(d, b, x) ==
    \/ In(b, x) \/ Listed(d, x)
    \/ x # Style /\ Out(d, Style)
    \/ Awaited(d, x)
Traced(d, b, m) == \A x \in Resources : x \in m \/ Whereabouts(d, b, x)

(* In the first session, in which nothing else is in the buffer. *)
Kept(d, b, m, f) ==
    IF d.active
    THEN Balanced(d, b, f) /\ (f = 0 => Traced(d, b, m))
    ELSE d.completed >= d.required => Resources \subseteq m

FirstSession ==
    /\ sessions = 0 => ~download.active /\ buffer = <<>> /\ failures = 0
    /\ sessions = 1 => Kept(download, buffer, marked, failures)

(* The cached count of tiles covers the table, if no tile was there before. *)
Covered ==
    Ambient \cap MapboxTiles = {} =>
        /\ stored \cap MapboxTiles \subseteq marked
        /\ tileCount # Unknown => Cardinality(marked \cap MapboxTiles) =< tileCount

IInv == Sound(download) /\ Database /\ FirstSession /\ Covered

----------------------------------------------------------------------------
(***************************************************************************)
(* The resources and their lists.                                           *)
(***************************************************************************)
LEMMA Names ==
    /\ Style \in Resources /\ IsFiniteSet(MapboxTiles) /\ MapboxTiles \subseteq Resources
    /\ Sources \in Seq(Resources) /\ InlineTiles \in Seq(Resources) /\ Files \in Seq(Resources)
    /\ Readable \subseteq ToSet(Sources) /\ Style \notin ToSet(Sources)
    /\ \A x : /\ OnceAtMost(Sources, x) /\ OnceAtMost(InlineTiles, x) /\ OnceAtMost(Files, x)
              /\ In(Sources, x) <=> x \in ToSet(Sources)
              /\ ~(In(InlineTiles, x) /\ In(Files, x))
              /\ In(InlineTiles, x) \/ In(Files, x) => x # Style /\ x \notin ToSet(Sources)
    /\ \A s \in Readable :
          /\ SourceTiles[s] \in Seq(Resources)
          /\ \A x : /\ OnceAtMost(SourceTiles[s], x)
                    /\ In(SourceTiles[s], x) <=> x \in ToSet(SourceTiles[s])
                    /\ In(SourceTiles[s], x) => /\ ~In(InlineTiles, x) /\ ~In(Files, x)
                                                /\ x # Style /\ x \notin ToSet(Sources)
          /\ \A t \in Readable : t # s => \A x \in ToSet(SourceTiles[s]) : x \notin ToSet(SourceTiles[t])
    /\ \A x \in Resources : \/ x = Style \/ x \in ToSet(Sources)
                            \/ In(InlineTiles, x) \/ In(Files, x)
                            \/ \E s \in Readable : x \in ToSet(SourceTiles[s])
    /\ MaxConcurrent \in Nat \ {0} /\ BatchSize \in Nat \ {0} /\ Unknown \notin Nat
<1>1. ASSUME NEW names \in {Sources, InlineTiles, Files} \cup {SourceTiles[s] : s \in Readable}
      PROVE  /\ names \in Seq(ToSet(names)) /\ IsFiniteSet(ToSet(names))
             /\ \A y : y \in ToSet(names) <=> In(names, y)
             /\ \A y : OnceAtMost(names, y)
    <2>1. names \in Seq(ToSet(names)) /\ IsInjective(names)
        BY OfflineDownloadAssumption
    <2> QED BY <2>1, ToSetFacts
<1>2. /\ InlineTiles \in Seq(ToSet(InlineTiles)) /\ Files \in Seq(ToSet(Files))
      /\ Sources \in Seq(ToSet(Sources))
      /\ IsFiniteSet(ToSet(InlineTiles)) /\ IsFiniteSet(ToSet(Sources))
      /\ \A y : /\ y \in ToSet(InlineTiles) <=> In(InlineTiles, y)
                /\ y \in ToSet(Sources) <=> In(Sources, y)
                /\ y \in ToSet(Files) <=> In(Files, y)
                /\ OnceAtMost(InlineTiles, y) /\ OnceAtMost(Sources, y) /\ OnceAtMost(Files, y)
    BY <1>1
<1>3. ASSUME NEW s \in Readable
      PROVE  /\ SourceTiles[s] \in Seq(ToSet(SourceTiles[s])) /\ IsFiniteSet(ToSet(SourceTiles[s]))
             /\ \A y : /\ y \in ToSet(SourceTiles[s]) <=> In(SourceTiles[s], y)
                       /\ OnceAtMost(SourceTiles[s], y)
    <2>1. SourceTiles[s] \in {Sources, InlineTiles, Files} \cup {SourceTiles[t] : t \in Readable}
        OBVIOUS
    <2> QED BY <1>1, <2>1
<1> DEFINE U == UNION {ToSet(SourceTiles[s]) : s \in Readable}
<1>4. /\ Style \notin ToSet(Sources) \cup Tiles \cup ToSet(Files)
      /\ ToSet(Sources) \cap (Tiles \cup ToSet(Files)) = {} /\ Tiles \cap ToSet(Files) = {}
      /\ Readable \subseteq ToSet(Sources)
    BY OfflineDownloadAssumption
<1>5. ASSUME NEW s \in Readable
      PROVE  /\ ToSet(SourceTiles[s]) \cap ToSet(InlineTiles) = {}
             /\ \A t \in Readable \ {s} : ToSet(SourceTiles[s]) \cap ToSet(SourceTiles[t]) = {}
    BY OfflineDownloadAssumption
<1>6. Tiles = ToSet(InlineTiles) \cup U /\ MapboxTiles \subseteq Tiles
    BY OfflineDownloadAssumption DEF Tiles
<1>7. Resources = {Style} \cup ToSet(Sources) \cup Tiles \cup ToSet(Files)
    BY DEF Resources
<1>8. \A s \in Readable : ToSet(SourceTiles[s]) \subseteq U
    OBVIOUS
<1>9. IsFiniteSet(U)
    <2> DEFINE f == [s \in Readable |-> ToSet(SourceTiles[s])]
               T == {ToSet(SourceTiles[s]) : s \in Readable}
    <2>1. IsFiniteSet(Readable)
        BY <1>2, <1>4, FS_Subset
    <2>2. f \in Surjection(Readable, T)
        BY DEF Surjection
    <2>3. IsFiniteSet(T)
        BY <2>1, <2>2, FS_Surjection
    <2>4. \A t \in T : IsFiniteSet(t)
        BY <1>3
    <2> QED BY <2>3, <2>4, FS_UNION
<1>10. \A x : x \in U => \E s \in Readable : x \in ToSet(SourceTiles[s])
    OBVIOUS
<1> HIDE DEF U
<1>11. IsFiniteSet(MapboxTiles) /\ MapboxTiles \subseteq Resources
    <2>1. IsFiniteSet(ToSet(InlineTiles) \cup U)
        BY <1>2, <1>9, FS_Union
    <2> QED BY <1>6, <1>7, <2>1, FS_Subset
<1>12. /\ Sources \in Seq(Resources) /\ InlineTiles \in Seq(Resources) /\ Files \in Seq(Resources)
       /\ Style \in Resources
    BY <1>2, <1>6, <1>7
<1>13. \A x : /\ ~(In(InlineTiles, x) /\ In(Files, x))
              /\ In(InlineTiles, x) \/ In(Files, x) => x # Style /\ x \notin ToSet(Sources)
    BY <1>2, <1>4, <1>6
<1>14. ASSUME NEW s \in Readable
       PROVE  /\ SourceTiles[s] \in Seq(Resources)
              /\ \A x : In(SourceTiles[s], x) => /\ ~In(InlineTiles, x) /\ ~In(Files, x)
                                                 /\ x # Style /\ x \notin ToSet(Sources)
              /\ \A t \in Readable : t # s =>
                    \A x \in ToSet(SourceTiles[s]) : x \notin ToSet(SourceTiles[t])
    <2>1. ToSet(SourceTiles[s]) \subseteq Tiles /\ ToSet(SourceTiles[s]) \subseteq Resources
        BY <1>6, <1>7, <1>8
    <2>2. SourceTiles[s] \in Seq(Resources)
        BY <1>3, <2>1
    <2>3. \A x : In(SourceTiles[s], x) => /\ ~In(InlineTiles, x) /\ ~In(Files, x)
                                          /\ x # Style /\ x \notin ToSet(Sources)
        BY <1>2, <1>3, <1>4, <1>5, <2>1
    <2>4. ASSUME NEW t \in Readable, t # s, NEW x \in ToSet(SourceTiles[s])
          PROVE  x \notin ToSet(SourceTiles[t])
        BY <1>5, <2>4
    <2> QED BY <2>2, <2>3, <2>4
<1>15. \A x \in Resources : \/ x = Style \/ x \in ToSet(Sources)
                            \/ In(InlineTiles, x) \/ In(Files, x)
                            \/ \E s \in Readable : x \in ToSet(SourceTiles[s])
    BY <1>2, <1>6, <1>7, <1>10
<1>16. MaxConcurrent \in Nat \ {0} /\ BatchSize \in Nat \ {0} /\ Unknown \notin Nat
    BY OfflineDownloadAssumption
<1> QED BY <1>2, <1>3, <1>4, <1>11, <1>12, <1>13, <1>14, <1>15, <1>16

(* The members of a download. *)
LEMMA Members ==
    ASSUME NEW d, Sound(d)
    PROVE  /\ d \in DownloadType
           /\ d.active \in BOOLEAN /\ d.completed \in Nat /\ d.required \in Nat
           /\ d.remaining \in Seq(Resources) /\ Len(d.remaining) \in Nat
           /\ d.work \in Seq(Resources) /\ Len(d.work) \in Nat
           /\ d.fetching \subseteq Resources /\ IsFiniteSet(d.fetching)
           /\ Cardinality(d.fetching) \in Nat /\ Outstanding(d) \in Nat
           /\ Outstanding(d) = Len(d.work) + Cardinality(d.fetching)
<1>1. /\ d.active \in BOOLEAN /\ d.completed \in Nat /\ d.required \in Nat
      /\ d.remaining \in Seq(Resources) /\ d.work \in Seq(Resources)
      /\ d.fetching \subseteq Resources /\ IsFiniteSet(d.fetching)
    BY DEF Sound, DownloadType
<1>2. Len(d.remaining) \in Nat /\ Len(d.work) \in Nat /\ Cardinality(d.fetching) \in Nat
    BY <1>1, FS_CardinalityType
<1> QED BY <1>1, <1>2 DEF Sound, Outstanding

(* What a list says of Awaited and of the meter depends on its requests alone. *)
LEMMA SameRequests ==
    ASSUME NEW d, NEW e, \A x : Out(e, x) => Out(d, x)
    PROVE  \A x : Awaited(e, x) => Awaited(d, x)
BY DEF Awaited

(* A download without lists. *)
LEMMA NothingListed ==
    ASSUME NEW d \in DownloadType, Unlisted(d), d.active /\ d.precise => d.missing = {}
    PROVE  Sound(d) /\ Outstanding(d) = 0 /\ \A x : ~Listed(d, x)
<1>1. IsFiniteSet({}) /\ Cardinality({}) = 0 /\ Len(<<>>) = 0
    BY FS_EmptySet
<1>2. d.fetching = {} /\ d.work = <<>> /\ d.remaining = <<>>
    BY DEF Unlisted
<1>3. Outstanding(d) = 0 /\ IsFiniteSet(d.fetching)
    BY <1>1, <1>2 DEF Outstanding
<1>4. \A x : ~Listed(d, x) /\ OnceAtMost(d.work, x) /\ OnceAtMost(d.remaining, x)
    BY <1>2, EmptyIn DEF Listed, Out
<1>5. Once(d) /\ StyleFirst(d) /\ SourceFirst(d) /\ MissingKnown(d)
    BY <1>4 DEF Once, StyleFirst, SourceFirst, MissingKnown, Listed, Out
<1>6. Metered(d)
    BY <1>4 DEF Metered, Listed
<1> QED BY <1>3, <1>4, <1>5, <1>6 DEF Sound

LEMMA DeactivatedFacts ==
    ASSUME NEW d, Sound(d)
    PROVE  LET e == Deactivated(d)
           IN  /\ Sound(e) /\ Unlisted(e) /\ ~e.active
               /\ e.completed = d.completed /\ e.required = d.required /\ e.precise = d.precise
<1> DEFINE e == Deactivated(d)
<1>1. /\ e \in DownloadType /\ e.active = FALSE /\ e.work = <<>> /\ e.fetching = {}
      /\ e.remaining = <<>> /\ e.completed = d.completed /\ e.required = d.required
      /\ e.precise = d.precise
    <2>1. e = [d EXCEPT !.active = FALSE, !.missing = {}, !.remaining = <<>>, !.work = <<>>,
                        !.fetching = {}]
        BY DEF Deactivated
    <2>2. /\ d \in DownloadType /\ {} \in SUBSET Resources /\ <<>> \in Seq(Resources)
          /\ FALSE \in BOOLEAN
        BY DEF Sound
    <2> HIDE DEF e
    <2> QED BY <2>1, <2>2 DEF DownloadType
<1> HIDE DEF e
<1>2. Unlisted(e)
    BY <1>1 DEF Unlisted
<1> QED BY <1>1, <1>2, NothingListed DEF e

(* When the style is listed it is the only one: once another resource is taken, or the style   *)
(* itself, it is gone.                                                                         *)
LEMMA StyleOnly ==
    ASSUME NEW d, Sound(d), Out(d, Style)
    PROVE  /\ \A x : Listed(d, x) => x = Style
           /\ Outstanding(d) = 1 /\ d.remaining = <<>> /\ d.completed = 0 /\ d.required = 1
<1>1. /\ \/ d.work = <<Style>> /\ d.fetching = {}
         \/ d.work = <<>> /\ d.fetching = {Style}
      /\ d.remaining = <<>> /\ d.completed = 0 /\ d.required = 1
    BY DEF Sound, StyleFirst
<1>2. Len(<<>>) = 0 /\ Len(<<Style>>) = 1 /\ <<Style>>[1] = Style /\ Cardinality({}) = 0
      /\ Cardinality({Style}) = 1
    BY FS_EmptySet, FS_Singleton
<1>3. Outstanding(d) = 1
    <2>1. CASE d.work = <<Style>> /\ d.fetching = {}
        BY <1>2, <2>1 DEF Outstanding
    <2>2. CASE d.work = <<>> /\ d.fetching = {Style}
        BY <1>2, <2>2 DEF Outstanding
    <2> QED BY <1>1, <2>1, <2>2
<1>4. ASSUME NEW x, Listed(d, x) PROVE x = Style
    <2>1. \A i \in 1..1 : i = 1
        OBVIOUS
    <2> QED BY <1>1, <1>2, <1>4, <2>1, EmptyIn DEF Listed, Out, In
<1> QED BY <1>1, <1>3, <1>4

(* Completing resources. *)
LEMMA CompletedFacts ==
    ASSUME NEW d, Sound(d), ~Out(d, Style), NEW n \in Nat
    PROVE  LET e == [d EXCEPT !.completed = @ + n]
           IN  /\ Sound(e) /\ e.active = d.active /\ e.completed = d.completed + n
               /\ e.required = d.required /\ e.remaining = d.remaining /\ e.work = d.work
               /\ e.fetching = d.fetching /\ e.precise = d.precise
<1> DEFINE e == [d EXCEPT !.completed = @ + n]
<1>1. d.completed + n \in Nat
    BY Members
<1>2. /\ e \in DownloadType /\ e.active = d.active /\ e.completed = d.completed + n
      /\ e.required = d.required /\ e.remaining = d.remaining /\ e.work = d.work
      /\ e.fetching = d.fetching /\ e.precise = d.precise /\ e.missing = d.missing
    BY <1>1 DEF Sound, DownloadType
<1> HIDE DEF e
<1>3. \A x : (Out(e, x) <=> Out(d, x)) /\ (Listed(e, x) <=> Listed(d, x))
    BY <1>2 DEF Out, Listed
<1>4. Once(e) /\ StyleFirst(e) /\ SourceFirst(e) /\ MissingKnown(e)
    BY <1>2, <1>3, SameRequests DEF Sound, Once, StyleFirst, SourceFirst, MissingKnown
<1>5. /\ Outstanding(e) = Outstanding(d) /\ IsFiniteSet(e.fetching)
      /\ ~e.active => Unlisted(e)
    BY <1>2 DEF Sound, Outstanding, Unlisted
<1>6. Sound(e)
    BY <1>2, <1>3, <1>4, <1>5 DEF Sound, Metered
<1> QED BY <1>2, <1>6 DEF e

(* continueDownload() moves resources from one list to the next, or ends the download. *)
LEMMA ContinuedFacts ==
    ASSUME NEW d, Sound(d)
    PROVE  LET e == Continued(d)
           IN  /\ Sound(e) /\ e.completed = d.completed /\ e.required = d.required
               /\ e.fetching \subseteq d.fetching /\ e.precise = d.precise
               /\ \/ ~e.active /\ d.remaining = <<>> /\ d.completed >= d.required
                  \/ /\ e.active = d.active
                     /\ Outstanding(e) + Len(e.remaining) = Outstanding(d) + Len(d.remaining)
                     /\ \A x : (Listed(e, x) <=> Listed(d, x)) /\ (Out(d, x) => Out(e, x))
<1>1. CASE d.remaining = <<>> /\ d.completed >= d.required
    <2>1. Continued(d) = Deactivated(d)
        BY <1>1 DEF Continued
    <2> QED BY <1>1, <2>1, DeactivatedFacts DEF Unlisted
<1>2. CASE ~(d.remaining = <<>> /\ d.completed >= d.required)
    <2> DEFINE free == IF Outstanding(d) < MaxConcurrent THEN MaxConcurrent - Outstanding(d) ELSE 0
               n == IF Len(d.remaining) < free THEN Len(d.remaining) ELSE free
               before == SubSeq(d.remaining, 1, n)
               after == SubSeq(d.remaining, n + 1, Len(d.remaining))
               work == d.work \o before
               e == [d EXCEPT !.work = work, !.remaining = after]
    <2>1. Continued(d) = e
        BY <1>2 DEF Continued
    <2>2. n \in 0..Len(d.remaining) /\ (n = 0 \/ n =< MaxConcurrent - Outstanding(d))
        BY Members, Names
    <2> HIDE DEF free, n
    <2>3. /\ before \in Seq(Resources) /\ after \in Seq(Resources)
          /\ Len(before) = n /\ Len(after) = Len(d.remaining) - n
          /\ \A y : In(d.remaining, y) <=> In(before, y) \/ In(after, y)
          /\ \A y : OnceAtMost(d.remaining, y) =>
                       /\ OnceAtMost(before, y) /\ OnceAtMost(after, y)
                       /\ ~(In(before, y) /\ In(after, y))
        BY <2>2, Members, SplitFacts
    <2> HIDE DEF before, after
    <2>4. /\ work \in Seq(Resources) /\ Len(work) = Len(d.work) + n
          /\ \A y : In(work, y) <=> In(d.work, y) \/ In(before, y)
          /\ \A y : OnceAtMost(d.work, y) /\ OnceAtMost(before, y) /\ ~(In(d.work, y) /\ In(before, y))
                       => OnceAtMost(work, y)
        <3>1. d.work \in Seq(Resources) /\ before \in Seq(Resources)
            BY <2>3, Members
        <3>2. work \in Seq(Resources) /\ Len(work) = Len(d.work) + Len(before)
            BY ONLY <3>1, ConcatFacts
        <3>3. /\ \A y : In(work, y) <=> In(d.work, y) \/ In(before, y)
              /\ \A y : OnceAtMost(d.work, y) /\ OnceAtMost(before, y) /\ ~(In(d.work, y) /\ In(before, y))
                           => OnceAtMost(work, y)
            BY ONLY <3>1, ConcatIn
        <3> QED BY <2>3, <3>2, <3>3
    <2> HIDE DEF work
    <2>5. /\ e \in DownloadType /\ e.work = work /\ e.remaining = after /\ e.fetching = d.fetching
          /\ e.active = d.active /\ e.completed = d.completed /\ e.required = d.required
          /\ e.precise = d.precise /\ e.missing = d.missing
        BY <2>3, <2>4 DEF Sound, DownloadType
    <2> HIDE DEF e
    <2>6. Outstanding(e) = Outstanding(d) + n /\ Outstanding(e) \in Nat
        <3>1. Outstanding(e) = Len(work) + Cardinality(d.fetching)
            BY <2>5 DEF Outstanding
        <3> QED BY <2>2, <2>4, <3>1, Members
    <2>7. \A x : /\ Out(e, x) <=> Out(d, x) \/ In(before, x)
                 /\ Listed(e, x) <=> Listed(d, x)
                 /\ In(e.remaining, x) <=> In(after, x)
                 /\ In(after, x) => In(d.remaining, x)
                 /\ In(before, x) => In(d.remaining, x)
        BY <2>3, <2>4, <2>5 DEF Out, Listed
    <2>8. Once(e)
        <3> SUFFICES ASSUME NEW x
                     PROVE  /\ OnceAtMost(work, x) /\ OnceAtMost(after, x)
                            /\ In(work, x) => x \notin d.fetching
                            /\ Out(e, x) => ~In(after, x)
            BY <2>5 DEF Once
        <3>1. /\ OnceAtMost(d.work, x) /\ OnceAtMost(d.remaining, x)
              /\ In(d.work, x) => x \notin d.fetching
              /\ Out(d, x) => ~In(d.remaining, x)
            BY DEF Sound, Once
        <3>2. OnceAtMost(after, x) /\ OnceAtMost(before, x) /\ ~(In(before, x) /\ In(after, x))
            BY <2>3, <3>1
        <3>3. OnceAtMost(work, x)
            BY <2>4, <2>7, <3>1, <3>2 DEF Out
        <3>4. In(work, x) => x \notin d.fetching
            BY <2>4, <2>7, <3>1 DEF Out
        <3>5. Out(e, x) => ~In(after, x)
            BY <2>7, <3>1, <3>2
        <3> QED BY <3>2, <3>3, <3>4, <3>5
    <2>9. StyleFirst(e)
        <3>1. ~In(before, Style) /\ ~In(after, Style)
            BY <2>7 DEF Sound, StyleFirst
        <3>2. ASSUME Out(e, Style) PROVE e.work = d.work /\ e.remaining = <<>> /\ Out(d, Style)
            <4>1. Out(d, Style) /\ d.remaining = <<>>
                BY <2>7, <3>1, <3>2 DEF Sound, StyleFirst
            <4>2. n = 0 /\ Len(after) = 0
                BY <2>2, <2>3, <4>1
            <4>3. after = <<>> /\ before = <<>> /\ d.work \in Seq(Resources)
                BY <2>3, <4>2, Members
            <4>4. work = d.work
                BY <4>3 DEF work
            <4> QED BY <2>5, <4>1, <4>3, <4>4
        <3> QED BY <2>5, <2>7, <3>1, <3>2 DEF Sound, StyleFirst
    <2>10. SourceFirst(e) /\ MissingKnown(e)
        <3>1. \A x \in ToSet(Sources) : ~In(d.remaining, x)
            BY DEF Sound, SourceFirst
        <3>2. \A s \in Readable : Out(e, s) => Out(d, s)
            BY <2>7, <3>1, Names
        <3>3. \A x : Awaited(e, x) => Awaited(d, x)
            BY <3>2 DEF Awaited
        <3>4. SourceFirst(e)
            BY <2>7, <3>3 DEF Sound, SourceFirst
        <3>5. ~In(before, Style)
            BY <2>7 DEF Sound, StyleFirst
        <3> QED BY <2>5, <2>7, <3>2, <3>4, <3>5 DEF Sound, MissingKnown
    <2>11. ~e.active => Unlisted(e)
        <3> SUFFICES ASSUME ~e.active PROVE Unlisted(e)
            OBVIOUS
        <3>1. d.work = <<>> /\ d.fetching = {} /\ d.remaining = <<>>
            BY <2>5 DEF Sound, Unlisted
        <3>2. Len(work) = 0 /\ Len(after) = 0
            BY <2>2, <2>3, <2>4, <3>1
        <3> QED BY <2>3, <2>4, <2>5, <3>1, <3>2 DEF Unlisted
    <2>12. Sound(e)
        <3>1. Metered(e)
            <4>1. CASE n = 0
                <5>1. before = <<>>
                    BY <2>3, <4>1
                <5>2. Outstanding(e) = Outstanding(d) /\ \A x : Out(e, x) => Out(d, x)
                    BY <2>6, <2>7, <4>1, <5>1, Members, EmptyIn
                <5> QED BY <5>2 DEF Sound, Metered
            <4>2. CASE n =< MaxConcurrent - Outstanding(d)
                BY <2>2, <2>6, <4>2, Members, Names DEF Metered
            <4> QED BY <2>2, <4>1, <4>2
        <3> QED BY <2>5, <2>8, <2>9, <2>10, <2>11, <3>1, Members DEF Sound
    <2>13. Outstanding(e) + Len(e.remaining) = Outstanding(d) + Len(d.remaining)
        BY <2>2, <2>3, <2>5, <2>6, Members
    <2> QED BY <2>1, <2>5, <2>7, <2>12, <2>13
<1> QED BY <1>1, <1>2

(* When nothing is left to count, everything is there. *)
LEMMA AllThere ==
    ASSUME NEW d, Sound(d), NEW b \in Seq(Resources), NEW m, NEW f, Balanced(d, b, f),
           f = 0 => Traced(d, b, m), d.completed >= d.required
    PROVE  Resources \subseteq m
<1>1. /\ f = 0 /\ Len(b) = 0 /\ Outstanding(d) = 0 /\ Len(d.remaining) = 0
      /\ Len(d.work) = 0 /\ Cardinality(d.fetching) = 0
    <2>1. Len(b) \in Nat
        OBVIOUS
    <2> QED BY <2>1, Members DEF Balanced, Tally
<1>2. b = <<>> /\ Unlisted(d)
    BY <1>1, Members, FS_EmptySet DEF Unlisted
<1>3. \A x : ~Listed(d, x) /\ ~Out(d, x) /\ ~In(b, x)
    BY <1>2, EmptyIn DEF Unlisted, Listed, Out
<1> QED BY <1>1, <1>3 DEF Traced, Whereabouts, Awaited

LEMMA DeactivatedKept ==
    ASSUME NEW d, Sound(d), d.active, NEW b \in Seq(Resources), NEW m, NEW f, Kept(d, b, m, f), NEW c
    PROVE  Kept(Deactivated(d), c, m, f)
<1>1. d.completed >= d.required => Resources \subseteq m
    BY AllThere DEF Kept
<1> QED BY <1>1, DeactivatedFacts DEF Kept

LEMMA ContinuedKept ==
    ASSUME NEW d, Sound(d), NEW b \in Seq(Resources), NEW m, NEW f, Kept(d, b, m, f)
    PROVE  Kept(Continued(d), b, m, f)
<1> DEFINE e == Continued(d)
<1>1. /\ Sound(e) /\ e.completed = d.completed /\ e.required = d.required
      /\ \/ ~e.active /\ d.remaining = <<>> /\ d.completed >= d.required
         \/ /\ e.active = d.active
            /\ Outstanding(e) + Len(e.remaining) = Outstanding(d) + Len(d.remaining)
            /\ \A x : (Listed(e, x) <=> Listed(d, x)) /\ (Out(d, x) => Out(e, x))
    BY ContinuedFacts
<1> HIDE DEF e
<1>2. CASE ~e.active /\ d.completed >= d.required
    <2>1. Resources \subseteq m
        BY <1>2, AllThere DEF Kept
    <2> QED BY <1>2, <2>1 DEF Kept, e
<1>3. CASE ~e.active /\ e.active = d.active
    BY <1>1, <1>3 DEF Kept, e
<1>4. CASE /\ e.active /\ e.active = d.active
           /\ Outstanding(e) + Len(e.remaining) = Outstanding(d) + Len(d.remaining)
           /\ \A x : (Listed(e, x) <=> Listed(d, x)) /\ (Out(d, x) => Out(e, x))
    <2>1. Tally(e, b) = Tally(d, b)
        <3>1. Len(b) \in Nat
            OBVIOUS
        <3>2. /\ Outstanding(e) \in Nat /\ Len(e.remaining) \in Nat /\ Outstanding(d) \in Nat
              /\ Len(d.remaining) \in Nat /\ d.completed \in Nat
            BY <1>1, Members
        <3>3. e.completed = d.completed
            BY <1>1
        <3>4. Outstanding(e) + Len(e.remaining) = Outstanding(d) + Len(d.remaining)
            BY <1>4
        <3> QED BY <3>3, <3>4 DEF Tally
    <2>2. Balanced(e, b, f)
        BY <1>1, <1>4, <2>1 DEF Kept, Balanced
    <2>3. f = 0 => Traced(e, b, m)
        BY <1>4, SameRequests DEF Kept, Traced, Whereabouts
    <2> QED BY <1>4, <2>2, <2>3 DEF Kept, e
<1> QED BY <1>1, <1>2, <1>3, <1>4

(* Resources that are listed nowhere are queued. *)
LEMMA QueuedFacts ==
    ASSUME NEW d, Sound(d), d.active, ~Out(d, Style),
           NEW tiles,
           \A x : In(tiles, x) =>
                     ~Listed(d, x) /\ ~Awaited(d, x) /\ x # Style /\ x \notin ToSet(Sources),
           NEW e \in DownloadType, e.active = d.active, e.work = d.work, e.fetching = d.fetching,
           e.precise = d.precise, e.missing = d.missing,
           \A x : /\ In(e.remaining, x) <=> In(d.remaining, x) \/ In(tiles, x)
                  /\ OnceAtMost(e.remaining, x)
    PROVE  /\ Sound(e) /\ Outstanding(e) = Outstanding(d)
           /\ \A x : /\ Out(e, x) <=> Out(d, x)
                     /\ Listed(e, x) <=> Listed(d, x) \/ In(tiles, x)
<1>1. \A x : /\ Out(e, x) <=> Out(d, x)
             /\ Listed(e, x) <=> Listed(d, x) \/ In(tiles, x)
    BY DEF Out, Listed
<1>2. Outstanding(e) = Outstanding(d)
    BY DEF Outstanding
<1>3. Once(e)
    BY <1>1 DEF Sound, Once, Listed
<1>4. StyleFirst(e)
    BY <1>1 DEF Sound, StyleFirst
<1>5. SourceFirst(e) /\ MissingKnown(e) /\ Metered(e)
    BY <1>1, <1>2, SameRequests DEF Sound, SourceFirst, MissingKnown, Metered
<1> QED BY <1>1, <1>2, <1>3, <1>4, <1>5 DEF Sound

LEMMA WithTilesFacts ==
    ASSUME NEW d, Sound(d), d.active, ~Out(d, Style), NEW tiles \in Seq(Resources),
           \A x : In(tiles, x) =>
                     ~Listed(d, x) /\ ~Awaited(d, x) /\ x # Style /\ x \notin ToSet(Sources),
           \A x : OnceAtMost(tiles, x)
    PROVE  LET e == WithTiles(d, tiles)
           IN  /\ Sound(e) /\ e.active /\ e.completed = d.completed
               /\ e.required = d.required + Len(tiles) /\ e.fetching = d.fetching
               /\ e.missing = d.missing /\ e.precise = d.precise
               /\ Outstanding(e) = Outstanding(d) /\ Len(e.remaining) = Len(d.remaining) + Len(tiles)
               /\ \A x : /\ Out(e, x) <=> Out(d, x)
                         /\ Listed(e, x) <=> Listed(d, x) \/ In(tiles, x)
<1> DEFINE rest == d.remaining \o tiles
           e == WithTiles(d, tiles)
<1>1. d.remaining \in Seq(Resources) /\ d.required + Len(tiles) \in Nat
    BY Members
<1>2. /\ rest \in Seq(Resources) /\ Len(rest) = Len(d.remaining) + Len(tiles)
      /\ \A x : In(rest, x) <=> In(d.remaining, x) \/ In(tiles, x)
      /\ \A x : OnceAtMost(d.remaining, x) /\ OnceAtMost(tiles, x) /\ ~(In(d.remaining, x) /\ In(tiles, x))
                   => OnceAtMost(rest, x)
    <2>1. rest \in Seq(Resources) /\ Len(rest) = Len(d.remaining) + Len(tiles)
        BY ONLY <1>1, tiles \in Seq(Resources), ConcatFacts
    <2>2. /\ \A x : In(rest, x) <=> In(d.remaining, x) \/ In(tiles, x)
          /\ \A x : OnceAtMost(d.remaining, x) /\ OnceAtMost(tiles, x) /\ ~(In(d.remaining, x) /\ In(tiles, x))
                       => OnceAtMost(rest, x)
        BY ONLY <1>1, tiles \in Seq(Resources), ConcatIn
    <2> QED BY <2>1, <2>2
<1>3. e = [d EXCEPT !.required = d.required + Len(tiles), !.remaining = rest]
    BY DEF WithTiles
<1> HIDE DEF rest, e
<1>4. /\ e \in DownloadType /\ e.active = d.active /\ e.work = d.work /\ e.fetching = d.fetching
      /\ e.completed = d.completed /\ e.required = d.required + Len(tiles) /\ e.remaining = rest
      /\ e.missing = d.missing /\ e.precise = d.precise
    BY <1>1, <1>2, <1>3 DEF Sound, DownloadType
<1>5. \A x : /\ In(e.remaining, x) <=> In(d.remaining, x) \/ In(tiles, x)
             /\ OnceAtMost(e.remaining, x)
    BY <1>2, <1>4 DEF Sound, Once, Listed
<1>6. /\ Sound(e) /\ Outstanding(e) = Outstanding(d)
      /\ \A x : /\ Out(e, x) <=> Out(d, x)
                /\ Listed(e, x) <=> Listed(d, x) \/ In(tiles, x)
    BY <1>4, <1>5, QueuedFacts
<1> QED BY <1>2, <1>4, <1>6 DEF e

LEMMA WithFilesFacts ==
    ASSUME NEW d, Sound(d), d.active, ~Out(d, Style), NEW files \in Seq(Resources),
           \A x : In(files, x) =>
                     ~Listed(d, x) /\ ~Awaited(d, x) /\ x # Style /\ x \notin ToSet(Sources),
           \A x : OnceAtMost(files, x)
    PROVE  LET e == WithFiles(d, files)
           IN  /\ Sound(e) /\ e.active /\ e.completed = d.completed
               /\ e.required = d.required + Len(files) /\ e.fetching = d.fetching
               /\ e.missing = d.missing /\ e.precise = d.precise
               /\ Outstanding(e) = Outstanding(d) /\ Len(e.remaining) = Len(d.remaining) + Len(files)
               /\ \A x : /\ Out(e, x) <=> Out(d, x)
                         /\ Listed(e, x) <=> Listed(d, x) \/ In(files, x)
<1> DEFINE front == Reverse(files)
           rest == front \o d.remaining
           e == WithFiles(d, files)
<1>1. d.remaining \in Seq(Resources) /\ d.required + Len(files) \in Nat
    BY Members
<1>2. /\ front \in Seq(Resources) /\ Len(front) = Len(files)
      /\ \A x : In(front, x) <=> In(files, x)
      /\ \A x : OnceAtMost(front, x)
    BY ReverseFacts
<1> HIDE DEF front
<1>3. /\ rest \in Seq(Resources) /\ Len(rest) = Len(front) + Len(d.remaining)
      /\ \A x : In(rest, x) <=> In(front, x) \/ In(d.remaining, x)
      /\ \A x : OnceAtMost(front, x) /\ OnceAtMost(d.remaining, x) /\ ~(In(front, x) /\ In(d.remaining, x))
                   => OnceAtMost(rest, x)
    <2>0. front \in Seq(Resources)
        BY <1>2
    <2>1. rest \in Seq(Resources) /\ Len(rest) = Len(front) + Len(d.remaining)
        BY ONLY <1>1, <2>0, ConcatFacts
    <2>2. /\ \A x : In(rest, x) <=> In(front, x) \/ In(d.remaining, x)
          /\ \A x : OnceAtMost(front, x) /\ OnceAtMost(d.remaining, x) /\ ~(In(front, x) /\ In(d.remaining, x))
                       => OnceAtMost(rest, x)
        BY ONLY <1>1, <2>0, ConcatIn
    <2> QED BY <2>1, <2>2
<1>4. e = [d EXCEPT !.required = d.required + Len(files), !.remaining = rest]
    BY DEF WithFiles, front
<1> HIDE DEF rest, e
<1>5. /\ e \in DownloadType /\ e.active = d.active /\ e.work = d.work /\ e.fetching = d.fetching
      /\ e.completed = d.completed /\ e.required = d.required + Len(files) /\ e.remaining = rest
      /\ e.missing = d.missing /\ e.precise = d.precise
    BY <1>1, <1>3, <1>4 DEF Sound, DownloadType
<1>6. \A x : /\ In(e.remaining, x) <=> In(d.remaining, x) \/ In(files, x)
             /\ OnceAtMost(e.remaining, x)
    BY <1>2, <1>3, <1>5 DEF Sound, Once, Listed
<1>7. /\ Sound(e) /\ Outstanding(e) = Outstanding(d)
      /\ \A x : /\ Out(e, x) <=> Out(d, x)
                /\ Listed(e, x) <=> Listed(d, x) \/ In(files, x)
    BY <1>5, <1>6, QueuedFacts
<1>8. Len(e.remaining) = Len(d.remaining) + Len(files)
    BY <1>2, <1>3, <1>5, Members
<1> QED BY <1>5, <1>7, <1>8 DEF e

----------------------------------------------------------------------------
(***************************************************************************)
(* The callbacks of the style and the sources.                              *)
(***************************************************************************)

(* Resource r has been taken from the lists of d. *)
Taken(d, r) ==
    /\ Sound(d) /\ d.active
    /\ ~Listed(d, Style) /\ ~Listed(d, r)
    /\ r = Style => Unlisted(d) /\ d.completed = 0 /\ d.required = 1
    /\ r \in Readable => \A x \in ToSet(SourceTiles[r]) : ~Listed(d, x)

LEMMA StyleParsedFacts ==
    ASSUME NEW d, Taken(d, Style)
    PROVE  LET e == StyleParsed(d)
           IN  /\ Sound(e) /\ e.active /\ ~Out(e, Style) /\ e.completed = 0
               /\ e.fetching \subseteq d.fetching
               /\ e.required = 1 + (Outstanding(e) + Len(e.remaining))
               /\ \A x \in Resources : x # Style => Listed(e, x) \/ Awaited(e, x)
<1> DEFINE work == <<>> \o Sources
           extra == Len(Sources)
           w == [d EXCEPT !.precise = (Sources = <<>>), !.required = @ + Len(Sources),
                          !.missing = ToSet(Sources), !.work = @ \o Sources]
           t == WithTiles(w, InlineTiles)
           v == WithFiles(t, Files)
           e == StyleParsed(d)
<1>1. e = Continued(v)
    BY DEF StyleParsed
<1>2. /\ d \in DownloadType /\ d.active /\ d.completed = 0 /\ d.required = 1
      /\ d.work = <<>> /\ d.fetching = {} /\ d.remaining = <<>>
    BY DEF Taken, Sound, Unlisted
<1>3. /\ Sound(w) /\ w.active /\ w.completed = 0 /\ w.required = 1 + extra /\ w.fetching = {}
      /\ Outstanding(w) = extra /\ Len(w.remaining) = 0
      /\ \A x : /\ Out(w, x) <=> x \in ToSet(Sources)
                /\ Listed(w, x) <=> x \in ToSet(Sources)
    <2>1. <<>> \in Seq(Resources) /\ Sources \in Seq(Resources) /\ Len(<<>>) = 0
        BY Names
    <2>2. work \in Seq(Resources) /\ Len(work) = Len(<<>>) + extra /\ extra \in Nat
        BY ONLY <2>1, ConcatFacts
    <2>3. /\ \A x : In(work, x) <=> In(<<>>, x) \/ In(Sources, x)
          /\ \A x : OnceAtMost(<<>>, x) /\ OnceAtMost(Sources, x) /\ ~(In(<<>>, x) /\ In(Sources, x))
                       => OnceAtMost(work, x)
        BY ONLY <2>1, ConcatIn
    <2>4. \A x : (In(work, x) <=> x \in ToSet(Sources)) /\ OnceAtMost(work, x)
        BY <2>3, EmptyIn, Names
    <2>5. ToSet(Sources) \in SUBSET Resources /\ (Sources = <<>>) \in BOOLEAN /\ 1 + extra \in Nat
        BY <2>1, <2>2, ToSetFacts
    <2>6. w = [d EXCEPT !.precise = (Sources = <<>>), !.required = 1 + extra,
                        !.missing = ToSet(Sources), !.work = work]
        BY <1>2
    <2> HIDE DEF work, extra, w
    <2>7. /\ w \in DownloadType /\ w.active = d.active /\ w.completed = 0 /\ w.required = 1 + extra
          /\ w.work = work /\ w.fetching = {} /\ w.remaining = <<>>
          /\ w.missing = ToSet(Sources) /\ w.precise = (Sources = <<>>)
        BY <1>2, <2>2, <2>5, <2>6 DEF DownloadType
    <2>8. \A x : (Out(w, x) <=> x \in ToSet(Sources)) /\ (Listed(w, x) <=> x \in ToSet(Sources))
        BY <2>4, <2>7, EmptyIn DEF Out, Listed
    <2>9. Cardinality({}) = 0 /\ IsFiniteSet({})
        BY FS_EmptySet
    <2>10. Outstanding(w) = extra
        BY <2>1, <2>2, <2>7, <2>9 DEF Outstanding
    <2>11. Once(w)
        BY <2>4, <2>7, <2>8, EmptyIn DEF Once
    <2>12. StyleFirst(w)
        BY <2>7, <2>8, Names, EmptyIn DEF StyleFirst
    <2>13. SourceFirst(w)
        <3>1. ASSUME NEW x, Awaited(w, x) PROVE x \notin ToSet(Sources)
            BY <3>1, Names DEF Awaited
        <3> QED BY <2>7, <2>8, <3>1, EmptyIn DEF SourceFirst
    <2>14. Metered(w)
        BY <2>8 DEF Metered
    <2>15. MissingKnown(w)
        <3>1. w.precise => ToSet(Sources) = {}
            <4>1. ToSet(<<>>) = {}
                BY DEF ToSet
            <4> QED BY <2>7, <4>1
        <3> QED BY <2>7, <2>8, <3>1, Names DEF MissingKnown
    <2>16. Sound(w)
        BY <1>2, <2>7, <2>9, <2>11, <2>12, <2>13, <2>14, <2>15 DEF Sound
    <2> QED BY <1>2, <2>1, <2>7, <2>8, <2>10, <2>16
<1> HIDE DEF w
<1>4. \A x : Awaited(w, x) => ~In(InlineTiles, x) /\ ~In(Files, x)
    BY Names DEF Awaited
<1>5. /\ Sound(t) /\ t.active /\ t.completed = 0 /\ t.required = 1 + extra + Len(InlineTiles)
      /\ t.fetching = {}
      /\ Outstanding(t) = extra /\ Len(t.remaining) = Len(InlineTiles)
      /\ \A x : /\ Listed(t, x) <=> x \in ToSet(Sources) \/ In(InlineTiles, x)
                /\ Out(t, x) <=> Out(w, x)
    <2>1. ~Out(w, Style)
        BY <1>3, Names DEF Listed
    <2>2. \A x : In(InlineTiles, x) =>
                    ~Listed(w, x) /\ ~Awaited(w, x) /\ x # Style /\ x \notin ToSet(Sources)
        BY <1>3, <1>4, Names
    <2>3. InlineTiles \in Seq(Resources) /\ \A x : OnceAtMost(InlineTiles, x)
        BY Names
    <2>4. /\ Sound(t) /\ t.active /\ t.completed = w.completed /\ t.fetching = w.fetching
          /\ t.required = w.required + Len(InlineTiles)
          /\ Outstanding(t) = Outstanding(w) /\ Len(t.remaining) = Len(w.remaining) + Len(InlineTiles)
          /\ \A x : /\ Out(t, x) <=> Out(w, x)
                    /\ Listed(t, x) <=> Listed(w, x) \/ In(InlineTiles, x)
        BY <1>3, <2>1, <2>2, <2>3, WithTilesFacts
    <2>5. Len(InlineTiles) \in Nat
        BY <2>3
    <2> HIDE DEF t
    <2>6. Len(t.remaining) = Len(InlineTiles)
        BY <1>3, <2>4, <2>5
    <2> QED BY <1>3, <2>4, <2>6
<1> HIDE DEF t
<1>6. /\ Sound(v) /\ v.active /\ v.completed = 0 /\ v.fetching = {}
      /\ v.required = 1 + extra + Len(InlineTiles) + Len(Files)
      /\ Outstanding(v) = extra /\ Len(v.remaining) = Len(InlineTiles) + Len(Files)
      /\ \A x : /\ Listed(v, x) <=> x \in ToSet(Sources) \/ In(InlineTiles, x) \/ In(Files, x)
                /\ Out(v, x) <=> Out(w, x)
    <2>1. ~Out(t, Style)
        BY <1>3, <1>5, Names
    <2>2. \A x : In(Files, x) =>
                    ~Listed(t, x) /\ ~Awaited(t, x) /\ x # Style /\ x \notin ToSet(Sources)
        BY <1>4, <1>5, Names, SameRequests
    <2>3. Files \in Seq(Resources) /\ \A x : OnceAtMost(Files, x)
        BY Names
    <2>4. /\ Sound(v) /\ v.active /\ v.completed = t.completed /\ v.fetching = t.fetching
          /\ v.required = t.required + Len(Files)
          /\ Outstanding(v) = Outstanding(t) /\ Len(v.remaining) = Len(t.remaining) + Len(Files)
          /\ \A x : /\ Out(v, x) <=> Out(t, x)
                    /\ Listed(v, x) <=> Listed(t, x) \/ In(Files, x)
        BY <1>5, <2>1, <2>2, <2>3, WithFilesFacts
    <2> HIDE DEF v
    <2> QED BY <1>5, <2>4
<1> HIDE DEF v
<1>7. /\ Len(InlineTiles) \in Nat /\ Len(Files) \in Nat /\ extra \in Nat
    BY Names
<1> HIDE DEF extra
<1>8. ~(v.completed >= v.required)
    BY <1>6, <1>7
<1> HIDE DEF e
<1>9. /\ Sound(e) /\ e.completed = v.completed /\ e.required = v.required
      /\ e.active = v.active /\ e.fetching \subseteq v.fetching
      /\ Outstanding(e) + Len(e.remaining) = Outstanding(v) + Len(v.remaining)
      /\ \A x : (Listed(e, x) <=> Listed(v, x)) /\ (Out(v, x) => Out(e, x))
    <2>1. Sound(v)
        BY <1>6
    <2> QED BY ONLY <1>1, <1>8, <2>1, ContinuedFacts
<1>10. e.required = 1 + (Outstanding(e) + Len(e.remaining))
    <2>1. Outstanding(e) + Len(e.remaining) = extra + (Len(InlineTiles) + Len(Files))
        BY <1>6, <1>9
    <2>2. e.required = 1 + extra + Len(InlineTiles) + Len(Files)
        BY <1>6, <1>9
    <2> QED BY <1>7, <2>1, <2>2
<1>11. ~Out(e, Style)
    BY <1>6, <1>9, Names DEF Listed
<1>12. ASSUME NEW x \in Resources, x # Style PROVE Listed(e, x) \/ Awaited(e, x)
    <2>1. CASE x \in ToSet(Sources) \/ In(InlineTiles, x) \/ In(Files, x)
        BY <1>6, <1>9, <2>1
    <2>2. CASE \E s \in Readable : x \in ToSet(SourceTiles[s])
        <3>1. PICK s \in Readable : x \in ToSet(SourceTiles[s])
            BY <2>2
        <3>2. Out(e, s)
            BY <1>3, <1>6, <1>9, Names
        <3> QED BY <3>1, <3>2 DEF Awaited
    <2> QED BY <1>12, <2>1, <2>2, Names
<1>13. e.active /\ e.completed = 0 /\ e.fetching \subseteq d.fetching
    BY <1>6, <1>9
<1> QED BY <1>9, <1>10, <1>11, <1>12, <1>13 DEF e

LEMMA SourceParsedFacts ==
    ASSUME NEW d, NEW s \in Readable, Taken(d, s)
    PROVE  LET e == SourceParsed(d, s)
           IN  /\ Sound(e) /\ e.active /\ ~Out(e, Style) /\ e.completed = d.completed
               /\ e.required = d.required + Len(SourceTiles[s]) /\ e.fetching = d.fetching
               /\ Outstanding(e) = Outstanding(d)
               /\ Len(e.remaining) = Len(d.remaining) + Len(SourceTiles[s])
               /\ \A x : /\ Out(e, x) <=> Out(d, x)
                         /\ Listed(e, x) <=> Listed(d, x) \/ In(SourceTiles[s], x)
<1> DEFINE tiles == SourceTiles[s]
           t == WithTiles(d, tiles)
           left == d.missing \ {s}
           e == SourceParsed(d, s)
<1>1. ~Out(d, Style) /\ ~Out(d, s) /\ Sound(d) /\ d.active
    BY DEF Taken, Listed
<1>2. ASSUME NEW x, In(tiles, x)
      PROVE  ~Listed(d, x) /\ ~Awaited(d, x) /\ x # Style /\ x \notin ToSet(Sources)
    <2>1. x \in ToSet(SourceTiles[s]) /\ x # Style /\ x \notin ToSet(Sources)
        BY <1>2, Names
    <2>2. ~Listed(d, x)
        BY <2>1 DEF Taken
    <2>3. ~Awaited(d, x)
        BY <1>1, <2>1, Names DEF Awaited
    <2> QED BY <2>1, <2>2, <2>3
<1>3. tiles \in Seq(Resources) /\ \A x : OnceAtMost(tiles, x)
    BY Names
<1>4. e = [t EXCEPT !.missing = @ \ {s}, !.precise = (@ \/ left = {})]
    BY DEF SourceParsed
<1> HIDE DEF tiles
<1>5. /\ Sound(t) /\ t.active /\ t.completed = d.completed
      /\ t.required = d.required + Len(tiles) /\ t.fetching = d.fetching
      /\ t.missing = d.missing /\ t.precise = d.precise
      /\ Outstanding(t) = Outstanding(d) /\ Len(t.remaining) = Len(d.remaining) + Len(tiles)
      /\ \A x : /\ Out(t, x) <=> Out(d, x)
                /\ Listed(t, x) <=> Listed(d, x) \/ In(tiles, x)
    BY <1>1, <1>2, <1>3, WithTilesFacts
<1> HIDE DEF t, e
<1>6. /\ e \in DownloadType /\ e.active = t.active /\ e.work = t.work /\ e.fetching = t.fetching
      /\ e.completed = t.completed /\ e.required = t.required /\ e.remaining = t.remaining
      /\ e.missing = left /\ e.precise = (d.precise \/ left = {})
    <2>1. t \in DownloadType
        BY <1>5 DEF Sound
    <2>2. left \in SUBSET Resources /\ t.precise \in BOOLEAN /\ left = t.missing \ {s}
        BY <1>5, <2>1 DEF DownloadType
    <2> HIDE DEF left
    <2>3. e = [t EXCEPT !.missing = left, !.precise = (t.precise \/ left = {})]
        BY <1>4, <2>2
    <2>4. (t.precise \/ left = {}) \in BOOLEAN
        OBVIOUS
    <2> QED BY <1>5, <2>1, <2>2, <2>3, <2>4 DEF DownloadType
<1>7. \A x : (Out(e, x) <=> Out(t, x)) /\ (Listed(e, x) <=> Listed(t, x))
    BY <1>6 DEF Out, Listed
<1>8. Outstanding(e) = Outstanding(t) /\ IsFiniteSet(e.fetching) /\ Metered(e)
    <2>1. Outstanding(e) = Outstanding(t) /\ IsFiniteSet(e.fetching)
        BY <1>5, <1>6 DEF Outstanding, Sound
    <2> QED BY <1>5, <1>7, <2>1 DEF Sound, Metered
<1>9. Once(e) /\ StyleFirst(e) /\ SourceFirst(e)
    BY <1>5, <1>6, <1>7, SameRequests DEF Sound, Once, StyleFirst, SourceFirst
<1>10. MissingKnown(e)
    <2>1. ASSUME NEW u \in Readable, Out(e, u) PROVE u \in e.missing
        <3>1. Out(d, u) /\ u # s
            BY <1>1, <1>5, <1>7, <2>1
        <3>2. u \in d.missing
            BY <1>1, <3>1 DEF Sound, MissingKnown
        <3> QED BY <1>6, <3>1, <3>2
    <2>2. e.active /\ e.precise => e.missing = {}
        BY <1>1, <1>6 DEF Sound, MissingKnown
    <2>3. ~Out(e, Style)
        BY <1>1, <1>5, <1>7
    <2> QED BY <2>1, <2>2, <2>3 DEF MissingKnown
<1>11. Sound(e) /\ ~Out(e, Style) /\ e.active
    BY <1>1, <1>5, <1>6, <1>7, <1>8, <1>9, <1>10 DEF Sound
<1> QED BY <1>5, <1>6, <1>7, <1>8, <1>11 DEF e, tiles

(* The callback lists what is required from now on, and counts exactly that. *)
LEMMA CalledBackFacts ==
    ASSUME NEW r \in Resources, NEW d, Taken(d, r)
    PROVE  LET e == CalledBack(d, r)
           IN  /\ Sound(e) /\ e.active /\ ~Out(e, Style) /\ e.completed = d.completed
               /\ e.fetching \subseteq d.fetching
               /\ e.required + (Outstanding(d) + Len(d.remaining)) =
                     d.required + (Outstanding(e) + Len(e.remaining))
               /\ \A x : (Listed(d, x) => Listed(e, x)) /\ (Out(d, x) => Out(e, x))
               /\ r = Style => \A x \in Resources : x # Style => Listed(e, x) \/ Awaited(e, x)
               /\ r \in Readable => \A x \in ToSet(SourceTiles[r]) : Listed(e, x)
               /\ r # Style /\ r \notin Readable => e = d
<1> DEFINE e == CalledBack(d, r)
<1>1. CASE r = Style
    <2>1. e = StyleParsed(d)
        BY <1>1, Names DEF CalledBack
    <2>2. Taken(d, Style)
        BY <1>1
    <2>3. Unlisted(d) /\ d.completed = 0 /\ d.required = 1 /\ Sound(d) /\ r \notin Readable
        BY <1>1, Names DEF Taken
    <2>4. /\ Sound(e) /\ e.active /\ ~Out(e, Style) /\ e.completed = 0
          /\ e.fetching \subseteq d.fetching
          /\ e.required = 1 + (Outstanding(e) + Len(e.remaining))
          /\ \A x \in Resources : x # Style => Listed(e, x) \/ Awaited(e, x)
        BY <2>1, <2>2, StyleParsedFacts
    <2> HIDE DEF e
    <2>5. Outstanding(d) = 0 /\ Len(d.remaining) = 0 /\ \A x : ~Listed(d, x)
        BY <2>3, NothingListed, Members DEF Unlisted, Sound, MissingKnown
    <2>6. \A x : ~Out(d, x)
        BY <2>5 DEF Listed
    <2>7. Outstanding(e) \in Nat /\ Len(e.remaining) \in Nat
        BY <2>4, Members
    <2>8. e.required + (Outstanding(d) + Len(d.remaining)) =
             d.required + (Outstanding(e) + Len(e.remaining))
        <3>1. Outstanding(d) = 0 /\ Len(d.remaining) = 0
            BY <2>5
        <3>2. e.required = 1 + (Outstanding(e) + Len(e.remaining))
            BY <2>4
        <3> QED BY <2>3, <2>7, <3>1, <3>2
    <2> QED BY <1>1, <2>3, <2>4, <2>5, <2>6, <2>8 DEF e
<1>2. CASE r \in Readable
    <2>1. e = SourceParsed(d, r) /\ r # Style
        BY <1>2, Names DEF CalledBack
    <2> DEFINE tiles == SourceTiles[r]
    <2> HIDE DEF e
    <2>2. /\ Sound(e) /\ e.active /\ ~Out(e, Style) /\ e.completed = d.completed
          /\ e.required = d.required + Len(tiles) /\ e.fetching = d.fetching
          /\ Outstanding(e) = Outstanding(d) /\ Len(e.remaining) = Len(d.remaining) + Len(tiles)
          /\ \A x : /\ Out(e, x) <=> Out(d, x)
                    /\ Listed(e, x) <=> Listed(d, x) \/ In(tiles, x)
        BY <1>2, <2>1, SourceParsedFacts, Zenon
    <2>3. \A x \in ToSet(tiles) : Listed(e, x)
        BY <1>2, <2>2, Names
    <2>4. tiles \in Seq(Resources)
        BY <1>2, Names
    <2> HIDE DEF tiles
    <2>5. e.required + (Outstanding(d) + Len(d.remaining)) =
             d.required + (Outstanding(e) + Len(e.remaining))
        <3>1. Sound(d) /\ Len(tiles) \in Nat
            BY <2>4 DEF Taken
        <3>2. Outstanding(d) \in Nat /\ Len(d.remaining) \in Nat /\ d.required \in Nat
            BY <3>1, Members
        <3>3. /\ e.required = d.required + Len(tiles)
              /\ Outstanding(e) = Outstanding(d) /\ Len(e.remaining) = Len(d.remaining) + Len(tiles)
            BY <2>2
        <3> QED BY <3>1, <3>2, <3>3
    <2> QED BY <1>2, <2>1, <2>2, <2>3, <2>5 DEF e, tiles
<1>3. CASE r # Style /\ r \notin Readable
    <2>1. e = d
        BY <1>3 DEF CalledBack, SourceParsed
    <2>2. Sound(d) /\ d.active /\ ~Out(d, Style)
        BY DEF Taken, Listed
    <2> HIDE DEF e
    <2> QED BY <1>3, <2>1, <2>2 DEF e
<1> QED BY <1>1, <1>2, <1>3

(* A resource is taken from one of the lists. *)
LEMMA TakenFacts ==
    ASSUME NEW d, Sound(d), NEW r \in Resources, Out(d, r),
           NEW e \in DownloadType, e.active = d.active, e.completed = d.completed,
           e.required = d.required, e.remaining = d.remaining, IsFiniteSet(e.fetching),
           e.precise = d.precise, e.missing = d.missing,
           Outstanding(e) + 1 = Outstanding(d),
           \A x : /\ In(e.work, x) <=> In(d.work, x) /\ (x = r => x \in d.fetching)
                  /\ x \in e.fetching <=> x \in d.fetching /\ (x = r => In(d.work, x))
                  /\ OnceAtMost(e.work, x)
    PROVE  Taken(e, r) /\ \A x : Out(d, x) <=> Out(e, x) \/ x = r
<1>1. \A x : (In(d.work, x) => x \notin d.fetching) /\ (Out(d, x) => ~In(d.remaining, x))
    BY DEF Sound, Once
<1>2. \A x : /\ Out(e, x) <=> Out(d, x) /\ x # r
             /\ Listed(e, x) <=> Listed(d, x) /\ x # r
             /\ In(e.work, x) => In(d.work, x)
             /\ x \in e.fetching => x \in d.fetching
    BY <1>1 DEF Out, Listed
<1>3. d.active
    <2>1. ASSUME ~d.active PROVE FALSE
        BY <2>1, EmptyIn DEF Sound, Unlisted, Out
    <2> QED BY <2>1
<1>4. ~Listed(e, Style)
    <2>1. CASE Out(d, Style)
        <3>1. r = Style
            BY <2>1, StyleOnly DEF Listed
        <3> QED BY <1>2, <3>1
    <2>2. CASE ~Out(d, Style)
        BY <1>2, <2>2 DEF Sound, StyleFirst, Listed
    <2> QED BY <2>1, <2>2
<1>5. Once(e)
    BY <1>2 DEF Sound, Once
<1>6. StyleFirst(e) /\ SourceFirst(e) /\ MissingKnown(e)
    <2>1. ~Out(e, Style)
        BY <1>4 DEF Listed
    <2>2. ~In(d.remaining, Style)
        BY DEF Sound, StyleFirst
    <2>3. \A x : Awaited(e, x) => Awaited(d, x)
        BY <1>2, SameRequests
    <2> QED BY <1>2, <2>1, <2>2, <2>3 DEF Sound, StyleFirst, SourceFirst, MissingKnown
<1>7. Sound(e)
    <2>1. Outstanding(e) \in Nat
        <3>1. e.work \in Seq(Resources)
            BY DEF DownloadType
        <3>2. Cardinality(e.fetching) \in Nat
            BY FS_CardinalityType
        <3> QED BY <3>1, <3>2 DEF Outstanding
    <2>2. Metered(e)
        BY <1>2, <2>1, Members, Names DEF Sound, Metered
    <2> QED BY <1>3, <1>5, <1>6, <2>2 DEF Sound
<1>8. r = Style => Unlisted(e) /\ e.completed = 0 /\ e.required = 1
    <2> SUFFICES ASSUME r = Style PROVE Unlisted(e) /\ e.completed = 0 /\ e.required = 1
        OBVIOUS
    <2>1. /\ \A x : Listed(d, x) => x = Style
          /\ Outstanding(d) = 1 /\ d.remaining = <<>> /\ d.completed = 0 /\ d.required = 1
        BY StyleOnly
    <2>2. Outstanding(e) = 0
        BY <1>7, <2>1, Members
    <2>3. Len(e.work) = 0 /\ Cardinality(e.fetching) = 0
        BY <1>7, <2>2, Members
    <2>4. e.work = <<>> /\ e.fetching = {}
        BY <1>7, <2>3, Members, FS_EmptySet
    <2> QED BY <2>1, <2>4 DEF Unlisted
<1>9. r \in Readable => \A x \in ToSet(SourceTiles[r]) : ~Listed(e, x)
    BY <1>2 DEF Sound, SourceFirst, Awaited
<1>10. \A x : Out(d, x) <=> Out(e, x) \/ x = r
    BY <1>2
<1> QED BY <1>2, <1>3, <1>4, <1>7, <1>8, <1>9, <1>10 DEF Taken

LEMMA TakenFromWork ==
    ASSUME NEW d, Sound(d), d.work # <<>>
    PROVE  LET r == Head(d.work)
               e == [d EXCEPT !.work = Tail(@)]
           IN  /\ r \in Resources /\ d.active /\ Taken(e, r)
               /\ e.completed = d.completed /\ e.required = d.required /\ e.remaining = d.remaining
               /\ e.work = Tail(d.work) /\ e.fetching = d.fetching /\ e.precise = d.precise
               /\ Outstanding(e) + 1 = Outstanding(d)
               /\ \A x : Out(d, x) <=> Out(e, x) \/ x = r
<1> DEFINE r == Head(d.work)
           rest == Tail(d.work)
           e == [d EXCEPT !.work = rest]
<1>1. /\ r \in Resources /\ rest \in Seq(Resources) /\ Len(d.work) \in Nat
      /\ Len(rest) = Len(d.work) - 1
    BY Members, TailFacts
<1>2. /\ \A y : In(d.work, y) <=> In(rest, y) \/ y = r
      /\ \A y : OnceAtMost(d.work, y) => OnceAtMost(rest, y) /\ (y = r => ~In(rest, y))
    <2>1. d.work \in Seq(Resources) /\ d.work # <<>>
        BY Members
    <2> QED BY ONLY <2>1, TailIn
<1> HIDE DEF r, rest
<1>3. /\ e \in DownloadType /\ e.active = d.active /\ e.completed = d.completed
      /\ e.required = d.required /\ e.remaining = d.remaining /\ e.fetching = d.fetching
      /\ e.work = rest /\ e.precise = d.precise /\ e.missing = d.missing
    BY <1>1 DEF Sound, DownloadType
<1> HIDE DEF e
<1>4. Outstanding(e) + 1 = Outstanding(d) /\ IsFiniteSet(e.fetching)
    <2>1. Outstanding(e) = Len(rest) + Cardinality(d.fetching)
        BY <1>3 DEF Outstanding
    <2> QED BY <1>1, <1>3, <2>1, Members
<1>5. \A x : OnceAtMost(d.work, x) /\ (In(d.work, x) => x \notin d.fetching)
    BY DEF Sound, Once
<1>6. Out(d, r) /\ r \notin d.fetching /\ In(d.work, r)
    BY <1>2, <1>5 DEF Out
<1>7. \A x : /\ In(e.work, x) <=> In(d.work, x) /\ (x = r => x \in d.fetching)
             /\ x \in e.fetching <=> x \in d.fetching /\ (x = r => In(d.work, x))
             /\ OnceAtMost(e.work, x)
    BY <1>2, <1>3, <1>5, <1>6
<1>8. Taken(e, r) /\ \A x : Out(d, x) <=> Out(e, x) \/ x = r
    BY <1>1, <1>3, <1>4, <1>6, <1>7, TakenFacts
<1>9. d.active
    BY <1>3, <1>8 DEF Taken
<1> QED BY <1>1, <1>3, <1>4, <1>8, <1>9 DEF e, r, rest

LEMMA TakenFromFetching ==
    ASSUME NEW d, Sound(d), NEW r \in d.fetching
    PROVE  LET e == [d EXCEPT !.fetching = @ \ {r}]
           IN  /\ r \in Resources /\ d.active /\ Taken(e, r) /\ e.fetching = d.fetching \ {r}
               /\ e.precise = d.precise
               /\ e.completed = d.completed /\ e.required = d.required /\ e.remaining = d.remaining
               /\ Outstanding(e) + 1 = Outstanding(d)
               /\ \A x : Out(d, x) <=> Out(e, x) \/ x = r
<1> DEFINE rest == d.fetching \ {r}
           e == [d EXCEPT !.fetching = rest]
<1>1. /\ r \in Resources /\ rest \in SUBSET Resources /\ IsFiniteSet(rest)
      /\ Cardinality(rest) \in Nat /\ Cardinality(rest) = Cardinality(d.fetching) - 1
    BY Members, FS_RemoveElement, FS_CardinalityType
<1>2. \A x : x \in rest <=> x \in d.fetching /\ x # r
    OBVIOUS
<1> HIDE DEF rest
<1>3. /\ e \in DownloadType /\ e.active = d.active /\ e.completed = d.completed
      /\ e.required = d.required /\ e.remaining = d.remaining /\ e.fetching = rest
      /\ e.work = d.work /\ e.precise = d.precise /\ e.missing = d.missing
    BY <1>1 DEF Sound, DownloadType
<1> HIDE DEF e
<1>4. Outstanding(e) + 1 = Outstanding(d) /\ IsFiniteSet(e.fetching)
    <2>1. Outstanding(e) = Len(d.work) + Cardinality(rest)
        BY <1>3 DEF Outstanding
    <2> QED BY <1>1, <1>3, <2>1, Members
<1>5. \A x : OnceAtMost(d.work, x) /\ (In(d.work, x) => x \notin d.fetching)
    BY DEF Sound, Once
<1>6. Out(d, r) /\ ~In(d.work, r)
    BY <1>5 DEF Out
<1>7. \A x : /\ In(e.work, x) <=> In(d.work, x) /\ (x = r => x \in d.fetching)
             /\ x \in e.fetching <=> x \in d.fetching /\ (x = r => In(d.work, x))
             /\ OnceAtMost(e.work, x)
    BY <1>2, <1>3, <1>5, <1>6
<1>8. Taken(e, r) /\ \A x : Out(d, x) <=> Out(e, x) \/ x = r
    BY <1>1, <1>3, <1>4, <1>6, <1>7, TakenFacts
<1>9. d.active
    BY <1>3, <1>8 DEF Taken
<1>10. e.fetching = d.fetching \ {r}
    BY <1>3 DEF rest
<1> QED BY <1>1, <1>3, <1>4, <1>8, <1>9, <1>10 DEF e, rest

(* The callback has run for the resource that was taken, k of those in the buffer have been     *)
(* completed, and the others are in c.                                                          *)
LEMMA HandledKept ==
    ASSUME NEW d, Sound(d), d.active, NEW b \in Seq(Resources), NEW m, NEW f, Kept(d, b, m, f),
           NEW r \in Resources, NEW d1, Taken(d1, r), d1.completed = d.completed,
           d1.required = d.required, d1.remaining = d.remaining,
           Outstanding(d1) + 1 = Outstanding(d), \A x : Out(d, x) <=> Out(d1, x) \/ x = r,
           NEW k \in Nat, NEW c \in Seq(Resources), Len(c) + k = Len(b) + 1,
           NEW m2, m \subseteq m2, \A x : In(b, x) \/ x = r => x \in m2 \/ In(c, x),
           NEW e, e.active, e.completed = CalledBack(d1, r).completed + k,
           e.required = CalledBack(d1, r).required, e.remaining = CalledBack(d1, r).remaining,
           e.work = CalledBack(d1, r).work, e.fetching = CalledBack(d1, r).fetching
    PROVE  Kept(e, c, m2, f)
<1> DEFINE g == CalledBack(d1, r)
<1>1. /\ Sound(g) /\ g.active /\ ~Out(g, Style) /\ g.completed = d1.completed
      /\ g.required + (Outstanding(d1) + Len(d1.remaining)) =
            d1.required + (Outstanding(g) + Len(g.remaining))
      /\ \A x : (Listed(d1, x) => Listed(g, x)) /\ (Out(d1, x) => Out(g, x))
      /\ r = Style => \A x \in Resources : x # Style => Listed(g, x) \/ Awaited(g, x)
      /\ r \in Readable => \A x \in ToSet(SourceTiles[r]) : Listed(g, x)
    BY CalledBackFacts
<1>2. /\ e.completed = g.completed + k /\ e.required = g.required /\ e.remaining = g.remaining
      /\ e.work = g.work /\ e.fetching = g.fetching
    OBVIOUS
<1> HIDE DEF g
<1>3. /\ Outstanding(e) = Outstanding(g)
      /\ \A x : /\ Out(e, x) <=> Out(g, x)
                /\ Listed(e, x) <=> Listed(g, x)
                /\ Awaited(g, x) => Awaited(e, x)
    BY <1>2 DEF Outstanding, Out, Listed, Awaited
<1>4. /\ Outstanding(g) \in Nat /\ Len(g.remaining) \in Nat /\ g.completed \in Nat
      /\ g.required \in Nat
      /\ Outstanding(d) \in Nat /\ Len(d.remaining) \in Nat /\ d.completed \in Nat
      /\ d.required \in Nat
      /\ Outstanding(d1) \in Nat /\ Len(b) \in Nat /\ Len(c) \in Nat
    <2>1. Sound(d1)
        BY DEF Taken
    <2>2. Outstanding(d1) \in Nat
        BY <2>1, Members
    <2>3. /\ Outstanding(g) \in Nat /\ Len(g.remaining) \in Nat /\ g.completed \in Nat
          /\ g.required \in Nat
        BY <1>1, Members
    <2>4. /\ Outstanding(d) \in Nat /\ Len(d.remaining) \in Nat /\ d.completed \in Nat
          /\ d.required \in Nat
        BY Members
    <2> QED BY <2>2, <2>3, <2>4
<1>5. PICK gc \in Nat, gr \in Nat, go \in Nat, gl \in Nat, dr \in Nat, do \in Nat, dl \in Nat,
           lb \in Nat, lc \in Nat :
        /\ gc = g.completed /\ gr = g.required /\ go = Outstanding(g) /\ gl = Len(g.remaining)
        /\ dr = d.required /\ do = Outstanding(d1) /\ dl = Len(d.remaining)
        /\ lb = Len(b) /\ lc = Len(c)
    BY <1>4, Zenon
<1>6. /\ Tally(e, c) = (gc + k) + lc + (go + gl) /\ Tally(d, b) = gc + lb + ((do + 1) + dl)
      /\ e.required = gr /\ gr + (do + dl) = dr + (go + gl) /\ lc + k = lb + 1
    <2>1. /\ gr + (do + dl) = dr + (go + gl) /\ g.completed = d.completed
        BY <1>1, <1>5
    <2>2. Tally(e, c) = (g.completed + k) + Len(c) + (Outstanding(g) + Len(g.remaining))
        BY <1>2, <1>3 DEF Tally
    <2>3. Tally(d, b) = d.completed + Len(b) + ((Outstanding(d1) + 1) + Len(d.remaining))
        BY DEF Tally
    <2> QED BY <1>2, <1>5, <2>1, <2>2, <2>3
<1>7. Balanced(e, c, f)
    <2>1. Balanced(d, b, f)
        BY DEF Kept
    <2>2. CASE f = 0
        <3>1. dr = gc + lb + ((do + 1) + dl)
            BY <1>5, <1>6, <2>1, <2>2 DEF Balanced
        <3>2. gr + (do + dl) = dr + (go + gl) /\ lc + k = lb + 1
            BY <1>6
        <3>3. gr = (gc + k) + lc + (go + gl)
            BY ONLY k \in Nat, <3>1, <3>2
        <3> QED BY <1>6, <2>2, <3>3 DEF Balanced
    <2>3. CASE f # 0
        <3>1. dr > gc + lb + ((do + 1) + dl)
            BY <1>5, <1>6, <2>1, <2>3 DEF Balanced
        <3>2. gr + (do + dl) = dr + (go + gl) /\ lc + k = lb + 1
            BY <1>6
        <3>3. gr > (gc + k) + lc + (go + gl)
            BY ONLY k \in Nat, <3>1, <3>2
        <3> QED BY <1>6, <2>3, <3>3 DEF Balanced
    <2> QED BY <2>2, <2>3
<1>8. ASSUME f = 0 PROVE Traced(e, c, m2)
    <2> SUFFICES ASSUME NEW x \in Resources, x \notin m2 PROVE Whereabouts(e, c, x)
        BY DEF Traced
    <2>1. x \notin m /\ Whereabouts(d, b, x)
        BY <1>8 DEF Kept, Traced
    <2>2. CASE In(b, x) \/ x = r
        BY <2>2 DEF Whereabouts
    <2>3. CASE Listed(d, x) /\ x # r
        <3>1. Listed(d1, x)
            BY <2>3 DEF Listed
        <3> QED BY <1>1, <1>3, <3>1 DEF Whereabouts
    <2>4. CASE x # Style /\ Out(d, Style)
        <3>1. r = Style
            BY <2>4 DEF Taken, Listed
        <3>2. Listed(g, x) \/ Awaited(g, x)
            BY <1>1, <2>4, <3>1
        <3> QED BY <1>3, <3>2 DEF Whereabouts
    <2>5. CASE Awaited(d, x)
        <3>1. PICK s \in Readable : x \in ToSet(SourceTiles[s]) /\ Out(d, s)
            BY <2>5 DEF Awaited
        <3>2. CASE r = s
            BY <1>1, <1>3, <3>1, <3>2 DEF Whereabouts
        <3>3. CASE r # s
            BY <1>1, <1>3, <3>1, <3>3 DEF Whereabouts, Awaited
        <3> QED BY <3>2, <3>3
    <2> QED BY <2>1, <2>2, <2>3, <2>4, <2>5 DEF Whereabouts
<1> QED BY <1>7, <1>8 DEF Kept

----------------------------------------------------------------------------
(***************************************************************************)
(* The database.                                                            *)
(***************************************************************************)
Counted == Cardinality(marked \cap MapboxTiles)

LEMMA CountFacts ==
    ASSUME Database
    PROVE  /\ IsFiniteSet(marked \cap MapboxTiles) /\ Counted \in Nat /\ CurrentCount \in Nat
           /\ \A r : CachedBy(r) \in Nat \cup {Unknown}
           /\ tileCount # Unknown => CurrentCount = tileCount
           /\ \A r : CachedBy(r) # Unknown => CachedBy(r) = CurrentCount
           /\ Covered /\ Ambient \cap MapboxTiles = {} => Counted =< CurrentCount
<1>1. IsFiniteSet(marked \cap MapboxTiles)
    BY FS_Intersection DEF Database
<1>2. Counted \in Nat
    BY <1>1, FS_CardinalityType DEF Counted
<1>3. CurrentCount = IF tileCount = Unknown THEN Counted ELSE tileCount
    BY DEF CurrentCount, Counted
<1>4. CurrentCount \in Nat
    BY <1>2, <1>3 DEF Database
<1>5. Covered /\ Ambient \cap MapboxTiles = {} => Counted =< CurrentCount
    <2>1. CASE tileCount = Unknown
        BY <1>2, <1>3, <2>1
    <2>2. CASE tileCount # Unknown
        BY <1>3, <2>2 DEF Covered, Counted
    <2> QED BY <2>1, <2>2
<1>6. \A r : /\ CachedBy(r) \in Nat \cup {Unknown}
             /\ CachedBy(r) # Unknown => CachedBy(r) = CurrentCount
    BY <1>3, <1>4 DEF CachedBy, Database
<1> QED BY <1>1, <1>2, <1>3, <1>4, <1>5, <1>6

(* The resources of the first i of a batch, and the tiles among them that are new. *)
First(batch, i) == ToSet(SubSeq(batch, 1, i))
NewTiles(batch, i) == (First(batch, i) \cap MapboxTiles) \ marked

LEMMA FirstFacts ==
    ASSUME Database, NEW batch \in Seq(Resources), NEW i \in 0..Len(batch)
    PROVE  /\ First(batch, i) \subseteq Resources /\ IsFiniteSet(First(batch, i))
           /\ First(batch, i) \subseteq ToSet(batch)
           /\ IsFiniteSet(NewTiles(batch, i)) /\ Cardinality(NewTiles(batch, i)) \in Nat
           /\ CountAfter(batch, i) = CurrentCount + Cardinality(NewTiles(batch, i))
           /\ CountAfter(batch, i) \in Nat /\ CurrentCount =< CountAfter(batch, i)
<1> DEFINE before == SubSeq(batch, 1, i)
<1>1. before \in Seq(Resources) /\ \A y : In(before, y) => In(batch, y)
    BY SplitFacts
<1> HIDE DEF before
<1>2. /\ ToSet(before) \subseteq Resources /\ IsFiniteSet(ToSet(before))
      /\ ToSet(before) \subseteq ToSet(batch)
    BY <1>1, ToSetFacts
<1>3. First(batch, i) = ToSet(before)
    BY DEF First, before
<1>4. IsFiniteSet(NewTiles(batch, i))
    BY <1>2, <1>3, FS_Subset DEF NewTiles
<1>5. Cardinality(NewTiles(batch, i)) \in Nat
    BY <1>4, FS_CardinalityType
<1>6. CountAfter(batch, i) = CurrentCount + Cardinality(NewTiles(batch, i))
    BY DEF CountAfter, NewTiles, First
<1> QED BY <1>2, <1>3, <1>4, <1>5, <1>6, CountFacts

(* What is accepted is the beginning of the batch. *)
LEMMA AcceptedFacts ==
    ASSUME NEW batch \in Seq(Resources)
    PROVE  /\ Len(Accepted(batch)) \in 0..Len(batch)
           /\ Accepted(batch) = SubSeq(batch, 1, Len(Accepted(batch)))
           /\ Refused(batch) = {} => Accepted(batch) = batch
<1>1. CASE Refused(batch) = {}
    <2>1. Accepted(batch) = batch
        BY <1>1 DEF Accepted
    <2>2. batch = SubSeq(batch, 1, Len(batch)) /\ Len(batch) \in 0..Len(batch)
        OBVIOUS
    <2> QED BY <2>1, <2>2
<1>2. CASE Refused(batch) # {}
    <2> DEFINE i == Min(Refused(batch))
    <2>1. Refused(batch) \subseteq 1..Len(batch) /\ Len(batch) \in Nat
        BY DEF Refused
    <2>2. i \in Refused(batch)
        BY <1>2, <2>1, LeastNatural
    <2> HIDE DEF i
    <2>3. i - 1 \in 0..Len(batch)
        BY <2>1, <2>2
    <2>4. Accepted(batch) = SubSeq(batch, 1, i - 1)
        BY <1>2 DEF Accepted, i
    <2>5. Len(SubSeq(batch, 1, i - 1)) = i - 1
        BY <2>3, SplitFacts
    <2> QED BY <1>2, <2>3, <2>4, <2>5
<1> QED BY <1>1, <1>2

(* A batch is saved: the cached count covers what becomes part of the region. *)
LEMMA PutFacts ==
    ASSUME Database, Covered, NEW batch \in Seq(Resources), PutRegionResources(batch)
    PROVE  /\ stored' \subseteq Resources /\ marked' \subseteq stored' /\ IsFiniteSet(marked')
           /\ tileCount' \in Nat \cup {Unknown} /\ marked \subseteq marked' /\ Covered'
           /\ Refused(batch) = {} => ToSet(batch) \subseteq marked'
<1> DEFINE n == Len(Accepted(batch))
           A == ToSet(Accepted(batch))
<1>1. /\ n \in 0..Len(batch) /\ A = First(batch, n)
      /\ Refused(batch) = {} => A = ToSet(batch)
    BY AcceptedFacts DEF First
<1> HIDE DEF n, A
<1>2. /\ A \subseteq Resources /\ IsFiniteSet(A) /\ A \subseteq ToSet(batch)
      /\ IsFiniteSet(NewTiles(batch, n)) /\ Cardinality(NewTiles(batch, n)) \in Nat
      /\ CountAfter(batch, n) = CurrentCount + Cardinality(NewTiles(batch, n))
      /\ CountAfter(batch, n) \in Nat
    BY <1>1, FirstFacts
<1>3. /\ stored' = stored \cup A /\ marked' = marked \cup A
      /\ tileCount' = IF ToSet(batch) \cap MapboxTiles = {} THEN tileCount ELSE CountAfter(batch, n)
    BY DEF PutRegionResources, n, A
<1>4. IsFiniteSet(marked')
    BY <1>2, <1>3, FS_Union DEF Database
<1>5. tileCount' \in Nat \cup {Unknown}
    BY <1>2, <1>3 DEF Database
<1>6. ASSUME Ambient \cap MapboxTiles = {}, tileCount' # Unknown
      PROVE  Cardinality(marked' \cap MapboxTiles) =< tileCount'
    <2>1. CASE ToSet(batch) \cap MapboxTiles = {}
        <3>1. marked' \cap MapboxTiles = marked \cap MapboxTiles /\ tileCount' = tileCount
            BY <1>2, <1>3, <2>1
        <3> QED BY <1>6, <3>1 DEF Covered
    <2>2. CASE ToSet(batch) \cap MapboxTiles # {}
        <3> DEFINE old == marked \cap MapboxTiles
                   new == NewTiles(batch, n)
        <3>1. marked' \cap MapboxTiles = old \cup new /\ old \cap new = {}
            BY <1>1, <1>3 DEF NewTiles
        <3>2. IsFiniteSet(old) /\ Cardinality(old) \in Nat /\ Cardinality(old) =< CurrentCount
            BY <1>6, CountFacts DEF Counted
        <3> HIDE DEF old, new
        <3>3. Cardinality(old \cup new) = Cardinality(old) + Cardinality(new)
            <4>1. Cardinality(old \cup new) = Cardinality(old) + Cardinality(new) - Cardinality(old \cap new)
                BY <1>2, <3>2, FS_Union DEF new
            <4>2. Cardinality(old \cap new) = 0
                BY <3>1, FS_EmptySet
            <4>3. Cardinality(new) \in Nat
                BY <1>2 DEF new
            <4> QED BY ONLY <3>2, <4>1, <4>2, <4>3
        <3>4. tileCount' = CurrentCount + Cardinality(new)
            BY <1>2, <1>3, <2>2 DEF new
        <3>5. CurrentCount \in Nat /\ Cardinality(new) \in Nat
            BY <1>2, CountFacts DEF new
        <3>6. Cardinality(old) + Cardinality(new) =< CurrentCount + Cardinality(new)
            BY ONLY <3>2, <3>5
        <3>7. Cardinality(marked' \cap MapboxTiles) = Cardinality(old) + Cardinality(new)
            BY <3>1, <3>3
        <3> QED BY <3>4, <3>6, <3>7
    <2> QED BY <2>1, <2>2
<1>7. Covered'
    <2>1. ASSUME Ambient \cap MapboxTiles = {}
          PROVE  stored' \cap MapboxTiles \subseteq marked'
        BY <1>3, <2>1 DEF Covered
    <2> QED BY <1>6, <2>1 DEF Covered
<1> QED BY <1>1, <1>2, <1>3, <1>4, <1>5, <1>7 DEF Database

----------------------------------------------------------------------------
(***************************************************************************)
(* The steps.                                                               *)
(***************************************************************************)

(* A task on the run loop becomes an online request. *)
LEMMA RequestedFacts ==
    ASSUME NEW d, Sound(d), d.work # <<>>
    PROVE  LET r == Head(d.work)
               g == [d EXCEPT !.work = Tail(@), !.fetching = @ \cup {r}]
           IN  /\ Sound(g) /\ g.active = d.active /\ g.completed = d.completed
               /\ g.required = d.required /\ g.remaining = d.remaining
               /\ g.fetching = d.fetching \cup {r} /\ g.precise = d.precise
               /\ Outstanding(g) = Outstanding(d) /\ \A x : Out(g, x) <=> Out(d, x)
<1> DEFINE r == Head(d.work)
           e == [d EXCEPT !.work = Tail(@)]
           more == d.fetching \cup {r}
           g == [d EXCEPT !.work = Tail(@), !.fetching = @ \cup {r}]
<1>1. /\ r \in Resources /\ d.active /\ Taken(e, r)
      /\ e.completed = d.completed /\ e.required = d.required /\ e.remaining = d.remaining
      /\ e.work = Tail(d.work) /\ e.fetching = d.fetching /\ e.precise = d.precise
      /\ Outstanding(e) + 1 = Outstanding(d)
      /\ \A x : Out(d, x) <=> Out(e, x) \/ x = r
    BY TakenFromWork
<1>2. g = [e EXCEPT !.fetching = more]
    BY DEF Sound, DownloadType
<1>3. Sound(e) /\ e \in DownloadType /\ e.active
    BY <1>1 DEF Taken, Sound
<1>4. more \in SUBSET Resources
    BY <1>1, Members
<1>5. more = e.fetching \cup {r} /\ e.missing = d.missing
    <2>1. e.missing = d.missing
        BY DEF Sound, DownloadType
    <2> QED BY <1>1, <2>1
<1> HIDE DEF r, e, g, more
<1>6. /\ g \in DownloadType /\ g.active = e.active /\ g.completed = e.completed
      /\ g.required = e.required /\ g.remaining = e.remaining /\ g.work = e.work /\ g.fetching = more
      /\ g.precise = e.precise /\ g.missing = d.missing
    BY <1>2, <1>3, <1>4, <1>5 DEF DownloadType
<1>7. ~Listed(e, r) /\ r \notin e.fetching /\ ~In(e.work, r) /\ ~In(e.remaining, r)
    BY <1>1 DEF Taken, Listed, Out
<1>8. \A x : /\ Out(g, x) <=> Out(d, x)
             /\ Out(g, x) <=> Out(e, x) \/ x = r
    BY <1>1, <1>5, <1>6 DEF Out
<1>9. IsFiniteSet(more) /\ Cardinality(more) = Cardinality(e.fetching) + 1
    BY <1>3, <1>5, <1>7, Members, FS_AddElement
<1>10. Outstanding(g) = Outstanding(d)
    <2>1. Outstanding(g) = Len(e.work) + Cardinality(more)
        BY <1>6 DEF Outstanding
    <2>2. Outstanding(e) = Len(e.work) + Cardinality(e.fetching) /\ Len(e.work) \in Nat
          /\ Cardinality(e.fetching) \in Nat
        BY <1>3, Members
    <2>3. Outstanding(e) + 1 = Outstanding(d)
        BY <1>1
    <2> QED BY ONLY <1>9, <2>1, <2>2, <2>3
<1>11. Once(g)
    <2> SUFFICES ASSUME NEW x
                 PROVE  /\ OnceAtMost(e.work, x) /\ OnceAtMost(e.remaining, x)
                        /\ In(e.work, x) => x \notin more
                        /\ Out(g, x) => ~In(e.remaining, x)
        BY <1>6 DEF Once
    <2>1. /\ OnceAtMost(e.work, x) /\ OnceAtMost(e.remaining, x)
          /\ In(e.work, x) => x \notin e.fetching
          /\ Out(e, x) => ~In(e.remaining, x)
        BY <1>3 DEF Sound, Once
    <2>2. In(e.work, x) => x \notin more
        BY <1>5, <1>7, <2>1
    <2>3. Out(g, x) => ~In(e.remaining, x)
        BY <1>7, <1>8, <2>1
    <2> QED BY <2>1, <2>2, <2>3
<1>12. StyleFirst(g)
    <2>1. ASSUME Out(g, Style)
          PROVE  /\ g.work = <<>> /\ g.fetching = {Style}
                 /\ g.remaining = <<>> /\ g.completed = 0 /\ g.required = 1
        <3>1. r = Style
            BY <1>1, <1>8, <2>1 DEF Taken, Listed
        <3>2. Unlisted(e) /\ e.completed = 0 /\ e.required = 1
            BY <1>1, <3>1 DEF Taken
        <3> QED BY <1>5, <1>6, <3>1, <3>2 DEF Unlisted
    <2>2. ~In(g.remaining, Style)
        BY <1>1, <1>6 DEF Taken, Listed
    <2> QED BY <2>1, <2>2 DEF StyleFirst
<1>13. SourceFirst(g) /\ MissingKnown(g)
    <2>1. \A x : Listed(g, x) <=> Listed(d, x)
        BY <1>1, <1>6, <1>8 DEF Listed
    <2>2. \A x : Awaited(g, x) => Awaited(d, x)
        BY <1>8, SameRequests
    <2>3. SourceFirst(g)
        BY <1>1, <1>6, <1>8, <2>1, <2>2 DEF Sound, SourceFirst
    <2> QED BY <1>1, <1>3, <1>6, <1>8, <2>3 DEF Sound, MissingKnown
<1>14. Sound(g)
    <2>1. Metered(g)
        BY <1>8, <1>10 DEF Sound, Metered
    <2> QED BY <1>3, <1>6, <1>9, <1>11, <1>12, <1>13, <2>1 DEF Sound
<1>15. g.active = d.active
    BY <1>1, <1>3, <1>6 DEF Sound, DownloadType
<1>16. g.fetching = d.fetching \cup {r}
    BY <1>6 DEF more
<1> QED BY <1>1, <1>6, <1>8, <1>10, <1>14, <1>15, <1>16 DEF g, r

(* The batch is lost. *)
LEMMA LostKept ==
    ASSUME NEW d, Sound(d), d.active, NEW b \in Seq(Resources), b # <<>>, NEW m,
           NEW f \in Nat, Kept(d, b, m, f)
    PROVE  Kept(d, <<>>, m, f + 1)
<1>1. Len(b) \in Nat /\ Len(b) > 0 /\ Len(<<>>) = 0 /\ f + 1 # 0
    OBVIOUS
<1> DEFINE rest == Outstanding(d) + Len(d.remaining)
<1>2. rest \in Nat /\ d.completed \in Nat /\ d.required \in Nat
    BY Members
<1>3. Tally(d, b) = d.completed + Len(b) + rest /\ Tally(d, <<>>) = d.completed + 0 + rest
    BY <1>1 DEF Tally
<1>4. d.required = Tally(d, b) \/ d.required > Tally(d, b)
    BY DEF Kept, Balanced
<1> HIDE DEF rest
<1>5. d.required > Tally(d, <<>>)
    BY <1>1, <1>2, <1>3, <1>4
<1> QED BY <1>1, <1>5 DEF Kept, Balanced

LEMMA Session ==
    ASSUME IInv
    PROVE  /\ Sound(download) /\ Database /\ Covered /\ buffer \in Seq(Resources)
           /\ sessions \in Nat /\ failures \in Nat
           /\ download.active => sessions # 0
           /\ sessions = 1 => Kept(download, buffer, marked, failures)
BY OfflineDownloadAssumption DEF IInv, Database, FirstSession

LEMMA ActivateStep == ASSUME IInv, Activate PROVE IInv'
<1> DEFINE d == download'
<1>1. /\ ~download.active /\ sessions < MaxSessions /\ sessions' = sessions + 1
      /\ buffer' = buffer /\ stored' = stored /\ marked' = marked /\ tileCount' = tileCount
      /\ tileLimit' = tileLimit /\ failures' = failures
    BY DEF Activate
<1>2. d = [active |-> TRUE, completed |-> 0, required |-> 1, precise |-> FALSE,
           missing |-> {}, remaining |-> <<>>, work |-> <<Style>>, fetching |-> {}]
    BY DEF Activate
<1>3. <<Style>> \in Seq(Resources) /\ <<>> \in Seq(Resources)
    BY Names
<1>4. /\ d \in DownloadType /\ d.active /\ d.completed = 0 /\ d.required = 1 /\ d.remaining = <<>>
      /\ d.work = <<Style>> /\ d.fetching = {} /\ d.precise = FALSE
    BY <1>2, <1>3 DEF DownloadType
<1> HIDE DEF d
<1>5. \A x : /\ In(<<Style>>, x) <=> x = Style
             /\ OnceAtMost(<<Style>>, x)
    <2>1. Len(<<Style>>) = 1 /\ <<Style>>[1] = Style /\ 1..1 = {1}
        OBVIOUS
    <2> QED BY <2>1 DEF In, OnceAtMost
<1>6. \A x : (Out(d, x) <=> x = Style) /\ (Listed(d, x) <=> x = Style)
    BY <1>4, <1>5, EmptyIn DEF Out, Listed
<1>7. Outstanding(d) = 1 /\ IsFiniteSet(d.fetching) /\ Len(d.remaining) = 0
    <2>1. Len(<<Style>>) = 1 /\ Cardinality({}) = 0 /\ IsFiniteSet({}) /\ Len(<<>>) = 0
        BY FS_EmptySet
    <2> QED BY <1>4, <2>1 DEF Outstanding
<1>8. Sound(d)
    <2>1. Once(d)
        BY <1>4, <1>5, <1>6, EmptyIn DEF Once
    <2>2. StyleFirst(d)
        BY <1>4, <1>6, Names, EmptyIn DEF StyleFirst
    <2>3. SourceFirst(d) /\ MissingKnown(d)
        BY <1>4, <1>6, Names, EmptyIn DEF SourceFirst, MissingKnown, Awaited
    <2>4. Metered(d)
        BY <1>7, Names DEF Metered
    <2> QED BY <1>4, <1>7, <2>1, <2>2, <2>3, <2>4 DEF Sound
<1>9. Database'
    <2>1. sessions + 1 \in 0..MaxSessions
        BY <1>1, OfflineDownloadAssumption DEF IInv, Database
    <2> QED BY <1>1, <2>1 DEF IInv, Database
<1>10. FirstSession'
    <2>1. sessions' # 0
        BY <1>1, Session
    <2>2. ASSUME sessions' = 1 PROVE Kept(d, buffer, marked, failures)
        <3>1. sessions = 0
            BY <1>1, <2>2, Session
        <3>2. buffer = <<>> /\ failures = 0
            BY <3>1 DEF IInv, FirstSession
        <3>3. Balanced(d, buffer, failures)
            BY <1>4, <1>7, <3>2 DEF Balanced, Tally
        <3>4. Traced(d, buffer, marked)
            BY <1>6 DEF Traced, Whereabouts
        <3> QED BY <1>4, <3>3, <3>4 DEF Kept
    <2> QED BY <1>1, <2>1, <2>2 DEF FirstSession, d
<1>11. Covered'
    BY <1>1 DEF IInv, Covered
<1> QED BY <1>8, <1>9, <1>10, <1>11 DEF IInv, d

LEMMA DeactivateStep == ASSUME IInv, Deactivate PROVE IInv'
<1>1. /\ download.active /\ download' = Deactivated(download) /\ sessions' = sessions
      /\ buffer' = buffer /\ stored' = stored /\ marked' = marked /\ tileCount' = tileCount
      /\ tileLimit' = tileLimit /\ failures' = failures
    BY DEF Deactivate
<1>2. Sound(download')
    BY <1>1, Session, DeactivatedFacts
<1>3. sessions = 1 => Kept(download', buffer, marked, failures)
    BY <1>1, Session, DeactivatedKept
<1>4. FirstSession'
    BY <1>1, <1>3, Session DEF FirstSession
<1> QED BY <1>1, <1>2, <1>4 DEF IInv, Database, Covered

LEMMA SetLimitStep ==
    ASSUME IInv, NEW n \in TileLimits, SetOfflineMapboxTileCountLimit(n) PROVE IInv'
<1>1. /\ tileLimit' = n
      /\ UNCHANGED <<download, buffer, stored, marked, tileCount, sessions, failures>>
    BY DEF SetOfflineMapboxTileCountLimit
<1> QED BY <1>1 DEF IInv, Database, FirstSession, Covered

LEMMA FoundStep ==
    ASSUME IInv, download.work # <<>>, NEW r, r = Head(download.work), FoundInDatabase(r),
           UNCHANGED <<buffer, stored, tileLimit, sessions, failures>>
    PROVE  IInv'
<1> DEFINE d1 == [download EXCEPT !.work = Tail(@)]
           g == CalledBack(d1, r)
           e == [g EXCEPT !.completed = @ + 1]
<1>1. /\ r \in stored /\ marked' = marked \cup {r} /\ tileCount' = tileCount
      /\ download' = Continued(e)
    BY DEF FoundInDatabase
<1>2. /\ r \in Resources /\ download.active /\ Taken(d1, r) /\ d1.completed = download.completed
      /\ d1.required = download.required /\ d1.remaining = download.remaining
      /\ Outstanding(d1) + 1 = Outstanding(download)
      /\ \A x : Out(download, x) <=> Out(d1, x) \/ x = r
    BY Session, TakenFromWork
<1> HIDE DEF d1
<1>3. Sound(g) /\ g.active /\ ~Out(g, Style)
    BY <1>2, CalledBackFacts
<1>4. /\ Sound(e) /\ e.active = g.active /\ e.completed = g.completed + 1
      /\ e.required = g.required /\ e.remaining = g.remaining /\ e.work = g.work
      /\ e.fetching = g.fetching
    <2> HIDE DEF g
    <2>1. 1 \in Nat
        OBVIOUS
    <2> QED BY ONLY <1>3, <2>1, CompletedFacts
<1> HIDE DEF e
<1>5. ASSUME sessions = 1 PROVE Kept(e, buffer, marked', failures)
    <2>1. Len(buffer) + 1 = Len(buffer) + 1 /\ 1 \in Nat /\ buffer \in Seq(Resources)
        BY Session
    <2>2. \A x : In(buffer, x) \/ x = r => x \in marked' \/ In(buffer, x)
        BY <1>1
    <2>3. marked \subseteq marked'
        BY <1>1
    <2>4. Sound(download) /\ Kept(download, buffer, marked, failures)
        BY <1>5, Session
    <2> QED BY <1>2, <1>3, <1>4, <2>1, <2>2, <2>3, <2>4, HandledKept
<1>6. Sound(download')
    BY <1>1, <1>4, ContinuedFacts
<1>7. sessions = 1 => Kept(download', buffer, marked', failures)
    BY <1>1, <1>4, <1>5, Session, ContinuedKept
<1>8. Database'
    <2>1. IsFiniteSet(marked')
        BY <1>1, Session, FS_AddElement DEF Database
    <2> QED BY <1>1, <1>2, <2>1, Session DEF Database
<1>9. FirstSession'
    BY <1>2, <1>7, Session DEF FirstSession
<1>10. Covered'
    <2>1. ASSUME Ambient \cap MapboxTiles = {}
          PROVE  marked' \cap MapboxTiles = marked \cap MapboxTiles
        BY <1>1, <2>1, Session DEF Covered
    <2> QED BY <1>1, <2>1, Session DEF Covered
<1> QED BY <1>6, <1>8, <1>9, <1>10 DEF IInv

LEMMA RefusedStep ==
    ASSUME IInv, download.work # <<>>, NEW r, r = Head(download.work), RefusedByLimit(r),
           UNCHANGED <<buffer, stored, tileLimit, sessions, failures>>
    PROVE  IInv'
<1>1. download' = Deactivated(download) /\ tileCount' = CachedBy(r) /\ marked' = marked
    BY DEF RefusedByLimit
<1>2. download.active
    BY Session, TakenFromWork
<1>3. Sound(download') /\ (sessions = 1 => Kept(download', buffer, marked, failures))
    BY <1>1, <1>2, Session, DeactivatedFacts, DeactivatedKept
<1>4. /\ tileCount' \in Nat \cup {Unknown} /\ CurrentCount \in Nat
      /\ tileCount' # Unknown => tileCount' = CurrentCount
      /\ Ambient \cap MapboxTiles = {} => Counted =< CurrentCount
    BY <1>1, Session, CountFacts
<1>5. Database' /\ FirstSession'
    BY <1>1, <1>2, <1>3, <1>4, Session DEF Database, FirstSession
<1>6. Covered'
    BY <1>1, <1>4, Session DEF Covered, Counted
<1> QED BY <1>3, <1>5, <1>6 DEF IInv

LEMMA RequestedStep ==
    ASSUME IInv, download.work # <<>>, NEW r, r = Head(download.work), RequestedOnline(r),
           UNCHANGED <<buffer, stored, tileLimit, sessions, failures>>
    PROVE  IInv'
<1> DEFINE d == download'
<1>1. /\ d = [download EXCEPT !.work = Tail(@), !.fetching = @ \cup {r}]
      /\ tileCount' = CachedBy(r) /\ marked' = marked
    BY DEF RequestedOnline
<1>2. download.active
    BY Session, TakenFromWork
<1>3. /\ Sound(d) /\ d.active = download.active /\ d.completed = download.completed
      /\ d.required = download.required /\ d.remaining = download.remaining
      /\ Outstanding(d) = Outstanding(download) /\ \A x : Out(d, x) <=> Out(download, x)
    BY <1>1, Session, RequestedFacts
<1> HIDE DEF d
<1>4. ASSUME sessions = 1 PROVE Kept(d, buffer, marked, failures)
    <2>1. Balanced(download, buffer, failures) /\ (failures = 0 => Traced(download, buffer, marked))
        BY <1>2, <1>4, Session DEF Kept
    <2>2. Tally(d, buffer) = Tally(download, buffer)
        BY <1>3 DEF Tally
    <2>3. Balanced(d, buffer, failures)
        BY <1>3, <2>1, <2>2 DEF Balanced
    <2>4. \A x : Listed(d, x) <=> Listed(download, x)
        BY <1>3 DEF Listed
    <2>5. failures = 0 => Traced(d, buffer, marked)
        BY <1>3, <2>1, <2>4, SameRequests DEF Traced, Whereabouts
    <2> QED BY <1>2, <1>3, <2>3, <2>5 DEF Kept
<1>5. /\ tileCount' \in Nat \cup {Unknown} /\ CurrentCount \in Nat
      /\ tileCount' # Unknown => tileCount' = CurrentCount
      /\ Ambient \cap MapboxTiles = {} => Counted =< CurrentCount
    BY <1>1, Session, CountFacts
<1>6. Database' /\ FirstSession'
    BY <1>1, <1>2, <1>4, <1>5, Session DEF Database, FirstSession, d
<1>7. Covered'
    BY <1>1, <1>5, Session DEF Covered, Counted
<1> QED BY <1>3, <1>6, <1>7 DEF IInv, d

LEMMA EnsureStep == ASSUME IInv, EnsureResource PROVE IInv'
<1>1. PICK r : /\ r = Head(download.work) /\ download.work # <<>>
               /\ FoundInDatabase(r) \/ RefusedByLimit(r) \/ RequestedOnline(r)
               /\ UNCHANGED <<buffer, stored, tileLimit, sessions, failures>>
    BY DEF EnsureResource
<1> QED BY <1>1, FoundStep, RefusedStep, RequestedStep

(* The end of a response. *)
LEMMA FinishFacts ==
    ASSUME NEW e, Sound(e), e.active, NEW r, NEW n, FinishResponse(e, r, n),
           NEW c \in Seq(Resources), NEW m, NEW f
    PROVE  Sound(download') /\ (Kept(e, c, m, f) => Kept(download', c, m, f))
<1>1. CASE download' = Deactivated(e)
    BY <1>1, DeactivatedFacts, DeactivatedKept
<1>2. CASE download' = Continued(e)
    BY <1>2, ContinuedFacts, ContinuedKept
<1> QED BY <1>1, <1>2 DEF FinishResponse

(* The resource that arrived has been added to the buffer, and nothing else has happened yet. *)
LEMMA ArrivedFacts ==
    ASSUME IInv, NEW r \in download.fetching
    PROVE  /\ r \in Resources /\ download.active
           /\ Sound(Arrived(r)) /\ Arrived(r).active /\ ~Out(Arrived(r), Style)
           /\ Arrived(r).fetching \subseteq download.fetching
           /\ Batch(r) \in Seq(Resources) /\ Batch(r) # <<>> /\ Len(Batch(r)) = Len(buffer) + 1
           /\ \A x : In(Batch(r), x) <=> In(buffer, x) \/ x = r
           /\ sessions = 1 => Kept(Arrived(r), Batch(r), marked, failures)
<1> DEFINE d1 == [download EXCEPT !.fetching = @ \ {r}]
           g == CalledBack(d1, r)
<1>1. /\ r \in Resources /\ download.active /\ Taken(d1, r)
      /\ d1.fetching = download.fetching \ {r} /\ d1.completed = download.completed
      /\ d1.required = download.required /\ d1.remaining = download.remaining
      /\ Outstanding(d1) + 1 = Outstanding(download)
      /\ \A x : Out(download, x) <=> Out(d1, x) \/ x = r
    BY Session, TakenFromFetching
<1>2. Arrived(r) = g
    BY DEF Arrived
<1> HIDE DEF d1
<1>3. Sound(g) /\ g.active /\ ~Out(g, Style) /\ g.fetching \subseteq download.fetching
    BY <1>1, CalledBackFacts
<1>4. /\ Batch(r) \in Seq(Resources) /\ Batch(r) # <<>> /\ Len(Batch(r)) = Len(buffer) + 1
      /\ \A x : In(Batch(r), x) <=> In(buffer, x) \/ x = r
    <2>1. buffer \in Seq(Resources)
        BY Session
    <2> QED BY <1>1, <2>1, AppendFacts, AppendIn DEF Batch
<1>5. ASSUME sessions = 1 PROVE Kept(g, Batch(r), marked, failures)
    <2>1. Len(Batch(r)) + 0 = Len(buffer) + 1 /\ 0 \in Nat /\ g.completed = g.completed + 0
        <3>1. buffer \in Seq(Resources) /\ g.completed \in Nat
            BY <1>3, Session, Members
        <3> QED BY <1>4, <3>1
    <2>2. \A x : In(buffer, x) \/ x = r => x \in marked \/ In(Batch(r), x)
        BY <1>4
    <2>3. Sound(download) /\ Kept(download, buffer, marked, failures) /\ buffer \in Seq(Resources)
        BY <1>5, Session
    <2> QED BY <1>1, <1>3, <1>4, <2>1, <2>2, <2>3, HandledKept
<1> QED BY <1>1, <1>2, <1>3, <1>4, <1>5

(* The batch has been saved. *)
LEMMA SavedKept ==
    ASSUME NEW d, Sound(d), d.active, ~Out(d, Style), NEW b \in Seq(Resources), NEW m, NEW f,
           Kept(d, b, m, f), NEW m2, m \subseteq m2, ToSet(b) \subseteq m2
    PROVE  LET e == [d EXCEPT !.completed = @ + Len(b)]
           IN  Sound(e) /\ e.active /\ Kept(e, <<>>, m2, f)
<1> DEFINE e == [d EXCEPT !.completed = @ + Len(b)]
           rest == Outstanding(d) + Len(d.remaining)
<1>1. Len(b) \in Nat /\ Len(<<>>) = 0
    OBVIOUS
<1>2. /\ Sound(e) /\ e.active = d.active /\ e.completed = d.completed + Len(b)
      /\ e.required = d.required /\ e.remaining = d.remaining /\ e.work = d.work
      /\ e.fetching = d.fetching
    BY <1>1, CompletedFacts
<1> HIDE DEF e
<1>3. /\ Outstanding(e) = Outstanding(d)
      /\ \A x : (Out(e, x) <=> Out(d, x)) /\ (Listed(e, x) <=> Listed(d, x))
    BY <1>2 DEF Outstanding, Out, Listed
<1>4. rest \in Nat /\ d.completed \in Nat
    BY Members
<1>5. Tally(d, b) = d.completed + Len(b) + rest /\ Tally(e, <<>>) = (d.completed + Len(b)) + 0 + rest
    BY <1>1, <1>2, <1>3 DEF Tally
<1> HIDE DEF rest
<1>6. Tally(e, <<>>) = Tally(d, b)
    BY <1>1, <1>4, <1>5
<1>7. Balanced(e, <<>>, f)
    BY <1>2, <1>6 DEF Kept, Balanced
<1>8. \A x : In(b, x) => x \in m2
    BY ToSetFacts
<1>9. f = 0 => Traced(e, <<>>, m2)
    BY <1>3, <1>8, SameRequests DEF Kept, Traced, Whereabouts
<1> QED BY <1>2, <1>7, <1>9 DEF Kept, e

LEMMA BufferedStep ==
    ASSUME IInv, NEW r \in download.fetching, Buffered(r), UNCHANGED <<tileLimit, sessions>>
    PROVE  IInv'
<1>1. /\ buffer' = Batch(r) /\ FinishResponse(Arrived(r), r, CurrentCount)
      /\ tileCount' = CachedBy(r) /\ stored' = stored /\ marked' = marked /\ failures' = failures
    BY DEF Buffered
<1>2. Sound(download') /\ (sessions = 1 => Kept(download', buffer', marked, failures))
    BY <1>1, ArrivedFacts, FinishFacts
<1>3. /\ tileCount' \in Nat \cup {Unknown} /\ CurrentCount \in Nat
      /\ tileCount' # Unknown => tileCount' = CurrentCount
      /\ Ambient \cap MapboxTiles = {} => Counted =< CurrentCount
    BY <1>1, Session, CountFacts
<1>4. buffer' \in Seq(Resources) /\ sessions # 0
    BY <1>1, ArrivedFacts, Session
<1>5. Database' /\ FirstSession'
    BY <1>1, <1>2, <1>3, <1>4, Session DEF Database, FirstSession
<1>6. Covered'
    BY <1>1, <1>3, Session DEF Covered, Counted
<1> QED BY <1>2, <1>5, <1>6 DEF IInv

LEMMA FlushedStep ==
    ASSUME IInv, NEW r \in download.fetching, Flushed(r), UNCHANGED <<tileLimit, sessions>>
    PROVE  IInv'
<1> DEFINE e == [Arrived(r) EXCEPT !.completed = @ + Len(Batch(r))]
<1>1. /\ Refused(Batch(r)) = {} /\ PutRegionResources(Batch(r)) /\ buffer' = <<>>
      /\ failures' = failures
      /\ \E n : FinishResponse(e, r, n)
    BY DEF Flushed
<1>2. /\ Batch(r) \in Seq(Resources) /\ Sound(Arrived(r)) /\ Arrived(r).active
      /\ ~Out(Arrived(r), Style)
      /\ sessions = 1 => Kept(Arrived(r), Batch(r), marked, failures)
      /\ sessions # 0
    BY ArrivedFacts, Session
<1>3. /\ stored' \subseteq Resources /\ marked' \subseteq stored' /\ IsFiniteSet(marked')
      /\ tileCount' \in Nat \cup {Unknown} /\ marked \subseteq marked' /\ Covered'
      /\ ToSet(Batch(r)) \subseteq marked'
    BY <1>1, <1>2, Session, PutFacts
<1>4. Sound(e) /\ e.active
    <2>1. Len(Batch(r)) \in Nat
        BY <1>2
    <2> QED BY <1>2, <2>1, CompletedFacts
<1>5. sessions = 1 => Kept(e, <<>>, marked', failures)
    BY <1>2, <1>3, SavedKept
<1> HIDE DEF e
<1>6. Sound(download') /\ (sessions = 1 => Kept(download', <<>>, marked', failures))
    <2>1. <<>> \in Seq(Resources)
        OBVIOUS
    <2> QED BY <1>1, <1>4, <1>5, <2>1, FinishFacts
<1>7. Database' /\ FirstSession'
    BY <1>1, <1>2, <1>3, <1>6, Session DEF Database, FirstSession
<1> QED BY <1>3, <1>6, <1>7 DEF IInv

LEMMA FlushedToLimitStep ==
    ASSUME IInv, NEW r \in download.fetching, FlushedToLimit(r), UNCHANGED <<tileLimit, sessions>>
    PROVE  IInv'
<1>1. /\ PutRegionResources(Batch(r)) /\ buffer' = Batch(r)
      /\ failures' = failures /\ download' = Deactivated(Arrived(r))
    BY DEF FlushedToLimit
<1>2. /\ Batch(r) \in Seq(Resources) /\ Sound(Arrived(r)) /\ Arrived(r).active
      /\ sessions = 1 => Kept(Arrived(r), Batch(r), marked, failures)
      /\ sessions # 0
    BY ArrivedFacts, Session
<1>3. /\ stored' \subseteq Resources /\ marked' \subseteq stored' /\ IsFiniteSet(marked')
      /\ tileCount' \in Nat \cup {Unknown} /\ marked \subseteq marked' /\ Covered'
    BY <1>1, <1>2, Session, PutFacts
<1>4. Sound(download') /\ ~download'.active
    BY <1>1, <1>2, DeactivatedFacts
<1>5. sessions = 1 => Kept(download', buffer', marked', failures)
    <2>1. sessions = 1 => Kept(download', buffer', marked, failures)
        BY <1>1, <1>2, DeactivatedKept
    <2> QED BY <1>3, <1>4, <2>1 DEF Kept
<1>6. Database' /\ FirstSession'
    BY <1>1, <1>2, <1>3, <1>5, Session DEF Database, FirstSession
<1> QED BY <1>3, <1>4, <1>6 DEF IInv

LEMMA FlushFailedStep ==
    ASSUME IInv, NEW r \in download.fetching, FlushFailed(r), UNCHANGED <<tileLimit, sessions>>
    PROVE  IInv'
<1>1. /\ failures < MaxFailures /\ failures' = failures + 1 /\ buffer' = <<>>
      /\ stored' = stored /\ marked' = marked
    BY DEF FlushFailed
<1>2. PICK i \in 0..Len(Accepted(Batch(r))) :
         /\ FinishResponse(Arrived(r), r, CountAfter(Batch(r), i))
         /\ tileCount' = IF ToSet(Batch(r)) \cap MapboxTiles = {} THEN tileCount
                         ELSE CountAfter(Batch(r), i)
    BY DEF FlushFailed
<1>3. /\ Batch(r) \in Seq(Resources) /\ Batch(r) # <<>> /\ Sound(Arrived(r)) /\ Arrived(r).active
      /\ sessions = 1 => Kept(Arrived(r), Batch(r), marked, failures)
      /\ sessions # 0 /\ failures \in Nat
    BY ArrivedFacts, Session
<1>4. sessions = 1 => Kept(Arrived(r), <<>>, marked, failures')
    BY <1>1, <1>3, LostKept
<1>5. Sound(download') /\ (sessions = 1 => Kept(download', <<>>, marked, failures'))
    <2>1. <<>> \in Seq(Resources)
        OBVIOUS
    <2> QED BY <1>2, <1>3, <1>4, <2>1, FinishFacts
<1>6. i \in 0..Len(Batch(r))
    <2>1. Len(Accepted(Batch(r))) \in 0..Len(Batch(r)) /\ Len(Batch(r)) \in Nat
        BY <1>3, AcceptedFacts
    <2> QED BY <2>1
<1>7. CountAfter(Batch(r), i) \in Nat /\ CurrentCount =< CountAfter(Batch(r), i)
    BY <1>3, <1>6, Session, FirstFacts
<1>8. Database' /\ FirstSession'
    <2>1. failures + 1 \in 0..MaxFailures
        BY <1>1, <1>3, OfflineDownloadAssumption
    <2>2. tileCount' \in Nat \cup {Unknown} /\ <<>> \in Seq(Resources)
        BY <1>2, <1>7, Session DEF Database
    <2> QED BY <1>1, <1>3, <1>5, <2>1, <2>2, Session DEF Database, FirstSession
<1>9. Covered'
    <2>1. ASSUME Ambient \cap MapboxTiles = {}, tileCount' # Unknown
          PROVE  Counted =< tileCount'
        <3>1. Counted =< CurrentCount /\ Counted \in Nat /\ CurrentCount \in Nat
            BY <2>1, Session, CountFacts
        <3>2. CASE tileCount' = tileCount
            BY <2>1, <3>2, Session DEF Covered, Counted
        <3>3. CASE tileCount' = CountAfter(Batch(r), i)
            BY <1>7, <3>1, <3>3
        <3> QED BY <1>2, <3>2, <3>3
    <2> QED BY <1>1, <2>1, Session DEF Covered, Counted
<1> QED BY <1>5, <1>8, <1>9 DEF IInv

LEMMA RespondStep == ASSUME IInv, NEW r \in Resources, Respond(r) PROVE IInv'
<1>1. /\ r \in download.fetching /\ UNCHANGED <<tileLimit, sessions>>
      /\ Buffered(r) \/ Flushed(r) \/ FlushedToLimit(r) \/ FlushFailed(r)
    BY DEF Respond
<1> QED BY <1>1, BufferedStep, FlushedStep, FlushedToLimitStep, FlushFailedStep

LEMMA InitIInv == ASSUME Init PROVE IInv
<1>1. download \in DownloadType /\ Unlisted(download) /\ ~download.active
    BY DEF Init, DownloadType, Unlisted
<1>2. Sound(download)
    BY <1>1, NothingListed
<1>3. Database
    BY OfflineDownloadAssumption, FS_EmptySet DEF Init, Database
<1>4. FirstSession
    BY <1>1 DEF Init, FirstSession
<1>5. Covered
    BY DEF Init, Covered
<1> QED BY <1>2, <1>3, <1>4, <1>5 DEF IInv

LEMMA NextIInv == ASSUME IInv, [Next]_vars PROVE IInv'
<1>1. CASE Activate
    BY <1>1, ActivateStep
<1>2. CASE Deactivate
    BY <1>2, DeactivateStep
<1>3. CASE \E n \in TileLimits : SetOfflineMapboxTileCountLimit(n)
    BY <1>3, SetLimitStep
<1>4. CASE EnsureResource
    BY <1>4, EnsureStep
<1>5. CASE \E r \in Resources : Respond(r)
    BY <1>5, RespondStep
<1>6. CASE UNCHANGED vars
    BY <1>6 DEF vars, IInv, Database, FirstSession, Covered
<1> QED BY <1>1, <1>2, <1>3, <1>4, <1>5, <1>6 DEF Next

----------------------------------------------------------------------------
(***************************************************************************)
(* The theorems.                                                            *)
(***************************************************************************)

(* In every reachable state the lists of the download are in order, the database holds what the *)
(* type says, the count of the first session is that of the resources on their way, and the    *)
(* cached number of tiles covers the tables.                                                   *)
THEOREM Invariant == Spec => []IInv
BY InitIInv, NextIInv, PTL DEF Spec

(* The variables have their types, whatever the style names and however often a batch fails. *)
THEOREM TypeCorrect == Spec => []TypeOK
<1>1. IInv => TypeOK
    BY DEF IInv, Sound, Database, TypeOK
<1> QED BY <1>1, Invariant, PTL

(* However the tasks, responses, deactivations and failed batches follow one another, and      *)
(* however many tile sources the style names, a download with more requests than               *)
(* OnlineFileSource serves has only requests for TileJSONs: no tile, glyph range, sprite or    *)
(* image is ensured beyond the slots.                                                           *)
THEOREM RequestsAreMetered == Spec => []SlotsMetered
<1>1. IInv => SlotsMetered
    <2> SUFFICES ASSUME IInv, \A x : Out(download, x) => x \in ToSet(Sources)
                 PROVE  ToSet(download.work) \cup download.fetching \subseteq ToSet(Sources)
        BY Session DEF Sound, Metered, SlotsMetered
    <2>1. \A x : x \in ToSet(download.work) <=> In(download.work, x)
        <3>1. download.work \in Seq(Resources)
            BY Session, Members
        <3> QED BY ONLY <3>1, ToSetFacts
    <2> QED BY <2>1 DEF Out
<1> QED BY <1>1, Invariant, PTL

(* Whatever the style names and in whatever order the TileJSONs arrive, are found in the       *)
(* database or cannot be converted: once the required number of resources is called precise    *)
(* it stays as it is until the download is activated again.                                    *)
THEOREM PreciseCount == Spec => PreciseIsFinal
<1>1. ASSUME IInv, [Next]_vars
      PROVE  [download.precise =>
                 \/ download'.precise /\ download'.required = download.required
                 \/ ~download.active /\ download'.active]_vars
    <2> SUFFICES ASSUME download.precise, Next, ~(~download.active /\ download'.active)
                 PROVE  download'.precise /\ download'.required = download.required
        BY <1>1 DEF vars
    <2> DEFINE Same(e) == e.precise = download.precise /\ e.required = download.required
    <2>1. Sound(download) /\ Database /\ buffer \in Seq(Resources)
        BY <1>1, Session
    <2>2. ASSUME NEW e, Sound(e), Same(e)
          PROVE  Same(Deactivated(e)) /\ Same(Continued(e))
        BY <2>2, DeactivatedFacts, ContinuedFacts
    <2>3. ASSUME NEW r \in Resources, Out(download, r), download.active, NEW d1, Taken(d1, r), Same(d1)
          PROVE  /\ Sound(CalledBack(d1, r)) /\ Same(CalledBack(d1, r))
                 /\ ~Out(CalledBack(d1, r), Style)
        <3>1. r # Style /\ r \notin Readable
            BY <2>1, <2>3 DEF Sound, MissingKnown
        <3>2. CalledBack(d1, r) = d1 /\ Sound(d1) /\ ~Out(d1, Style)
            BY <2>3, <3>1, CalledBackFacts DEF Taken, Listed
        <3> QED BY <2>3, <3>2
    <2>4. ASSUME NEW e, Sound(e), Same(e), ~Out(e, Style), NEW n \in Nat
          PROVE  /\ Sound([e EXCEPT !.completed = @ + n])
                 /\ Same([e EXCEPT !.completed = @ + n])
        BY <2>4, CompletedFacts
    <2> HIDE DEF Same
    <2>5. CASE Activate
        BY <2>5 DEF Activate
    <2>6. CASE Deactivate
        BY <2>1, <2>2, <2>6 DEF Deactivate, Same
    <2>7. CASE \E n \in TileLimits : SetOfflineMapboxTileCountLimit(n)
        BY <2>7 DEF SetOfflineMapboxTileCountLimit
    <2>8. CASE EnsureResource
        <3>1. PICK r : /\ r = Head(download.work) /\ download.work # <<>>
                       /\ FoundInDatabase(r) \/ RefusedByLimit(r) \/ RequestedOnline(r)
            BY <2>8 DEF EnsureResource
        <3> DEFINE d1 == [download EXCEPT !.work = Tail(@)]
                   g == CalledBack(d1, r)
                   e == [g EXCEPT !.completed = @ + 1]
        <3>2. /\ r \in Resources /\ Out(download, r) /\ download.active /\ Taken(d1, r)
              /\ d1.precise = download.precise /\ d1.required = download.required
            BY <2>1, <3>1, TakenFromWork
        <3>3. CASE FoundInDatabase(r)
            <4>1. Same(d1)
                BY <3>2 DEF Same
            <4> HIDE DEF d1
            <4>2. Sound(g) /\ Same(g) /\ ~Out(g, Style)
                BY <2>3, <3>2, <4>1
            <4> HIDE DEF g
            <4>3. Sound(e) /\ Same(e)
                BY <2>4, <4>2
            <4>4. download' = Continued(e)
                BY <3>3 DEF FoundInDatabase, e, g, d1
            <4> HIDE DEF e
            <4> QED BY <2>2, <4>3, <4>4 DEF Same
        <3>4. CASE RefusedByLimit(r)
            BY <2>1, <2>2, <3>4 DEF RefusedByLimit, Same
        <3>5. CASE RequestedOnline(r)
            BY <2>1, <3>1, <3>5, RequestedFacts DEF RequestedOnline
        <3> QED BY <3>1, <3>3, <3>4, <3>5
    <2>9. CASE \E r \in Resources : Respond(r)
        <3>1. PICK r \in download.fetching :
                 Buffered(r) \/ Flushed(r) \/ FlushedToLimit(r) \/ FlushFailed(r)
            BY <2>9 DEF Respond
        <3> DEFINE d1 == [download EXCEPT !.fetching = @ \ {r}]
                   g == Arrived(r)
                   e == [g EXCEPT !.completed = @ + Len(Batch(r))]
        <3>2. /\ r \in Resources /\ download.active /\ Taken(d1, r) /\ d1.precise = download.precise
              /\ d1.required = download.required /\ Out(download, r)
            BY <2>1, TakenFromFetching DEF Out
        <3>3. Same(d1) /\ g = CalledBack(d1, r)
            BY <3>2 DEF Same, Arrived
        <3> HIDE DEF d1, g
        <3>4. Sound(g) /\ Same(g) /\ ~Out(g, Style)
            BY <2>3, <3>2, <3>3
        <3>5. Sound(e) /\ Same(e)
            <4>1. Len(Batch(r)) \in Nat
                BY <1>1, ArrivedFacts
            <4> QED BY <2>4, <3>4, <4>1
        <3>6. \/ download' = Deactivated(g) \/ download' = Continued(g)
              \/ download' = Deactivated(e) \/ download' = Continued(e)
            BY <3>1 DEF Buffered, Flushed, FlushedToLimit, FlushFailed, FinishResponse, e, g
        <3> HIDE DEF e
        <3> QED BY <2>2, <3>4, <3>5, <3>6 DEF Same
    <2> QED BY <2>5, <2>6, <2>7, <2>8, <2>9 DEF Next
<1> QED BY <1>1, Invariant, PTL DEF Spec, PreciseIsFinal

(* In the first session, while the database can be written, each required resource is counted   *)
(* once: it is completed, in the buffer, being ensured, or remaining.                           *)
THEOREM NoResourceIsDropped == Spec => [](sessions =< 1 => Accounted)
<1>1. IInv => (sessions =< 1 => Accounted)
    <2> SUFFICES ASSUME IInv, sessions =< 1, download.active, failures = 0
                 PROVE  download.required = download.completed + Len(buffer)
                           + Outstanding(download) + Len(download.remaining)
        BY DEF Accounted
    <2>1. sessions = 1
        BY Session
    <2>2. download.required = Tally(download, buffer)
        BY <2>1, Session DEF Kept, Balanced
    <2>3. /\ download.completed \in Nat /\ Len(buffer) \in Nat /\ Outstanding(download) \in Nat
          /\ Len(download.remaining) \in Nat
        BY Session, Members
    <2> QED BY <2>2, <2>3 DEF Tally
<1> QED BY <1>1, Invariant, PTL

(* A download that has been activated once and calls itself complete has put every resource of  *)
(* the region into the database, whatever was deactivated, refused or lost on the way.          *)
THEOREM CompleteIsStored == Spec => [](sessions =< 1 => CompleteMeansStored)
<1>1. IInv => (sessions =< 1 => CompleteMeansStored)
    <2> SUFFICES ASSUME IInv, sessions =< 1, sessions > 0, download.completed >= download.required
                 PROVE  Resources \subseteq marked
        BY DEF CompleteMeansStored
    <2>1. sessions = 1 /\ Sound(download) /\ buffer \in Seq(Resources)
        BY Session
    <2>2. Kept(download, buffer, marked, failures)
        BY <2>1, Session
    <2>3. CASE download.active
        BY <2>1, <2>2, <2>3, AllThere DEF Kept
    <2>4. CASE ~download.active
        BY <2>2, <2>4 DEF Kept
    <2> QED BY <2>3, <2>4
<1> QED BY <1>1, Invariant, PTL

(* When no tile that counts against the limit was in the database before, no tile is requested  *)
(* once the tables hold as many as the limit allows, although the check goes by a cached count  *)
(* that failed transactions do not take back.                                                   *)
THEOREM LimitIsKept == ASSUME Ambient \cap MapboxTiles = {} PROVE Spec => LimitKept
<1>1. ASSUME IInv, [Next]_vars
      PROVE  [\A r \in MapboxTiles :
                 r \in download'.fetching /\ r \notin download.fetching =>
                     Cardinality(marked \cap MapboxTiles) < tileLimit]_vars
    <2> SUFFICES ASSUME NEW r \in MapboxTiles, r \in download'.fetching, r \notin download.fetching
                 PROVE  Counted < tileLimit
        BY DEF Counted
    <2>1. ASSUME NEW d, Sound(d)
          PROVE  /\ r \notin Deactivated(d).fetching
                 /\ r \notin d.fetching => r \notin Continued(d).fetching
        BY <2>1, DeactivatedFacts, ContinuedFacts DEF Unlisted
    <2>2. ~Activate
        BY DEF Activate
    <2>3. ~Deactivate
        BY <1>1, <2>1, Session DEF Deactivate
    <2>4. ASSUME NEW n, SetOfflineMapboxTileCountLimit(n) PROVE FALSE
        BY <2>4 DEF SetOfflineMapboxTileCountLimit
    <2>5. ASSUME NEW x \in Resources, Respond(x) PROVE FALSE
        <3>1. x \in download.fetching /\ (Buffered(x) \/ Flushed(x) \/ FlushedToLimit(x) \/ FlushFailed(x))
            BY <2>5 DEF Respond
        <3> DEFINE e == [Arrived(x) EXCEPT !.completed = @ + Len(Batch(x))]
        <3>2. /\ Sound(Arrived(x)) /\ r \notin Arrived(x).fetching
              /\ Sound(e) /\ r \notin e.fetching
            <4>1. /\ Sound(Arrived(x)) /\ Arrived(x).fetching \subseteq download.fetching
                  /\ ~Out(Arrived(x), Style) /\ Batch(x) \in Seq(Resources)
                BY <1>1, <3>1, ArrivedFacts
            <4>2. Len(Batch(x)) \in Nat
                BY <4>1
            <4> QED BY <4>1, <4>2, CompletedFacts
        <3> HIDE DEF e
        <3>3. \/ download' = Deactivated(Arrived(x)) \/ download' = Continued(Arrived(x))
              \/ download' = Deactivated(e) \/ download' = Continued(e)
            BY <3>1 DEF Buffered, Flushed, FlushedToLimit, FlushFailed, FinishResponse, e
        <3> QED BY <2>1, <3>2, <3>3
    <2>6. ~ UNCHANGED vars
        BY DEF vars
    <2>7. EnsureResource
        BY <1>1, <2>2, <2>3, <2>4, <2>5, <2>6 DEF Next
    <2>8. PICK x : /\ x = Head(download.work) /\ download.work # <<>>
                   /\ FoundInDatabase(x) \/ RefusedByLimit(x) \/ RequestedOnline(x)
        BY <2>7 DEF EnsureResource
    <2>9. ~FoundInDatabase(x)
        <3> DEFINE d1 == [download EXCEPT !.work = Tail(@)]
                   g == CalledBack(d1, x)
                   e == [g EXCEPT !.completed = @ + 1]
        <3>1. x \in Resources /\ Taken(d1, x) /\ d1.fetching = download.fetching
            BY <1>1, <2>8, Session, TakenFromWork
        <3> HIDE DEF d1
        <3>2. Sound(g) /\ ~Out(g, Style) /\ g.fetching \subseteq download.fetching
            BY <3>1, CalledBackFacts
        <3>3. Sound(e) /\ e.fetching = g.fetching
            BY <3>2, CompletedFacts
        <3> HIDE DEF e
        <3> QED BY <2>1, <3>2, <3>3 DEF FoundInDatabase, d1, e
    <2>10. ~RefusedByLimit(x)
        BY <1>1, <2>1, Session DEF RefusedByLimit
    <2>11. RequestedOnline(x)
        BY <2>8, <2>9, <2>10
    <2>12. download'.fetching = download.fetching \cup {x}
        BY <1>1, <2>8, <2>11, Session, RequestedFacts DEF RequestedOnline
    <2>13. r = x /\ ~(CurrentCount >= tileLimit)
        BY <2>11, <2>12 DEF RequestedOnline, Exceeds
    <2>14. Counted \in Nat /\ CurrentCount \in Nat /\ tileLimit \in Nat /\ Counted =< CurrentCount
        BY <1>1, Session, CountFacts, OfflineDownloadAssumption DEF Database
    <2> QED BY <2>13, <2>14
<1> QED BY <1>1, Invariant, PTL DEF Spec, LimitKept
=============================================================================
