------------------------- MODULE MCOfflineDownload -------------------------
(* Small instances of OfflineDownload. *)
EXTENDS OfflineDownload, TLC

CONSTANTS t1, t2, t3, t4, t5, s1, s2, s3, glyphs

FilesOne == <<glyphs>>
InlineTwo == <<t1, t4>>

(* A source with two tiles; three sources, of which the second cannot be converted. *)
SourcesOne == <<s1>>
TilesOfOne == s1 :> <<t2, t3>>
SourcesThree == <<s1, s2, s3>>
TilesOfThree == s1 :> <<t2, t3>> @@ s3 :> <<t5>>
=============================================================================
