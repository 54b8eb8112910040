------------------------ MODULE MCDefaultFileSource ------------------------
(* Small instances of DefaultFileSource. *)
EXTENDS DefaultFileSource, TLC

CONSTANTS tile1, map

(* A tile whose resource changes, and a style whose resource does not. *)
TileAndStyle == tile1 :> "tile" @@ map :> "style"
OneTile == tile1 :> "tile"
=============================================================================
