------------------------- MODULE MCOnlineFileSource -------------------------
(* Small instances of OnlineFileSource. *)
EXTENDS OnlineFileSource

CONSTANTS h1, l1, l2
=============================================================================
