--------------------------- MODULE MCWatchStream ---------------------------
(* Small instances of WatchStream for TLC.                                 *)
EXTENDS WatchStream
=============================================================================
