--------------------------- MODULE MCUpdatesSync ---------------------------
(* Small instances of UpdatesSync for TLC. *)
EXTENDS UpdatesSync
=============================================================================
