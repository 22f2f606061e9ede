--------------------------- MODULE MCMessageCache ---------------------------
(* One load at a time.                                                     *)
EXTENDS MessageCache

CONSTANTS l1
=============================================================================
