--------------------------- MODULE MCBulkTransfer ---------------------------
(* Small instances of BulkTransfer for TLC. *)
EXTENDS BulkTransfer

CONSTANTS h1, h2
=============================================================================
