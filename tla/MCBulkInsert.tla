--------------------------- MODULE MCBulkInsert ----------------------------
(* A small instance of BulkInsert: more items than the channel holds, so  *)
(* that the producer blocks on a full channel.                             *)
EXTENDS BulkInsert
=============================================================================
