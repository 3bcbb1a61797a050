---------------------------- MODULE MCBulkCatalog ----------------------------
(* BulkCatalog for TLC.                                                      *)
EXTENDS BulkCatalog
=============================================================================
