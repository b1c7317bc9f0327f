---------------------------- MODULE MCCatalogRows ----------------------------
(* Small instances of CatalogRows for TLC. *)
EXTENDS CatalogRows
=============================================================================
