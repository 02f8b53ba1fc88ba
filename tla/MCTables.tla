------------------------------ MODULE MCTables ------------------------------
(***************************************************************************)
(* Two rows in the tables that relate to others, one in the rest.          *)
(***************************************************************************)
EXTENDS CatalogTables

=============================================================================
