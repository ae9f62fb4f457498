-------------------------- MODULE MCServerMigration --------------------------
(* Two tables and two columns, on either server.                           *)
EXTENDS ServerMigration
=============================================================================
