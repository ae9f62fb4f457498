-------------------------- MODULE MCTableMigration --------------------------
EXTENDS TableMigration
=============================================================================
