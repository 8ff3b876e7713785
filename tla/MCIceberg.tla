------------------------------ MODULE MCIceberg ------------------------------
(***************************************************************************)
(* LocalScan alone, with the tables of MCIcebergTables.                    *)
(***************************************************************************)
EXTENDS LocalScan, MCIcebergTables
=============================================================================
