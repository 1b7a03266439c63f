---------------------------- MODULE MCSchemaUpgrade ----------------------------
(* Instances of SchemaUpgradeProps for TLC. *)
EXTENDS SchemaUpgradeProps
=============================================================================
