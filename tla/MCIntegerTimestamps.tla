-------------------------- MODULE MCIntegerTimestamps --------------------------
(***************************************************************************)
(* Instances of IntegerTimestamps for TLC: two instants, so that a row can *)
(* be older or newer than the last value of its group address.             *)
(***************************************************************************)
EXTENDS IntegerTimestampsProps

Instants == 1..2
=============================================================================
