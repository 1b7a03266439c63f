---------------------------- MODULE MCBufferedStore ----------------------------
(* Small instances of BufferedStore for TLC. *)
EXTENDS BufferedStoreProps, TLC

CONSTANTS h1, h2

\* The hosts are interchangeable in the runs without liveness.
HostSymmetry == Permutations({h1, h2})
=============================================================================
