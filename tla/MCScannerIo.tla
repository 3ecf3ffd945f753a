---------------------------- MODULE MCScannerIo ----------------------------
(* Symmetry of the streams of ScannerIo for TLC. *)
EXTENDS ScannerIo, TLC

\* No stream is told apart from another.
StreamSymmetry == Permutations(Streams)

=============================================================================
