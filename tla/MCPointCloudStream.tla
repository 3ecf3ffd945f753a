-------------------------- MODULE MCPointCloudStream --------------------------
(* An instance of PointCloudStream for TLC. *)
EXTENDS PointCloudStream

Shape(packed, ids, pulses, scan) ==
  [packed |-> packed, ids |-> ids, pulses |-> pulses, pattern |-> scan]

\* Pulses with no return, with one and with two, over one and two scanlines (a third
\* where the number of pulses is odd); each format; two scan patterns.
MCShapes ==
  { Shape(TRUE, TRUE, <<1, 2, 0, 1>>, "a"), Shape(TRUE, TRUE, <<0, 1, 1>>, "b"),
    Shape(TRUE, FALSE, <<2, 1>>, "a"),     Shape(FALSE, TRUE, <<2, 0, 1, 1>>, "b"),
    Shape(FALSE, TRUE, <<0, 0>>, "none") }
=============================================================================
