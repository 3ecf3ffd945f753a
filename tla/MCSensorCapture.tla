-------------------------- MODULE MCSensorCapture --------------------------
(* Values of the constants of SensorCapture for TLC. *)
EXTENDS SensorCapture

ImuOnly == <<"imu">>
MagOnly == <<"mag">>
MagEnv == <<"mag", "env">>

=============================================================================
