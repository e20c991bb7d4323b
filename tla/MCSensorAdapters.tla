---------------------------- MODULE MCSensorAdapters ----------------------------
(* SensorAdapters with small queues. *)
EXTENDS SensorAdapters
================================================================================
