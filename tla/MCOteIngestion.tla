--------------------------- MODULE MCOteIngestion ---------------------------
(***************************************************************************)
(* OteIngestion with one target of two sensors, the dumps all of one.      *)
(***************************************************************************)
EXTENDS OteIngestion

Sensor == [d \in Dumps |-> "L1"]
SensorsOfTarget == [t \in Targets |-> {"L1", "L2"}]

=============================================================================
