---------------------------- MODULE MCSparkStages ----------------------------
(* Small instances of SparkStages; threads and None are model values.  The   *)
(* cfgs differ in who may act: one loop and one full run, or full runs only. *)
EXTENDS SparkStages
=============================================================================
