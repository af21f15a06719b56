-------------------------- MODULE MCRunLogCollector --------------------------
(* Small instances of RunLogCollector; None and Hole are model values. *)
EXTENDS RunLogCollector
=============================================================================
