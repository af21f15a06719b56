--------------------------- MODULE MCRunAllStream ---------------------------
(* A small instance of RunAllStream: two stages of run_all, and a queue that *)
(* has just room for the events of a run.                                    *)
EXTENDS RunAllStream
=============================================================================
