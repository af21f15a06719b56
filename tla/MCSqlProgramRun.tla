-------------------------- MODULE MCSqlProgramRun --------------------------
(* A small instance of SqlProgramRun: statements that each keep their own    *)
(* timeout may together take longer than the hard limit.                     *)
EXTENDS SqlProgramRun
=============================================================================
