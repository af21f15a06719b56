------------------------- MODULE MCPackageFinalizer -------------------------
(* Small instances of PackageFinalizer: the constants are given in the .cfg. *)
EXTENDS PackageFinalizer
=============================================================================
