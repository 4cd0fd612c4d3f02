------------------------------ MODULE MCBuilds ------------------------------
(***************************************************************************)
(* Builds with one build of a schema and one manual build of the same      *)
(* challenge and seed.                                                     *)
(***************************************************************************)
EXTENDS Builds

MCManaged == {"s"}
MCManual == {"m"}

=============================================================================
