-------------------------- MODULE MCCatalogRuntime --------------------------
(* Instances of CatalogRuntime for TLC. *)
EXTENDS CatalogRuntime

CONSTANT a

\* A folder of the other lineup is remembered and may be gone; then the root of
\* a lineup is read, as when nothing is remembered.
MCStart == {[lineup |-> "us", name |-> a]}
=============================================================================
