------------------------------ MODULE MCCatalogue ------------------------------
(* Instances of Catalogue for TLC. *)
EXTENDS CatalogueProperties, TLC

Symmetry == Permutations(Executions)

=============================================================================
