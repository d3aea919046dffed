--------------------------- MODULE MCCatalogueServing ---------------------------
(* TLC instances of CatalogueServing: two processes in the middle of a        *)
(* deployment that shortens the life of entries, over a catalogue of one      *)
(* product.                                                                   *)
EXTENDS CatalogueServing, TLC

CONSTANTS g1, g2, p1, A, B

Datasets == g1 :> {p1} @@ g2 :> {}
LongAndShort == A :> 6 @@ B :> 1

=============================================================================
