----------------------------- MODULE MCGenerations -----------------------------
(***************************************************************************)
(* Code generations and datasets for TLC's instances of the seed modules.  *)
(*                                                                         *)
(* Two generations are enough for every chain of migrations: seeds of g1   *)
(* and g2 alternate the definition.                                        *)
(***************************************************************************)
EXTENDS TLC

CONSTANTS g1, g2, p1, p2

TwoDefinitions == g1 :> "d1" @@ g2 :> "d2"
TwoDatasets    == g1 :> {p1, p2} @@ g2 :> {p2}

\* One document per dataset, for the larger fault runs.
SingleDatasets == g1 :> {p1} @@ g2 :> {p2}

=============================================================================
